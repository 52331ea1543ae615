---------------------------- MODULE TimelineProofs ----------------------------
(***************************************************************************)
(* What is proved of the load of one object, for every set of objects,     *)
(* malformed ones included, and every page size; of the audit next to it:  *)
(* the relocations it tells of are those that go wrong, and an object it   *)
(* suspects nothing of is loaded soundly; of the page-rounded views of the *)
(* memory, for objects whose segments share no page: they agree with the   *)
(* exact one, with the headers, with the addresses of file bytes, and with *)
(* the numbers of resident bytes; of the steps played frame by frame: a    *)
(* prefix of them is a state of the load; of the writers of a byte; and of *)
(* the rows in which compare finds that memory in a process.               *)
(*                                                                         *)
(* The frames need an invariant of their own, ProgressInv: what the load   *)
(* has done is the first part of what is to be done, in the order in which *)
(* the code sorts the mappings and the tables.                             *)
(***************************************************************************)
EXTENDS Compare, Residency, FiniteProofs

-----------------------------------------------------------------------------
(* Pages.                                                                  *)

LEMMA PageDownFacts ==
    ASSUME NEW n \in Nat
    PROVE  /\ PageDown(n) \in Nat /\ PageDown(n) <= n /\ n < PageDown(n) + Page
           /\ Page \in Nat \ {0}
           /\ \E k \in Nat : PageDown(n) = Page * k
  <1>1. Page \in Nat \ {0} /\ n % Page \in 0 .. (Page - 1) /\ n = Page * (n \div Page) + (n % Page)
        /\ n \div Page \in Nat
    BY PageAssumption
  <1>2. Page * (n \div Page) \in Nat /\ PageDown(n) = Page * (n \div Page)
    BY <1>1 DEF PageDown
  <1>3. \E k \in Nat : PageDown(n) = Page * k
    BY <1>1, <1>2
  <1>4. PageDown(n) = n - (n % Page)
    BY DEF PageDown
  <1>5. PageDown(n) \in Nat
    BY <1>2
  <1>6. PageDown(n) <= n /\ n < PageDown(n) + Page
    <2> DEFINE r == n % Page
    <2>1. r \in 0 .. (Page - 1) /\ PageDown(n) = n - r
      BY <1>1, <1>4
    <2> HIDE DEF r
    <2>2. QED
      BY <1>1, <2>1
  <1>7. QED
    BY <1>1, <1>3, <1>5, <1>6

\* Different pages are a page apart.
LEMMA MultiplesApart ==
    ASSUME NEW j \in Nat, NEW k \in Nat, Page * j < Page * k
    PROVE  Page * j + Page <= Page * k
  <1>1. Page \in Nat \ {0}
    BY PageAssumption
  <1>2. j < k
    <2>1. SUFFICES ASSUME k <= j PROVE FALSE
      OBVIOUS
    <2>2. PICK d \in Nat : j = k + d
      BY <2>1
    <2>3. Page * d \in Nat /\ Page * j = Page * k + Page * d
      BY <1>1, <2>2
    <2>4. Page * k \in Nat
      BY <1>1
    <2>5. QED
      BY <2>3, <2>4
  <1>3. PICK d \in Nat : k = j + 1 + d
    BY <1>2
  <1>4. Page * d \in Nat /\ Page * k = Page * j + Page + Page * d /\ Page * j \in Nat
    BY <1>1, <1>3
  <1>5. QED
    BY <1>1, <1>4

\* An address is below a page boundary just if its page ends by then, and above
\* one just if its page starts there or later.
LEMMA PageBounds ==
    ASSUME NEW a \in Nat, NEW v \in Nat
    PROVE  /\ (a < PageDown(v)) <=> (PageDown(a) + Page <= v)
           /\ (PageDown(v) <= a) <=> (PageDown(v) <= PageDown(a))
  <1>1. /\ Page \in Nat \ {0}
        /\ PageDown(a) \in Nat /\ PageDown(a) <= a /\ a < PageDown(a) + Page
        /\ PageDown(v) \in Nat /\ PageDown(v) <= v /\ v < PageDown(v) + Page
    BY PageDownFacts
  <1>2. PICK j \in Nat, k \in Nat : PageDown(a) = Page * j /\ PageDown(v) = Page * k
    BY PageDownFacts
  <1>3. PageDown(a) < PageDown(v) => PageDown(a) + Page <= PageDown(v)
    BY <1>2, MultiplesApart
  <1>4. PageDown(v) < PageDown(a) => PageDown(v) + Page <= PageDown(a)
    BY <1>2, MultiplesApart
  <1>5. QED
    BY <1>1, <1>3, <1>4

-----------------------------------------------------------------------------
(* mprotect.                                                               *)

\* A piece of mapping m: part of it, showing the same bytes.
Piece(p, m) ==
    /\ p \in Mapping
    /\ p.segment = m.segment /\ p.source = m.source
    /\ m.vaddr <= p.vaddr /\ End(p) <= End(m)
    /\ p.source = "file" => p.offset - p.vaddr = m.offset - m.vaddr

LEMMA MappingFields ==
    ASSUME NEW m \in Mapping
    PROVE  /\ m.vaddr \in Nat /\ m.len \in Nat \ {0} /\ m.offset \in Nat /\ m.segment \in Nat
           /\ m.prot \in Prots /\ m.source \in Source
           /\ End(m) \in Nat /\ m.vaddr < End(m) /\ End(m) = m.vaddr + m.len
  BY DEF Mapping, End

LEMMA SliceFacts ==
    ASSUME NEW m \in Mapping, NEW lo \in Nat, NEW hi \in Nat, NEW prot \in Prots,
           m.vaddr <= lo, lo < hi, hi <= End(m)
    PROVE  /\ Piece(Slice(m, lo, hi, prot), m)
           /\ Slice(m, lo, hi, prot).vaddr = lo
           /\ End(Slice(m, lo, hi, prot)) = hi
           /\ Slice(m, lo, hi, prot).prot = prot
  <1> DEFINE p == Slice(m, lo, hi, prot)
  <1>1. /\ m.vaddr \in Nat /\ m.offset \in Nat /\ m.segment \in Nat /\ m.source \in Source
    BY MappingFields
  <1>2. Minus(hi, lo) \in Nat \ {0} /\ Minus(hi, lo) = hi - lo
        /\ Minus(lo, m.vaddr) \in Nat /\ Minus(lo, m.vaddr) = lo - m.vaddr
    BY <1>1 DEF Minus
  <1>3. /\ p.vaddr = lo /\ p.len = Minus(hi, lo) /\ p.prot = prot
        /\ p.segment = m.segment /\ p.source = m.source
        /\ p.offset = IF m.source = "file" THEN m.offset + Minus(lo, m.vaddr) ELSE m.offset
    BY DEF Slice
  <1>4. p \in Mapping
    <2>1. (IF m.source = "file" THEN m.offset + Minus(lo, m.vaddr) ELSE m.offset) \in Nat
      BY <1>1, <1>2
    <2>2. QED
      BY <1>1, <1>2, <2>1 DEF Slice, Mapping
  <1>5. End(p) = hi
    BY <1>2, <1>3 DEF End
  <1>6. p.source = "file" => p.offset - p.vaddr = m.offset - m.vaddr
    BY <1>1, <1>2, <1>3
  <1>7. QED
    BY <1>3, <1>4, <1>5, <1>6 DEF Piece

\* Splitting a mapping keeps every byte, once, and gives the bytes of the range
\* the new protection and the others the old one.
LEMMA SplitFacts ==
    ASSUME NEW m \in Mapping, NEW from \in Nat, NEW to \in Nat, NEW prot \in Prots, from < to
    PROVE  /\ \A p \in Split(m, from, to, prot) :
                 /\ Piece(p, m)
                 /\ \A a \in Nat : In(p, a) =>
                       p.prot = IF from <= a /\ a < to THEN prot ELSE m.prot
           /\ \A a \in Nat : In(m, a) =>
                 \E p \in Split(m, from, to, prot) :
                     In(p, a) /\ \A q \in Split(m, from, to, prot) : In(q, a) => q = p
  <1> DEFINE lo == Higher(m.vaddr, from)
             hi == Lower(End(m), to)
             A == Slice(m, m.vaddr, from, m.prot)
             B == Slice(m, lo, hi, prot)
             C == Slice(m, to, End(m), m.prot)
             S == Split(m, from, to, prot)
  <1>1. /\ m.vaddr \in Nat /\ End(m) \in Nat /\ m.vaddr < End(m) /\ m.prot \in Prots
        /\ m.segment = m.segment /\ Piece(m, m)
    BY MappingFields DEF Piece
  <1>2. CASE End(m) <= from \/ m.vaddr >= to
    <2>1. S = {m}
      BY <1>2 DEF Split
    <2>2. \A a \in Nat : In(m, a) => ~(from <= a /\ a < to)
      BY <1>1, <1>2 DEF In
    <2>3. QED
      BY <1>1, <2>1, <2>2
  <1>3. CASE ~(End(m) <= from \/ m.vaddr >= to)
    <2>1. \A p : p \in S <=>
             \/ m.vaddr < from /\ p = A
             \/ p = B
             \/ End(m) > to /\ p = C
      BY <1>3 DEF Split
    <2>2. /\ lo \in Nat /\ hi \in Nat /\ lo < hi /\ m.vaddr <= lo /\ hi <= End(m)
          /\ from <= lo /\ hi <= to
          /\ lo = m.vaddr \/ lo = from
          /\ hi = End(m) \/ hi = to
      BY <1>1, <1>3 DEF Higher, Lower
    <2>3. Piece(B, m) /\ B.vaddr = lo /\ End(B) = hi /\ B.prot = prot
      BY <2>2, SliceFacts
    <2>4. m.vaddr < from =>
             /\ Piece(A, m) /\ A.vaddr = m.vaddr /\ End(A) = from
             /\ A.prot = m.prot /\ lo = from
      <3>1. m.vaddr < from => from <= End(m)
        BY <1>1, <1>3
      <3>2. QED
        BY <1>1, <3>1, SliceFacts DEF Higher
    <2>5. End(m) > to =>
             /\ Piece(C, m) /\ C.vaddr = to /\ End(C) = End(m)
             /\ C.prot = m.prot /\ hi = to
      <3>1. End(m) > to => m.vaddr <= to
        BY <1>1, <1>3
      <3>2. QED
        BY <1>1, <3>1, SliceFacts DEF Lower
    <2> DEFINE InA(a) == m.vaddr < from /\ m.vaddr <= a /\ a < from
               InB(a) == lo <= a /\ a < hi
               InC(a) == End(m) > to /\ to <= a /\ a < End(m)
    <2>6. \A a \in Nat :
             /\ In(B, a) <=> InB(a)
             /\ m.vaddr < from => (In(A, a) <=> InA(a))
             /\ End(m) > to => (In(C, a) <=> InC(a))
      BY <2>3, <2>4, <2>5 DEF In
    <2>7. \A a \in Nat :
             /\ InA(a) => ~InB(a) /\ ~InC(a) /\ ~(from <= a /\ a < to)
             /\ InB(a) => ~InC(a) /\ from <= a /\ a < to
             /\ InC(a) => ~(from <= a /\ a < to)
      BY <1>1, <2>2 DEF Higher, Lower
    <2>8. \A a \in Nat : In(m, a) => InA(a) \/ InB(a) \/ InC(a)
      BY <1>1, <2>2 DEF In, Higher, Lower
    <2> HIDE DEF A, B, C, S, lo, hi
    <2>9. ASSUME NEW p \in S
          PROVE  /\ Piece(p, m)
                 /\ \A a \in Nat : In(p, a) =>
                       p.prot = IF from <= a /\ a < to THEN prot ELSE m.prot
      BY <2>1, <2>3, <2>4, <2>5, <2>6, <2>7
    <2>10. ASSUME NEW a \in Nat, In(m, a)
           PROVE  \E p \in S : In(p, a) /\ \A q \in S : In(q, a) => q = p
      <3>1. CASE InA(a)
        <4>1. A \in S /\ In(A, a) /\ \A q \in S : In(q, a) => q = A
          BY <2>1, <2>6, <2>7, <3>1
        <4>2. QED
          BY <4>1
      <3>2. CASE InB(a)
        <4>1. B \in S /\ In(B, a) /\ \A q \in S : In(q, a) => q = B
          BY <2>1, <2>6, <2>7, <3>2
        <4>2. QED
          BY <4>1
      <3>3. CASE InC(a)
        <4>1. C \in S /\ In(C, a) /\ \A q \in S : In(q, a) => q = C
          BY <2>1, <2>6, <2>7, <3>3
        <4>2. QED
          BY <4>1
      <3>4. QED
        BY <2>8, <2>10, <3>1, <3>2, <3>3
    <2>11. QED
      BY <2>9, <2>10 DEF S
  <1>4. QED
    BY <1>2, <1>3

-----------------------------------------------------------------------------
(* What the kernel maps.                                                   *)

LEMMA SegmentFields ==
    ASSUME object \in Object, NEW i \in DOMAIN object.segments
    PROVE  /\ i \in Nat /\ object.segments[i] \in Segment
           /\ object.segments[i].offset \in Nat /\ object.segments[i].vaddr \in Nat
           /\ object.segments[i].filesz \in Nat /\ object.segments[i].memsz \in Nat
           /\ object.segments[i].prot \in Prots
  <1>1. object.segments \in Seq(Segment)
    BY DEF Object
  <1>2. i \in Nat /\ object.segments[i] \in Segment
    BY <1>1
  <1>3. QED
    BY <1>2 DEF Segment

IsFilePart(m, s) ==
    /\ m.source = "file" /\ s.filesz > 0
    /\ m.vaddr = s.vaddr /\ m.len = s.filesz /\ m.offset = s.offset

IsZeroPart(m, s) ==
    /\ m.source = "zero" /\ s.memsz > s.filesz
    /\ m.vaddr = s.vaddr + s.filesz /\ m.len = s.memsz - s.filesz

LEMMA PlannedFacts ==
    ASSUME object \in Object, NEW m \in Planned
    PROVE  /\ m \in Mapping
           /\ m.segment \in Loads(object.segments)
           /\ m.prot = object.segments[m.segment].prot
           /\ \/ IsFilePart(m, object.segments[m.segment])
                 /\ m = FileMapping(object.segments[m.segment], m.segment)
              \/ IsZeroPart(m, object.segments[m.segment])
                 /\ m = ZeroMapping(object.segments[m.segment], m.segment)
  <1>1. CASE \E i \in Loads(object.segments) :
                object.segments[i].filesz > 0 /\ m = FileMapping(object.segments[i], i)
    <2>1. PICK i \in Loads(object.segments) :
             object.segments[i].filesz > 0 /\ m = FileMapping(object.segments[i], i)
      BY <1>1
    <2>2. i \in DOMAIN object.segments
      BY DEF Loads
    <2>3. QED
      BY <2>1, <2>2, SegmentFields DEF FileMapping, Mapping, Source, IsFilePart
  <1>2. CASE \E i \in Loads(object.segments) :
                object.segments[i].memsz > object.segments[i].filesz
                /\ m = ZeroMapping(object.segments[i], i)
    <2>1. PICK i \in Loads(object.segments) :
             object.segments[i].memsz > object.segments[i].filesz
             /\ m = ZeroMapping(object.segments[i], i)
      BY <1>2
    <2>2. i \in DOMAIN object.segments
      BY DEF Loads
    <2>3. Minus(object.segments[i].memsz, object.segments[i].filesz)
             = object.segments[i].memsz - object.segments[i].filesz
      BY <2>1, <2>2, SegmentFields DEF Minus
    <2>4. QED
      BY <2>1, <2>2, <2>3, SegmentFields DEF ZeroMapping, Mapping, Source, IsZeroPart
  <1>3. QED
    BY <1>1, <1>2 DEF Planned, Mappings

LEMMA PartsArePlanned ==
    ASSUME object \in Object, NEW i \in Loads(object.segments)
    PROVE  /\ object.segments[i].filesz > 0 => FileMapping(object.segments[i], i) \in Planned
           /\ object.segments[i].memsz > object.segments[i].filesz =>
                 ZeroMapping(object.segments[i], i) \in Planned
  BY DEF Planned, Mappings

LEMMA PlanIsRight ==
    ASSUME object \in Object
    PROVE  MappedAsPlanned(Planned)
  <1>1. ASSUME NEW i \in Loads(object.segments), NEW a \in Extent(object.segments[i])
        PROVE  \E m \in Planned :
                  /\ m.segment = i /\ In(m, a)
                  /\ ShowsRightByte(m, object.segments[i], a)
                  /\ \A n \in Planned : n.segment = i /\ In(n, a) => n = m
    <2> DEFINE s == object.segments[i]
               f == FileMapping(s, i)
               z == ZeroMapping(s, i)
    <2>1. /\ i \in DOMAIN object.segments
          /\ s.vaddr \in Nat /\ s.filesz \in Nat /\ s.memsz \in Nat /\ s.offset \in Nat
      BY SegmentFields DEF Loads
    <2>2. a \in Nat /\ s.vaddr <= a /\ a < s.vaddr + Higher(s.filesz, s.memsz)
      BY <1>1, <2>1 DEF Extent, Higher
    <2>3. \A n \in Planned : n.segment = i =>
             (IsFilePart(n, s) /\ n = f) \/ (IsZeroPart(n, s) /\ n = z)
      BY PlannedFacts
    <2>4. /\ f.source = "file" /\ f.vaddr = s.vaddr /\ f.len = s.filesz /\ f.offset = s.offset
          /\ f.segment = i
      BY DEF FileMapping
    <2>5. /\ z.source = "zero" /\ z.vaddr = s.vaddr + s.filesz /\ z.segment = i
          /\ z.len = Minus(s.memsz, s.filesz)
      BY DEF ZeroMapping
    <2>6. CASE a < s.vaddr + s.filesz
      <3>1. s.filesz > 0
        BY <2>1, <2>2, <2>6
      <3>2. f \in Planned
        BY <3>1, PartsArePlanned
      <3>3. In(f, a) /\ ShowsRightByte(f, s, a)
        BY <2>1, <2>2, <2>4, <2>6 DEF In, End, ShowsRightByte
      <3>4. \A n \in Planned : n.segment = i /\ In(n, a) => n = f
        <4>1. ASSUME NEW n \in Planned, n.segment = i, In(n, a), IsZeroPart(n, s)
              PROVE  FALSE
          BY <4>1, <2>1, <2>2, <2>6 DEF In, IsZeroPart
        <4>2. QED
          BY <2>3, <4>1
      <3> HIDE DEF f
      <3>5. QED
        BY <2>4, <3>2, <3>3, <3>4
    <2>7. CASE ~(a < s.vaddr + s.filesz)
      <3>1. s.memsz > s.filesz /\ a < s.vaddr + s.memsz
        BY <2>1, <2>2, <2>7 DEF Higher
      <3>2. z \in Planned
        BY <3>1, PartsArePlanned
      <3>3. In(z, a) /\ ShowsRightByte(z, s, a)
        BY <2>1, <2>2, <2>5, <2>7, <3>1 DEF In, End, ShowsRightByte, Minus
      <3>4. \A n \in Planned : n.segment = i /\ In(n, a) => n = z
        <4>1. ASSUME NEW n \in Planned, n.segment = i, In(n, a), IsFilePart(n, s)
              PROVE  FALSE
          BY <4>1, <2>1, <2>2, <2>7 DEF In, End, IsFilePart
        <4>2. QED
          BY <2>3, <4>1
      <3> HIDE DEF z
      <3>5. QED
        BY <2>5, <3>2, <3>3, <3>4
    <2>8. QED
      BY <2>6, <2>7
  <1>2. ASSUME NEW m \in Planned
        PROVE  /\ m.segment \in Loads(object.segments)
               /\ m.vaddr .. (End(m) - 1) \subseteq Extent(object.segments[m.segment])
    <2> DEFINE s == object.segments[m.segment]
    <2>1. m.segment \in Loads(object.segments) /\ (IsFilePart(m, s) \/ IsZeroPart(m, s))
      BY PlannedFacts
    <2>2. s.vaddr \in Nat /\ s.filesz \in Nat /\ s.memsz \in Nat
      BY <2>1, SegmentFields DEF Loads
    <2>3. QED
      BY <2>1, <2>2 DEF IsFilePart, IsZeroPart, Extent, End, Higher
  <1>3. QED
    BY <1>1, <1>2 DEF MappedAsPlanned

-----------------------------------------------------------------------------
(* What the loader seals.                                                  *)

\* The first RELRO segment there is.
LEMMA RelroFacts ==
    ASSUME object \in Object, RelroSegments # {}
    PROVE  /\ Relro.vaddr \in Nat /\ Relro.memsz \in Nat
           /\ RelroStart \in Nat /\ RelroEnd \in Nat
  <1>1. RelroSegments \subseteq Nat
    BY SegmentFields DEF RelroSegments
  <1>2. PICK i \in RelroSegments : \A j \in RelroSegments : ~(<<j, i>> \in OpToRel(<, Nat))
    BY <1>1, WFMin, NatLessThanWellFounded
  <1>3. \A j \in RelroSegments : i <= j
    <2>1. \A j \in RelroSegments : ~(j < i)
      BY <1>1, <1>2 DEF OpToRel
    <2>2. QED
      BY <1>1, <2>1
  <1> DEFINE k == CHOOSE n \in RelroSegments : \A j \in RelroSegments : n <= j
  <1>4. k \in RelroSegments
    BY <1>2, <1>3
  <1>5. k \in DOMAIN object.segments /\ Relro = object.segments[k]
    BY <1>4 DEF RelroSegments, Relro
  <1>6. Relro.vaddr \in Nat /\ Relro.memsz \in Nat
    BY <1>5, SegmentFields
  <1>7. Relro.vaddr + Relro.memsz \in Nat
    BY <1>6
  <1>8. RelroStart \in Nat /\ RelroEnd \in Nat
    BY <1>6, <1>7, PageDownFacts DEF RelroStart, RelroEnd
  <1>9. QED
    BY <1>6, <1>8

\* The pages to seal are the range that mprotect gets.
LEMMA SealedIsTheRange ==
    ASSUME object \in Object, NEW a \in Nat
    PROVE  Sealed(a) <=> HasRelro /\ RelroStart <= a /\ a < RelroEnd
  <1>1. CASE RelroSegments = {}
    BY <1>1 DEF Sealed, HasRelro
  <1>2. CASE RelroSegments # {}
    <2>1. /\ Relro.vaddr \in Nat /\ Relro.memsz \in Nat
          /\ RelroStart \in Nat /\ RelroEnd \in Nat
      BY <1>2, RelroFacts
    <2>2. Relro.vaddr + Relro.memsz \in Nat
      BY <2>1
    <2>3. (a < RelroEnd) <=> (PageDown(a) + Page <= Relro.vaddr + Relro.memsz)
      BY <2>2, PageBounds DEF RelroEnd
    <2>4. (RelroStart <= a) <=> (PageDown(Relro.vaddr) <= PageDown(a))
      BY <2>1, PageBounds DEF RelroStart
    <2>5. QED
      BY <1>2, <2>1, <2>3, <2>4 DEF Sealed, HasRelro
  <1>3. QED
    BY <1>1, <1>2

\* What mprotect makes of the mappings that the kernel planned.
Protected == UNION {Split(m, RelroStart, RelroEnd, ReadOnly) : m \in Planned}
Final == IF HasRelro THEN Protected ELSE Planned

LEMMA RelroSplit ==
    ASSUME object \in Object, HasRelro, NEW m \in Planned
    PROVE  /\ \A p \in Split(m, RelroStart, RelroEnd, ReadOnly) :
                 /\ Piece(p, m)
                 /\ \A a \in Nat : In(p, a) =>
                       p.prot = IF RelroStart <= a /\ a < RelroEnd THEN ReadOnly ELSE m.prot
           /\ \A a \in Nat : In(m, a) =>
                 \E p \in Split(m, RelroStart, RelroEnd, ReadOnly) :
                     /\ In(p, a)
                     /\ \A q \in Split(m, RelroStart, RelroEnd, ReadOnly) : In(q, a) => q = p
  <1>1. RelroStart \in Nat /\ RelroEnd \in Nat /\ RelroStart < RelroEnd
    BY RelroFacts DEF HasRelro
  <1>2. m \in Mapping /\ ReadOnly \in Prots
    BY PlannedFacts DEF ReadOnly, Prots
  <1>3. QED
    BY <1>1, <1>2, SplitFacts

\* A piece lies in its mapping and shows what the mapping shows.
LEMMA PieceShows ==
    ASSUME NEW m \in Mapping, NEW p, Piece(p, m), NEW a \in Nat, In(p, a),
           NEW s, s.vaddr \in Nat, s.filesz \in Nat, s.offset \in Nat
    PROVE  In(m, a) /\ (ShowsRightByte(m, s, a) => ShowsRightByte(p, s, a))
  <1>1. /\ p \in Mapping /\ m.vaddr <= p.vaddr /\ End(p) <= End(m) /\ p.source = m.source
        /\ p.source = "file" => p.offset - p.vaddr = m.offset - m.vaddr
    BY DEF Piece
  <1>2. /\ m.vaddr \in Nat /\ End(m) \in Nat /\ m.offset \in Nat
        /\ p.vaddr \in Nat /\ End(p) \in Nat /\ p.offset \in Nat
    BY <1>1, MappingFields
  <1>3. In(m, a)
    BY <1>1, <1>2 DEF In
  <1>4. p.source = "file" => m.offset + (a - m.vaddr) = p.offset + (a - p.vaddr)
    BY <1>1, <1>2
  <1>5. QED
    BY <1>1, <1>3, <1>4 DEF ShowsRightByte

LEMMA FinalIsMapping ==
    ASSUME object \in Object
    PROVE  Planned \subseteq Mapping /\ Final \subseteq Mapping
  <1>1. Planned \subseteq Mapping
    BY PlannedFacts
  <1>2. HasRelro => Protected \subseteq Mapping
    BY RelroSplit DEF Protected, Piece
  <1>3. QED
    BY <1>1, <1>2 DEF Final

LEMMA ProtectedIsRight ==
    ASSUME object \in Object, HasRelro
    PROVE  MappedAsPlanned(Protected)
  <1> DEFINE Pieces(m) == Split(m, RelroStart, RelroEnd, ReadOnly)
  <1>1. ASSUME NEW i \in Loads(object.segments), NEW a \in Extent(object.segments[i])
        PROVE  \E p \in Protected :
                  /\ p.segment = i /\ In(p, a)
                  /\ ShowsRightByte(p, object.segments[i], a)
                  /\ \A n \in Protected : n.segment = i /\ In(n, a) => n = p
    <2> DEFINE s == object.segments[i]
    <2>1. /\ s.vaddr \in Nat /\ s.filesz \in Nat /\ s.memsz \in Nat /\ s.offset \in Nat
      BY SegmentFields DEF Loads
    <2>2. a \in Nat
      BY <1>1, <2>1 DEF Extent, Higher
    <2>3. PICK m \in Planned :
             /\ m.segment = i /\ In(m, a)
             /\ ShowsRightByte(m, s, a)
             /\ \A n \in Planned : n.segment = i /\ In(n, a) => n = m
      BY <1>1, PlanIsRight DEF MappedAsPlanned
    <2>4. PICK p \in Pieces(m) : In(p, a) /\ \A q \in Pieces(m) : In(q, a) => q = p
      BY <2>2, <2>3, RelroSplit
    <2>5. m \in Mapping /\ Piece(p, m) /\ p.segment = i
      BY <2>3, <2>4, RelroSplit, PlannedFacts DEF Piece
    <2>6. p \in Protected /\ ShowsRightByte(p, s, a)
      BY <2>1, <2>2, <2>3, <2>4, <2>5, PieceShows DEF Protected
    <2>7. ASSUME NEW n \in Protected, n.segment = i, In(n, a)
          PROVE  n = p
      <3>1. PICK o \in Planned : n \in Pieces(o)
        BY <2>7 DEF Protected
      <3>2. o \in Mapping /\ Piece(n, o) /\ o.segment = i
        BY <2>7, <3>1, RelroSplit, PlannedFacts DEF Piece
      <3>3. In(o, a)
        BY <2>1, <2>2, <2>7, <3>2, PieceShows
      <3>4. o = m
        BY <2>3, <3>2, <3>3
      <3>5. QED
        BY <2>4, <2>7, <3>1, <3>4
    <2>8. QED
      BY <2>4, <2>5, <2>6, <2>7
  <1>2. ASSUME NEW p \in Protected
        PROVE  /\ p.segment \in Loads(object.segments)
               /\ p.vaddr .. (End(p) - 1) \subseteq Extent(object.segments[p.segment])
    <2>1. PICK m \in Planned : p \in Pieces(m)
      BY <1>2 DEF Protected
    <2>2. m \in Mapping /\ Piece(p, m)
      BY <2>1, RelroSplit, PlannedFacts
    <2>3. /\ m.segment \in Loads(object.segments)
          /\ m.vaddr .. (End(m) - 1) \subseteq Extent(object.segments[m.segment])
      BY PlanIsRight DEF MappedAsPlanned
    <2>4. /\ p.segment = m.segment /\ m.vaddr <= p.vaddr /\ End(p) <= End(m)
          /\ m.vaddr \in Nat /\ End(m) \in Nat /\ p.vaddr \in Nat /\ End(p) \in Nat
      BY <2>2, MappingFields DEF Piece
    <2>5. p.vaddr .. (End(p) - 1) \subseteq m.vaddr .. (End(m) - 1)
      BY <2>4
    <2>6. QED
      BY <2>3, <2>4, <2>5
  <1>3. QED
    BY <1>1, <1>2 DEF MappedAsPlanned

\* Every mapping has the protection it should have once RELRO is sealed.
LEMMA FinalIsSealed ==
    ASSUME object \in Object, NEW p \in Final, NEW a \in Nat, In(p, a)
    PROVE  p.prot = IF Sealed(a) THEN ReadOnly ELSE object.segments[p.segment].prot
  <1>1. CASE HasRelro
    <2>1. PICK m \in Planned : p \in Split(m, RelroStart, RelroEnd, ReadOnly)
      BY <1>1 DEF Final, Protected
    <2>2. /\ p.segment = m.segment /\ m.prot = object.segments[m.segment].prot
          /\ p.prot = IF RelroStart <= a /\ a < RelroEnd THEN ReadOnly ELSE m.prot
      BY <1>1, <2>1, RelroSplit, PlannedFacts DEF Piece
    <2>3. QED
      BY <1>1, <2>2, SealedIsTheRange
  <1>2. CASE ~HasRelro
    <2>1. p \in Planned /\ ~Sealed(a)
      BY <1>2, SealedIsTheRange DEF Final
    <2>2. QED
      BY <2>1, PlannedFacts
  <1>3. QED
    BY <1>1, <1>2

-----------------------------------------------------------------------------
(* The invariant: in every stage the mappings are known, the kernel's being *)
(* a part of the plan until it is done.                                     *)

MappingsInv ==
    /\ stage = "kernel" => mappings \subseteq Planned
    /\ stage = "relocate" => mappings = Planned
    /\ stage \in {"init", "entered"} => mappings = Final

\* The tables before the current one are written.
TablesInv ==
    /\ stage # "kernel" => \A t \in 1 .. (table - 1) : Group(t) \subseteq applied
    /\ stage \in {"init", "entered"} => table = Len(Tables) + 1

LoadInv == TypeOK /\ MappingsInv /\ TablesInv

LEMMA TablesLength == Len(Tables) = 4
  BY DEF Tables

LEMMA InitLoadInv == Init => LoadInv
  <1> SUFFICES ASSUME Init PROVE LoadInv
    OBVIOUS
  <1>1. object \in Object
    BY ObjectsAssumption DEF Init
  <1>2. QED
    BY <1>1, TablesLength DEF Init, LoadInv, TypeOK, MappingsInv, TablesInv

LEMMA NextLoadInv == LoadInv /\ [Next]_vars => LoadInv'
  <1> SUFFICES ASSUME LoadInv, [Next]_vars PROVE LoadInv'
    OBVIOUS
  <1>1. /\ object' = object /\ object \in Object
        /\ Planned' = Planned /\ Final' = Final /\ HasRelro' = HasRelro
        /\ \A t : Group(t)' = Group(t)
    BY DEF LoadInv, TypeOK, Next, vars, Map, KernelDone, Write, NextTable, Protect,
           NothingToProtect, Enter, Planned, Final, Protected, HasRelro, RelroSegments,
           RelroStart, RelroEnd, Relro, Group, Deferred
  <1>2. CASE Map
    <2>1. mappings' \subseteq Planned
      BY <1>2 DEF Map, LoadInv, MappingsInv
    <2>2. mappings' \subseteq Mapping
      BY <1>1, <2>1, FinalIsMapping
    <2>3. QED
      BY <1>1, <1>2, <2>1, <2>2 DEF Map, LoadInv, TypeOK, MappingsInv, TablesInv
  <1>3. CASE KernelDone
    BY <1>1, <1>3, TablesLength DEF KernelDone, LoadInv, TypeOK, MappingsInv, TablesInv
  <1>4. CASE Write
    <2>1. PICK k \in Group(table) \ applied :
             /\ applied' = applied \cup {k}
             /\ writable' = IF \E p \in ProtAt(mappings, object.relocs[k].offset) : "w" \in p
                            THEN writable \cup {k} ELSE writable
      BY <1>4 DEF Write
    <2>2. k \in DOMAIN object.relocs
      BY <2>1 DEF Group
    <2>3. applied' \subseteq DOMAIN object.relocs /\ writable' \subseteq applied'
      BY <2>1, <2>2 DEF LoadInv, TypeOK
    <2>4. QED
      BY <1>1, <1>4, <2>1, <2>3 DEF Write, LoadInv, TypeOK, MappingsInv, TablesInv
  <1>5. CASE NextTable
    <2>1. table' \in 1 .. (Len(Tables) + 1) /\ table \in Nat /\ table' = table + 1
      BY <1>5, TablesLength DEF NextTable, LoadInv, TypeOK
    <2>2. \A t \in 1 .. (table' - 1) : t = table \/ t \in 1 .. (table - 1)
      BY <2>1
    <2>3. \A t \in 1 .. (table' - 1) : Group(t) \subseteq applied
      BY <1>5, <2>2 DEF NextTable, LoadInv, TablesInv
    <2>4. QED
      BY <1>1, <1>5, <2>1, <2>3 DEF NextTable, LoadInv, TypeOK, MappingsInv, TablesInv
  <1>6. CASE Protect
    <2>1. mappings' = Final
      BY <1>6 DEF Protect, LoadInv, MappingsInv, Final, Protected
    <2>2. mappings' \subseteq Mapping
      BY <1>1, <2>1, FinalIsMapping
    <2>3. table = Len(Tables) + 1
      BY <1>6, TablesLength DEF Protect, LoadInv, TypeOK
    <2>4. QED
      BY <1>1, <1>6, <2>1, <2>2, <2>3 DEF Protect, LoadInv, TypeOK, MappingsInv, TablesInv
  <1>7. CASE NothingToProtect
    <2>1. mappings = Final
      BY <1>7 DEF NothingToProtect, LoadInv, MappingsInv, Final
    <2>2. table = Len(Tables) + 1
      BY <1>7, TablesLength DEF NothingToProtect, LoadInv, TypeOK
    <2>3. QED
      BY <1>1, <1>7, <2>1, <2>2 DEF NothingToProtect, LoadInv, TypeOK, MappingsInv, TablesInv
  <1>8. CASE Enter
    BY <1>1, <1>8 DEF Enter, LoadInv, TypeOK, MappingsInv, TablesInv
  <1>9. CASE UNCHANGED vars
    BY <1>1, <1>9 DEF vars, LoadInv, TypeOK, MappingsInv, TablesInv
  <1>10. QED
    BY <1>2, <1>3, <1>4, <1>5, <1>6, <1>7, <1>8, <1>9 DEF Next

-----------------------------------------------------------------------------
\* Every variable of the load has its type: no mapping is ever empty, also where
\* mprotect's range begins or ends with a mapping or meets none.
THEOREM LoadTypeCorrect == Spec => []TypeOK
  <1>1. LoadInv => TypeOK
    BY DEF LoadInv
  <1>2. QED
    BY <1>1, InitLoadInv, NextLoadInv, PTL DEF Spec

\* state_at and the Protect effect of plan: from the end of the kernel's part on
\* each byte of each segment is mapped once, and shows the byte of the file that
\* its header says, whatever mprotect splits.
THEOREM LoadKeepsWhatIsMapped == Spec => []SegmentsAreMapped
  <1>1. LoadInv => SegmentsAreMapped
    <2> SUFFICES ASSUME LoadInv, stage # "kernel" PROVE MappedAsPlanned(mappings)
      BY DEF SegmentsAreMapped
    <2>1. object \in Object /\ (mappings = Planned \/ mappings = Final)
      BY DEF LoadInv, TypeOK, MappingsInv
    <2>2. MappedAsPlanned(Planned) /\ MappedAsPlanned(Final)
      BY <2>1, PlanIsRight, ProtectedIsRight DEF Final
    <2>3. QED
      BY <2>1, <2>2
  <1>2. QED
    BY <1>1, InitLoadInv, NextLoadInv, PTL DEF Spec

\* The RELRO step of plan: once the initialisers run, exactly the pages that RELRO
\* fills to their end are read-only.
THEOREM LoadSealsExactly == Spec => []SealedExactly
  <1>1. LoadInv => SealedExactly
    <2> SUFFICES ASSUME LoadInv, stage \in {"init", "entered"},
                        NEW m \in mappings, NEW a \in m.vaddr .. (End(m) - 1)
                 PROVE  m.prot = IF Sealed(a) THEN ReadOnly
                                 ELSE object.segments[m.segment].prot
      BY DEF SealedExactly
    <2>1. object \in Object /\ m \in Final /\ m \in Mapping
      BY DEF LoadInv, TypeOK, MappingsInv
    <2>2. a \in Nat /\ In(m, a)
      BY <2>1, MappingFields DEF In
    <2>3. QED
      BY <2>1, <2>2, FinalIsSealed
  <1>2. QED
    BY <1>1, InitLoadInv, NextLoadInv, PTL DEF Spec

\* is_deferred: when the initialisers run, a relocation is unwritten only if it is
\* a PLT entry, no ifunc, of an object with a loader and without BIND_NOW.
THEOREM OnlyLazyEntriesWait ==
    Spec => [](stage \in {"init", "entered"} =>
                  \A k \in DOMAIN object.relocs \ applied : Deferred(object.relocs[k]))
  <1>1. LoadInv => (stage \in {"init", "entered"} =>
                       \A k \in DOMAIN object.relocs \ applied : Deferred(object.relocs[k]))
    <2> SUFFICES ASSUME LoadInv, stage \in {"init", "entered"},
                        NEW k \in DOMAIN object.relocs \ applied
                 PROVE  Deferred(object.relocs[k])
      OBVIOUS
    <2>1. object.relocs \in Seq(Reloc)
      BY DEF LoadInv, TypeOK, Object
    <2>2. object.relocs[k].table \in {"Relr", "Rela", "Rel", "JmpRel"}
      <3>1. object.relocs[k] \in Reloc
        BY <2>1
      <3>2. QED
        BY <3>1 DEF Reloc
    <2>3. \E t \in 1 .. 4 : object.relocs[k].table = Tables[t]
      BY <2>2 DEF Tables
    <2>4. \A t \in 1 .. 4 : Group(t) \subseteq applied
      BY TablesLength DEF LoadInv, TablesInv
    <2>5. QED
      BY <2>3, <2>4 DEF Group
  <1>2. QED
    BY <1>1, InitLoadInv, NextLoadInv, PTL DEF Spec

-----------------------------------------------------------------------------
(* Relocations.                                                            *)

\* What is written where it may not be is what the plan says.
WrittenInv == \A k \in applied : k \in writable <=> k \notin Unwritable

LEMMA InitWrittenInv == Init => WrittenInv
  BY DEF Init, WrittenInv

LEMMA NextWrittenInv == LoadInv /\ WrittenInv /\ [Next]_vars => WrittenInv'
  <1> SUFFICES ASSUME LoadInv, WrittenInv, [Next]_vars PROVE WrittenInv'
    OBVIOUS
  <1>1. object' = object
    BY DEF Next, vars, Map, KernelDone, Write, NextTable, Protect, NothingToProtect, Enter
  <1>2. Unwritable' = Unwritable
    BY <1>1 DEF Unwritable, Planned
  <1>3. CASE Write
    <2>1. PICK k \in Group(table) \ applied :
             /\ applied' = applied \cup {k}
             /\ writable' = IF \E p \in ProtAt(mappings, object.relocs[k].offset) : "w" \in p
                            THEN writable \cup {k} ELSE writable
      BY <1>3 DEF Write
    <2>2. k \in DOMAIN object.relocs /\ mappings = Planned
      BY <1>3, <2>1 DEF Group, Write, LoadInv, MappingsInv
    <2>3. k \in Unwritable <=> ~\E p \in ProtAt(mappings, object.relocs[k].offset) : "w" \in p
      BY <2>2 DEF Unwritable
    <2>4. k \notin writable
      BY <2>1 DEF LoadInv, TypeOK
    <2>5. QED
      BY <1>2, <2>1, <2>3, <2>4 DEF WrittenInv
  <1>4. CASE ~Write
    <2>1. applied' = applied /\ writable' = writable
      BY <1>4 DEF Next, vars, Map, KernelDone, NextTable, Protect, NothingToProtect, Enter
    <2>2. QED
      BY <1>2, <2>1 DEF WrittenInv
  <1>5. QED
    BY <1>3, <1>4

LEMMA OnlyLazyOnesWait ==
    ASSUME LoadInv, stage \in {"init", "entered"}, NEW k \in DOMAIN object.relocs \ applied
    PROVE  Deferred(object.relocs[k])
  <1>1. object.relocs \in Seq(Reloc)
    BY DEF LoadInv, TypeOK, Object
  <1>2. object.relocs[k] \in Reloc
    BY <1>1
  <1>3. \E t \in 1 .. 4 : object.relocs[k].table = Tables[t]
    BY <1>2 DEF Reloc, Tables
  <1>4. \A t \in 1 .. 4 : Group(t) \subseteq applied
    BY TablesLength DEF LoadInv, TablesInv
  <1>5. QED
    BY <1>3, <1>4 DEF Group

\* writable_code and the order of plan: the relocations written to memory that may
\* not be written are those the audit tells of, in every state of every load, and
\* what is unwritten when the initialisers run waits for a loader.
THEOREM AuditNamesTheFaults == Spec => []WrittenBeforeSealed
  <1>1. LoadInv /\ WrittenInv => WrittenBeforeSealed
    <2> SUFFICES ASSUME LoadInv, WrittenInv PROVE WrittenBeforeSealed
      OBVIOUS
    <2>1. applied \ writable = applied \cap Unwritable
      BY DEF WrittenInv
    <2>2. ASSUME stage \in {"init", "entered"}, NEW k \in DOMAIN object.relocs \ applied
          PROVE  /\ object.relocs[k].table = "JmpRel" /\ ~object.relocs[k].ifunc
                 /\ object.interp /\ ~object.bindNow
      BY <2>2, OnlyLazyOnesWait DEF Deferred
    <2>3. QED
      BY <2>1, <2>2 DEF WrittenBeforeSealed
  <1>2. QED
    BY <1>1, InitLoadInv, NextLoadInv, InitWrittenInv, NextWrittenInv, PTL DEF Spec

-----------------------------------------------------------------------------
(* Segments and the entry point.                                           *)

\* Every address of a mapping is one of its segment.
LEMMA MappedInSegment ==
    ASSUME object \in Object, ClaimsMoreFile = {}, NEW M \in SUBSET Mapping, MappedAsPlanned(M),
           NEW m \in M, NEW a \in Nat, In(m, a)
    PROVE  /\ m.segment \in Loads(Segs) /\ m.segment \in DOMAIN Segs
           /\ a \in Extent(Segs[m.segment])
           /\ Segs[m.segment].vaddr <= a /\ a < MemEnd(Segs[m.segment])
  <1> DEFINE s == Segs[m.segment]
  <1>1. m \in Mapping /\ m.vaddr \in Nat /\ End(m) \in Nat
    BY MappingFields
  <1>2. /\ m.segment \in Loads(Segs)
        /\ m.vaddr .. (End(m) - 1) \subseteq Extent(s)
    BY DEF MappedAsPlanned, Segs
  <1>3. m.segment \in DOMAIN Segs
    BY <1>2 DEF Loads
  <1>4. /\ s.vaddr \in Nat /\ s.filesz \in Nat /\ s.memsz \in Nat
    BY <1>3, SegmentFields DEF Segs
  <1>5. ~(s.filesz > s.memsz)
    BY <1>2 DEF ClaimsMoreFile
  <1>6. Higher(s.filesz, s.memsz) = s.memsz
    BY <1>4, <1>5 DEF Higher
  <1>7. a \in m.vaddr .. (End(m) - 1)
    BY <1>1 DEF In
  <1>8. a \in Extent(s)
    BY <1>2, <1>7
  <1>9. s.vaddr <= a /\ a < s.vaddr + s.memsz
    BY <1>4, <1>6, <1>8 DEF Extent
  <1>10. QED
    BY <1>2, <1>3, <1>8, <1>9 DEF MemEnd

\* Two segments with an address in common overlap.
LEMMA SegmentsApart ==
    ASSUME object \in Object, Overlapping = {},
           NEW i \in Loads(Segs), NEW j \in Loads(Segs), NEW a \in Nat,
           Segs[i].vaddr <= a, a < MemEnd(Segs[i]), Segs[j].vaddr <= a, a < MemEnd(Segs[j])
    PROVE  i = j
  <1>1. /\ i \in Nat /\ Segs[i].vaddr \in Nat /\ Segs[i].memsz \in Nat
        /\ j \in Nat /\ Segs[j].vaddr \in Nat /\ Segs[j].memsz \in Nat
    BY SegmentFields DEF Loads, Segs
  <1>2. /\ MemEnd(Segs[i]) \in Nat /\ MemEnd(Segs[j]) \in Nat
    BY <1>1 DEF MemEnd
  <1>3. Segs[i].vaddr < MemEnd(Segs[j]) /\ Segs[j].vaddr < MemEnd(Segs[i])
    BY <1>1, <1>2
  <1>4. ~(i < j) /\ ~(j < i)
    BY <1>3 DEF Overlapping
  <1>5. QED
    BY <1>1, <1>4

\* A byte of memory is in one mapping, if no segment has more bytes in the file
\* than in memory and no two overlap.
LEMMA OneMappingEach ==
    ASSUME object \in Object, ClaimsMoreFile = {}, Overlapping = {},
           NEW M \in SUBSET Mapping, MappedAsPlanned(M),
           NEW m \in M, NEW n \in M, NEW a \in Nat, In(m, a), In(n, a)
    PROVE  m = n
  <1>1. /\ m.segment \in Loads(Segs) /\ n.segment \in Loads(Segs)
        /\ a \in Extent(Segs[m.segment])
        /\ Segs[m.segment].vaddr <= a /\ a < MemEnd(Segs[m.segment])
        /\ Segs[n.segment].vaddr <= a /\ a < MemEnd(Segs[n.segment])
    BY MappedInSegment
  <1>2. m.segment = n.segment
    BY <1>1, SegmentsApart
  <1>3. PICK q \in M : \A p \in M : p.segment = m.segment /\ In(p, a) => p = q
    BY <1>1 DEF MappedAsPlanned, Segs
  <1>4. QED
    BY <1>2, <1>3

LEMMA MappingsApart ==
    ASSUME object \in Object, ClaimsMoreFile = {}, Overlapping = {},
           NEW M \in SUBSET Mapping, MappedAsPlanned(M), NEW m \in M, NEW n \in M, m # n
    PROVE  End(m) <= n.vaddr \/ End(n) <= m.vaddr
  <1>1. /\ m.vaddr \in Nat /\ End(m) \in Nat /\ m.vaddr < End(m)
        /\ n.vaddr \in Nat /\ End(n) \in Nat /\ n.vaddr < End(n)
    BY MappingFields
  <1>2. SUFFICES ASSUME ~(End(m) <= n.vaddr), ~(End(n) <= m.vaddr) PROVE FALSE
    OBVIOUS
  <1>3. \E a \in Nat : In(m, a) /\ In(n, a)
    <2>1. CASE m.vaddr <= n.vaddr
      BY <1>1, <1>2, <2>1 DEF In
    <2>2. CASE n.vaddr < m.vaddr
      BY <1>1, <1>2, <2>2 DEF In
    <2>3. QED
      BY <1>1, <2>1, <2>2
  <1>4. QED
    BY <1>3, OneMappingEach

\* The only mapping of an address is the one prot_at finds.
LEMMA ProtOfTheOnly ==
    ASSUME NEW M \in SUBSET Mapping, NEW m \in M, NEW a \in Nat, In(m, a),
           \A n \in M : In(n, a) => n = m
    PROVE  m.prot \in ProtAt(M, a)
  <1>1. KeyLeq(m, m)
    BY MappingFields DEF KeyLeq
  <1>2. QED
    BY <1>1 DEF ProtAt

\* segments and entry_point: what they promise of the headers, the load keeps when
\* the program is entered - each byte of memory has one owner, no memory is both
\* written and run, and control goes to code, unless RELRO has sealed that code.
THEOREM SilenceIsSound == Spec => []SilentAuditIsSound
  <1>1. LoadInv => SilentAuditIsSound
    <2> SUFFICES ASSUME LoadInv, stage = "entered", NothingSuspicious
                 PROVE  /\ \A m, n \in mappings : m # n => End(m) <= n.vaddr \/ End(n) <= m.vaddr
                        /\ \A m \in mappings : ~({"w", "x"} \subseteq m.prot)
                        /\ object.entry # 0 => (Executable(object.entry) <=> ~Sealed(object.entry))
      BY DEF SilentAuditIsSound
    <2>1. /\ object \in Object /\ mappings = Final /\ mappings \in SUBSET Mapping
          /\ ClaimsMoreFile = {} /\ WritableAndExecutable = {} /\ Overlapping = {} /\ EntryIsFine
      BY DEF LoadInv, TypeOK, MappingsInv, NothingSuspicious
    <2>2. MappedAsPlanned(mappings)
      BY <2>1, PlanIsRight, ProtectedIsRight DEF Final
    <2>3. \A m, n \in mappings : m # n => End(m) <= n.vaddr \/ End(n) <= m.vaddr
      BY <2>1, <2>2, MappingsApart
    <2>4. ASSUME NEW m \in mappings PROVE ~({"w", "x"} \subseteq m.prot)
      <3>1. m.vaddr \in Nat /\ In(m, m.vaddr)
        BY <2>1, MappingFields DEF In
      <3>2. m.prot = ReadOnly \/ m.prot = Segs[m.segment].prot
        BY <2>1, <3>1, FinalIsSealed DEF Segs
      <3>3. m.segment \in Loads(Segs)
        BY <2>2 DEF MappedAsPlanned, Segs
      <3>4. ~({"w", "x"} \subseteq Segs[m.segment].prot)
        BY <2>1, <3>3 DEF WritableAndExecutable
      <3>5. QED
        BY <3>2, <3>4 DEF ReadOnly
    <2>5. ASSUME object.entry # 0 PROVE Executable(object.entry) <=> ~Sealed(object.entry)
      <3> DEFINE e == object.entry
      <3>1. e \in Nat
        BY <2>1 DEF Object
      <3>2. PICK h \in Planned : In(h, e) /\ "x" \in h.prot
        BY <2>1, <2>5 DEF EntryIsFine, ProtAt
      <3>4. Planned \in SUBSET Mapping /\ MappedAsPlanned(Planned)
        BY <2>1, FinalIsMapping, PlanIsRight
      <3>5. h.segment \in Loads(Segs) /\ e \in Extent(Segs[h.segment])
        BY <2>1, <3>1, <3>2, <3>4, MappedInSegment
      <3>6. PICK m \in mappings : m.segment = h.segment /\ In(m, e)
        BY <2>2, <3>5 DEF MappedAsPlanned, Segs
      <3>7. "x" \in m.prot <=> ~Sealed(e)
        <4>1. m.prot = IF Sealed(e) THEN ReadOnly ELSE Segs[m.segment].prot
          BY <2>1, <3>1, <3>6, FinalIsSealed DEF Segs
        <4>2. h.prot = Segs[h.segment].prot
          BY <2>1, PlannedFacts DEF Segs
        <4>3. QED
          BY <3>2, <3>6, <4>1, <4>2 DEF ReadOnly
      <3>8. \A n \in mappings : In(n, e) => n = m
        BY <2>1, <2>2, <3>1, <3>6, OneMappingEach
      <3>9. m.prot \in ProtAt(mappings, e)
        BY <2>1, <3>1, <3>6, <3>8, ProtOfTheOnly
      <3>10. \A p \in ProtAt(mappings, e) : p = m.prot
        BY <3>8 DEF ProtAt
      <3>11. QED
        BY <3>7, <3>9, <3>10 DEF Executable
    <2>6. QED
      BY <2>3, <2>4, <2>5
  <1>2. QED
    BY <1>1, InitLoadInv, NextLoadInv, PTL DEF Spec

-----------------------------------------------------------------------------
(* Pages, once more.                                                       *)

\* A page, told by its first address.
IsPage(p) == p \in Nat /\ \E k \in Nat : p = Page * k

LEMMA PageDownIsPage ==
    ASSUME NEW n \in Nat
    PROVE  IsPage(PageDown(n)) /\ PageDown(n) <= n /\ n < PageDown(n) + Page
  BY PageDownFacts DEF IsPage

LEMMA PagesStep ==
    ASSUME NEW p, NEW q, IsPage(p), IsPage(q), p < q
    PROVE  p + Page <= q
  BY MultiplesApart DEF IsPage

\* The page of an address is the only one around it.
LEMMA PageIsDown ==
    ASSUME NEW p, IsPage(p), NEW n \in Nat, p <= n, n < p + Page
    PROVE  PageDown(n) = p
  <1>1. IsPage(PageDown(n)) /\ PageDown(n) <= n /\ n < PageDown(n) + Page /\ p \in Nat
        /\ PageDown(n) \in Nat /\ Page \in Nat
    BY PageDownIsPage, PageDownFacts DEF IsPage
  <1>2. p < PageDown(n) => p + Page <= PageDown(n)
    BY <1>1, PagesStep
  <1>3. PageDown(n) < p => PageDown(n) + Page <= p
    BY <1>1, PagesStep
  <1>4. QED
    BY <1>1, <1>2, <1>3

LEMMA PageIsItsOwn ==
    ASSUME NEW p, IsPage(p)
    PROVE  PageDown(p) = p /\ p % Page = 0
  <1>1. p \in Nat /\ Page \in Nat \ {0}
    BY PageAssumption DEF IsPage
  <1>2. PageDown(p) = p
    BY <1>1, PageIsDown
  <1>3. p % Page \in Nat /\ PageDown(p) = p - (p % Page)
    BY <1>1 DEF PageDown
  <1>4. QED
    BY <1>1, <1>2, <1>3

LEMMA AlignedIsPage ==
    ASSUME NEW p \in Nat, p % Page = 0
    PROVE  IsPage(p)
  <1>1. PageDown(p) = p
    BY DEF PageDown
  <1>2. QED
    BY <1>1, PageDownIsPage

\* The page before a page that is not the first.
LEMMA PageBefore ==
    ASSUME NEW p, IsPage(p), p - Page \in Nat
    PROVE  IsPage(p - Page)
  <1>1. PICK k \in Nat : p = Page * k
    BY DEF IsPage
  <1>2. Page \in Nat \ {0}
    BY PageAssumption
  <1>3. k # 0
    BY <1>1, <1>2
  <1>4. k - 1 \in Nat /\ p - Page = Page * (k - 1)
    BY <1>1, <1>2, <1>3
  <1>5. QED
    BY <1>4 DEF IsPage

\* A page meets the pages of a range of addresses just if an address of the range
\* lies in it.
LEMMA PageMeetsRange ==
    ASSUME NEW p, IsPage(p), NEW lo \in Nat, NEW hi \in Nat, lo < hi
    PROVE  PageDown(lo) <= p /\ p < PageUp(hi) <=>
              \E a \in Nat : lo <= a /\ a < hi /\ PageDown(a) = p
  <1>1. /\ p \in Nat /\ PageDown(p) = p /\ Page \in Nat \ {0}
        /\ PageDown(lo) \in Nat /\ PageDown(lo) <= lo /\ lo < PageDown(lo) + Page
    BY PageIsItsOwn, PageDownFacts, PageAssumption DEF IsPage
  <1>2. hi + Page - 1 \in Nat
    BY <1>1
  <1>3. p < PageUp(hi) <=> p + Page <= hi + Page - 1
    BY <1>1, <1>2, PageBounds DEF PageUp
  <1>4. p < PageUp(hi) <=> p < hi
    BY <1>1, <1>2, <1>3
  <1>5. ASSUME PageDown(lo) <= p, p < hi
        PROVE  \E a \in Nat : lo <= a /\ a < hi /\ PageDown(a) = p
    <2>1. CASE p <= lo
      <3>1. PageDown(lo) = p
        <4>1. ~(PageDown(lo) < p)
          BY <1>1, <2>1, PagesStep, PageDownIsPage
        <4>2. QED
          BY <1>1, <1>5, <4>1
      <3>2. QED
        BY <3>1
    <2>2. CASE lo < p
      BY <1>1, <1>5, <2>2
    <2>3. QED
      BY <1>1, <2>1, <2>2
  <1>6. ASSUME NEW a \in Nat, lo <= a, a < hi, PageDown(a) = p
        PROVE  PageDown(lo) <= p /\ p < hi
    <2>1. p <= a /\ a < p + Page
      BY <1>6, PageDownIsPage
    <2>2. p < hi
      BY <1>1, <1>6, <2>1
    <2>3. ~(p < PageDown(lo))
      <3>1. p < PageDown(lo) => p + Page <= PageDown(lo)
        BY PagesStep, PageDownIsPage
      <3>2. QED
        BY <1>1, <1>6, <2>1, <3>1
    <2>4. QED
      BY <1>1, <2>2, <2>3
  <1>7. QED
    BY <1>4, <1>5, <1>6


-----------------------------------------------------------------------------
(* The mappings on a page.                                                 *)

\* The segments end somewhere, and so does what is mapped for them.
LEMMA ExtentsAreBounded ==
    ASSUME object \in Object
    PROVE  \E b \in Nat : \A i \in DOMAIN Segs :
              Segs[i].vaddr + Higher(Segs[i].filesz, Segs[i].memsz) <= b
  <1> DEFINE Top(i) == Segs[i].vaddr + Higher(Segs[i].filesz, Segs[i].memsz)
  <1>1. PICK len \in Nat : DOMAIN Segs = 1 .. len
    <2>1. Len(Segs) \in Nat /\ DOMAIN Segs = 1 .. Len(Segs)
      BY DEF Object, Segs
    <2>2. QED
      BY <2>1
  <1>2. \A i \in 1 .. len : Top(i) \in Nat
    BY <1>1, SegmentFields DEF Segs, Higher
  <1> HIDE DEF Top
  <1> DEFINE Fits(k) == \E b \in Nat : \A i \in 1 .. k : Top(i) <= b
             T == {k \in 0 .. len : ~Fits(k)}
  <1>3. SUFFICES ASSUME T # {} PROVE FALSE
    <2>1. T = {} => Fits(len)
      <3>1. len \in 0 .. len
        OBVIOUS
      <3> HIDE DEF Fits
      <3>2. QED
        BY <3>1
    <2>2. QED
      BY <1>1, <2>1 DEF Top
  <1>4. PICK n \in T : \A k \in T : n <= k
    <2>1. T \in SUBSET Nat
      OBVIOUS
    <2> HIDE DEF T
    <2>2. QED
      BY <1>3, <2>1, LeastOf
  <1>5. n \in Nat /\ n <= len /\ ~Fits(n)
    OBVIOUS
  <1>6. n # 0
    <2>1. Fits(0)
      OBVIOUS
    <2>2. QED
      BY <1>5, <2>1
  <1>7. n - 1 \in 0 .. len /\ Fits(n - 1)
    <2> HIDE DEF Fits
    <2>1. n - 1 \in 0 .. len /\ ~(n <= n - 1)
      BY <1>5, <1>6
    <2>2. n - 1 \notin T
      BY <1>4, <2>1
    <2>3. QED
      BY <2>1, <2>2
  <1>8. PICK b \in Nat : \A i \in 1 .. n - 1 : Top(i) <= b
    BY <1>7
  <1>9. Top(n) \in Nat
    <2>1. n \in 1 .. len
      BY <1>5, <1>6
    <2>2. QED
      BY <1>2, <2>1
  <1>10. PICK c \in Nat : b <= c /\ Top(n) <= c
    <2>1. b <= Top(n) \/ Top(n) <= b
      BY <1>9
    <2>2. QED
      BY <1>9, <2>1
  <1>11. \A i \in 1 .. n : Top(i) <= c
    <2> SUFFICES ASSUME NEW i \in 1 .. n PROVE Top(i) <= c
      OBVIOUS
    <2>1. CASE i = n
      BY <1>10, <2>1
    <2>2. CASE i # n
      <3>1. i \in 1 .. n - 1 /\ Top(i) \in Nat
        <4>1. i \in 1 .. n - 1 /\ i \in 1 .. len
          BY <1>5, <2>2
        <4>2. QED
          BY <1>2, <4>1
      <3>2. Top(i) <= b
        BY <1>8, <3>1
      <3>3. QED
        BY <1>10, <3>1, <3>2
    <2>3. QED
      BY <2>1, <2>2
  <1>12. QED
    BY <1>5, <1>11

\* Mappings that all end below some address.
Bounded(M) == M \in SUBSET Mapping /\ \E b \in Nat : \A m \in M : End(m) <= b

LEMMA MappedIsBounded ==
    ASSUME object \in Object, NEW M \in SUBSET Mapping, MappedAsPlanned(M)
    PROVE  Bounded(M)
  <1>1. PICK b \in Nat : \A i \in DOMAIN Segs :
           Segs[i].vaddr + Higher(Segs[i].filesz, Segs[i].memsz) <= b
    BY ExtentsAreBounded
  <1>2. ASSUME NEW m \in M PROVE End(m) <= b
    <2> DEFINE s == Segs[m.segment]
    <2>1. m.vaddr \in Nat /\ End(m) \in Nat /\ m.vaddr < End(m)
      BY MappingFields
    <2>2. /\ m.segment \in Loads(Segs)
          /\ m.vaddr .. (End(m) - 1) \subseteq Extent(s)
      BY DEF MappedAsPlanned, Segs
    <2>3. m.segment \in DOMAIN Segs
      BY <2>2 DEF Loads
    <2>4. s.vaddr \in Nat /\ Higher(s.filesz, s.memsz) \in Nat
      BY <2>3, SegmentFields DEF Segs, Higher
    <2>5. End(m) - 1 \in Extent(s)
      BY <2>1, <2>2
    <2>6. End(m) - 1 <= s.vaddr + Higher(s.filesz, s.memsz) - 1
      BY <2>5 DEF Extent
    <2>7. s.vaddr + Higher(s.filesz, s.memsz) <= b
      BY <1>1, <2>3
    <2>8. QED
      BY <2>1, <2>4, <2>6, <2>7
  <1>3. QED
    BY <1>2 DEF Bounded

\* A mapping is on a page just if it holds an address of the page.
LEMMA OnPageFacts ==
    ASSUME NEW M \in SUBSET Mapping, NEW p, IsPage(p), NEW m
    PROVE  m \in OnPage(M, p) <=> m \in M /\ \E a \in Nat : In(m, a) /\ PageDown(a) = p
  <1>1. ASSUME m \in M
        PROVE  PageDown(m.vaddr) <= p /\ p < PageUp(End(m)) <=>
                  \E a \in Nat : m.vaddr <= a /\ a < End(m) /\ PageDown(a) = p
    <2>1. m.vaddr \in Nat /\ End(m) \in Nat /\ m.vaddr < End(m)
      BY <1>1, MappingFields
    <2>2. QED
      BY <2>1, PageMeetsRange
  <1>2. QED
    BY <1>1 DEF OnPage, In

LEMMA PagesFacts ==
    ASSUME NEW M \in SUBSET Mapping, NEW p
    PROVE  p \in Pages(M) <=> IsPage(p) /\ OnPage(M, p) # {}
  <1>1. ASSUME NEW m \in M
        PROVE  PageDown(m.vaddr) \in Nat /\ PageUp(End(m)) \in Nat
    <2>1. m.vaddr \in Nat /\ End(m) + Page - 1 \in Nat
      BY MappingFields, PageAssumption
    <2>2. QED
      BY <2>1, PageDownFacts DEF PageUp
  <1>2. ASSUME p \in Pages(M) PROVE IsPage(p) /\ OnPage(M, p) # {}
    <2>1. PICK m \in M : p \in PageDown(m.vaddr) .. (PageUp(End(m)) - 1) /\ p % Page = 0
      BY <1>2 DEF Pages
    <2>2. p \in Nat /\ PageDown(m.vaddr) <= p /\ p < PageUp(End(m))
      BY <1>1, <2>1
    <2>3. IsPage(p)
      BY <2>1, <2>2, AlignedIsPage
    <2>4. QED
      BY <2>2, <2>3 DEF OnPage
  <1>3. ASSUME IsPage(p), OnPage(M, p) # {} PROVE p \in Pages(M)
    <2>1. PICK m \in M : PageDown(m.vaddr) <= p /\ p < PageUp(End(m))
      BY <1>3 DEF OnPage
    <2>2. p \in PageDown(m.vaddr) .. (PageUp(End(m)) - 1) /\ p % Page = 0
      BY <1>1, <1>3, <2>1, PageIsItsOwn DEF IsPage
    <2>3. QED
      BY <2>2 DEF Pages
  <1>4. QED
    BY <1>2, <1>3

\* The page of a mapped address is one of the pages.
LEMMA MappedPage ==
    ASSUME NEW M \in SUBSET Mapping, NEW m \in M, NEW a \in Nat, In(m, a)
    PROVE  IsPage(PageDown(a)) /\ PageDown(a) \in Pages(M) /\ m \in OnPage(M, PageDown(a))
  <1>1. IsPage(PageDown(a))
    BY PageDownIsPage
  <1>2. m \in OnPage(M, PageDown(a))
    BY <1>1, OnPageFacts
  <1>3. QED
    BY <1>1, <1>2, PagesFacts

\* Some mapping comes last.
LEMMA LastOfIsOne ==
    ASSUME NEW M, Bounded(M), NEW N \in SUBSET M, N # {}
    PROVE  LastOf(N) \in N
  <1>1. PICK b \in Nat : \A m \in M : End(m) <= b
    BY DEF Bounded
  <1>2. \A m \in N : /\ m.vaddr \in Nat /\ m.len \in Nat
                     /\ m.vaddr <= b /\ m.len <= b
    <2> SUFFICES ASSUME NEW m \in N
                 PROVE  /\ m.vaddr \in Nat /\ m.len \in Nat
                        /\ m.vaddr <= b /\ m.len <= b
      OBVIOUS
    <2>1. m \in Mapping /\ End(m) <= b
      BY <1>1 DEF Bounded
    <2>2. m.vaddr \in Nat /\ m.len \in Nat /\ m.vaddr + m.len <= b
      BY <2>1, MappingFields
    <2>3. QED
      BY <2>2
  <1>3. PICK v \in {m.vaddr : m \in N} : \A w \in {m.vaddr : m \in N} : w <= v
    <2>1. {m.vaddr : m \in N} \in SUBSET Nat /\ {m.vaddr : m \in N} # {}
          /\ \A x \in {m.vaddr : m \in N} : x <= b
      BY <1>2
    <2>2. QED
      BY <2>1, GreatestOf
  <1> DEFINE L == {m.len : m \in {n \in N : n.vaddr = v}}
  <1>4. PICK l \in L : \A k \in L : k <= l
    <2>1. L \in SUBSET Nat /\ L # {} /\ \A x \in L : x <= b
      BY <1>2, <1>3
    <2> HIDE DEF L
    <2>2. QED
      BY <2>1, GreatestOf
  <1>5. PICK m \in N : m.vaddr = v /\ m.len = l
    BY <1>4
  <1>6. \A n \in N : KeyLeq(n, m)
    <2> SUFFICES ASSUME NEW n \in N PROVE KeyLeq(n, m)
      OBVIOUS
    <2>1. n.vaddr <= v
      BY <1>3
    <2>2. n.vaddr = v => n.len <= l
      BY <1>4
    <2>3. QED
      BY <1>2, <1>5, <2>1, <2>2 DEF KeyLeq
  <1>7. QED
    BY <1>6 DEF LastOf


-----------------------------------------------------------------------------
(* The runs of pages that State::vmas gathers.                             *)

LEMMA PagesAreBounded ==
    ASSUME NEW M, Bounded(M)
    PROVE  Pages(M) \in SUBSET Nat /\ \E c \in Nat : \A p \in Pages(M) : p <= c
  <1>1. PICK b \in Nat : \A m \in M : End(m) <= b
    BY DEF Bounded
  <1>2. ASSUME NEW p \in Pages(M) PROVE p \in Nat /\ p <= b
    <2>1. M \in SUBSET Mapping /\ IsPage(p) /\ OnPage(M, p) # {}
      BY PagesFacts DEF Bounded
    <2>2. PICK m \in M, a \in Nat : In(m, a) /\ PageDown(a) = p
      BY <2>1, OnPageFacts
    <2>3. p \in Nat /\ p <= a /\ a < End(m) /\ End(m) <= b /\ End(m) \in Nat
      BY <1>1, <2>1, <2>2, PageDownFacts, MappingFields DEF In
    <2>4. QED
      BY <2>2, <2>3
  <1>3. QED
    BY <1>2

\* Each page is in the run of a page that continues no other one.
LEMMA RunExists ==
    ASSUME NEW M, Bounded(M), NEW q \in Pages(M)
    PROVE  \E p \in Pages(M) : ~Continues(M, p) /\ q \in Run(M, p)
  <1> DEFINE T == {p \in Pages(M) : q \in Run(M, p)}
  <1>1. Pages(M) \in SUBSET Nat /\ \A p \in Pages(M) : IsPage(p)
    BY PagesAreBounded, PagesFacts DEF Bounded
  <1>2. q \in T
    BY <1>1 DEF Run
  <1>3. PICK p \in T : \A x \in T : p <= x
    <2>1. T \in SUBSET Nat /\ T # {}
      BY <1>1, <1>2
    <2> HIDE DEF T
    <2>2. QED
      BY <2>1, LeastOf
  <1>4. SUFFICES ASSUME Continues(M, p) PROVE FALSE
    BY <1>3
  <1>5. p - Page \in Pages(M) /\ p - Page \in Nat /\ p \in Nat /\ Page \in Nat \ {0}
    BY <1>1, <1>4, PageAssumption DEF Continues
  <1>6. ASSUME NEW x \in Pages(M), p - Page < x, x <= q
        PROVE  Continues(M, x)
    <2>1. p - Page + Page <= x
      BY <1>1, <1>5, <1>6, PagesStep
    <2>2. x = p \/ p < x
      BY <1>1, <1>5, <2>1
    <2>3. QED
      BY <1>3, <1>4, <1>6, <2>2 DEF Run
  <1>7. p - Page <= q
    BY <1>1, <1>3, <1>5 DEF Run
  <1>8. p - Page \in T
    BY <1>5, <1>6, <1>7 DEF Run
  <1>9. QED
    BY <1>3, <1>5, <1>8

\* And of no other.
LEMMA RunIsTheOnly ==
    ASSUME NEW M, Bounded(M), NEW p \in Pages(M), NEW o \in Pages(M),
           ~Continues(M, p), ~Continues(M, o), NEW q, q \in Run(M, p), q \in Run(M, o)
    PROVE  p = o
  <1>1. Pages(M) \in SUBSET Nat
    BY PagesAreBounded
  <1>2. p <= q /\ o <= q /\ q \in Pages(M)
    BY DEF Run
  <1>3. ~(p < o) /\ ~(o < p)
    BY <1>2 DEF Run
  <1>4. QED
    BY <1>1, <1>3

\* The vma that starts at p, and what it holds: the pages of its run and nothing
\* between them.
VmaFrom(M, p) ==
    [start |-> p, end |-> RunEnd(M, p), prot |-> PageAt(M, p).prot,
     offset |-> PageAt(M, p).offset, segment |-> PageAt(M, p).segment]

LEMMA VmasFacts ==
    ASSUME NEW M, NEW v
    PROVE  v \in Vmas(M) <=> \E p \in Pages(M) : ~Continues(M, p) /\ v = VmaFrom(M, p)
  BY DEF Vmas, VmaFrom

LEMMA RunEndFacts ==
    ASSUME NEW M, Bounded(M), NEW p \in Pages(M)
    PROVE  /\ RunEnd(M, p) \in Nat /\ p < RunEnd(M, p)
           /\ RunEnd(M, p) - Page \in Run(M, p)
           /\ \A q \in Pages(M) : q \in Run(M, p) <=> p <= q /\ q < RunEnd(M, p)
  <1> DEFINE e == CHOOSE q \in Run(M, p) : \A x \in Run(M, p) : x <= q
  <1>1. Pages(M) \in SUBSET Nat /\ \A q \in Pages(M) : IsPage(q)
    BY PagesAreBounded, PagesFacts DEF Bounded
  <1>2. Run(M, p) \in SUBSET Nat /\ p \in Run(M, p) /\ Run(M, p) \subseteq Pages(M)
    BY <1>1 DEF Run
  <1>3. PICK c \in Nat : \A q \in Pages(M) : q <= c
    BY PagesAreBounded
  <1>4. e \in Run(M, p) /\ \A x \in Run(M, p) : x <= e
    <2>1. \E q \in Run(M, p) : \A x \in Run(M, p) : x <= q
      <3>1. \A x \in Run(M, p) : x <= c
        BY <1>2, <1>3
      <3>2. QED
        BY <1>2, <3>1, GreatestOf
    <2>2. QED
      BY <2>1
  <1>5. RunEnd(M, p) = Page + e
    BY DEF RunEnd
  <1>6. Page \in Nat \ {0} /\ e \in Nat /\ p \in Nat /\ p <= e
    BY <1>2, <1>4, PageAssumption
  <1> HIDE DEF e
  <1>7. ASSUME NEW q \in Pages(M)
        PROVE  q \in Run(M, p) <=> p <= q /\ q < Page + e
    <2>1. q \in Nat /\ IsPage(q) /\ IsPage(e)
      BY <1>1, <1>2, <1>4
    <2>2. q < Page + e => q <= e
      <3>1. e < q => e + Page <= q
        BY <2>1, PagesStep
      <3>2. QED
        BY <1>6, <2>1, <3>1
    <2>3. ASSUME p <= q, q <= e PROVE q \in Run(M, p)
      <3>1. ASSUME NEW x \in Pages(M), p < x, x <= q PROVE Continues(M, x)
        <4>1. x <= e
          BY <1>1, <1>6, <2>1, <2>3, <3>1
        <4>2. QED
          BY <1>4, <3>1, <4>1 DEF Run
      <3>2. QED
        BY <2>3, <3>1 DEF Run
    <2>4. q \in Run(M, p) => p <= q /\ q < Page + e
      <3>1. q \in Run(M, p) => p <= q /\ q <= e
        BY <1>4 DEF Run
      <3>2. QED
        BY <1>6, <2>1, <3>1
    <2>5. QED
      BY <2>2, <2>3, <2>4
  <1>8. QED
    BY <1>4, <1>5, <1>6, <1>7

\* A vma holds a mapped address just if the page of the address is in its run.
LEMMA HoldsMeansRun ==
    ASSUME NEW M, Bounded(M), NEW p \in Pages(M), NEW a \in Nat, PageDown(a) \in Pages(M)
    PROVE  Holds(VmaFrom(M, p), a) <=> PageDown(a) \in Run(M, p)
  <1>1. /\ IsPage(p) /\ p \in Nat /\ IsPage(PageDown(a))
        /\ PageDown(a) <= a /\ a < PageDown(a) + Page
    BY PagesFacts, PageDownIsPage DEF Bounded, IsPage
  <1> DEFINE e == RunEnd(M, p) - Page
  <1>2. /\ RunEnd(M, p) \in Nat /\ e \in Run(M, p) /\ RunEnd(M, p) = e + Page
        /\ Page \in Nat \ {0} /\ PageDown(a) \in Nat
    BY <1>1, RunEndFacts, PageAssumption DEF IsPage
  <1>3. e \in Pages(M)
    BY <1>2 DEF Run
  <1>4. IsPage(e) /\ e \in Nat
    BY <1>3, PagesFacts DEF Bounded, IsPage
  <1>5. p <= a <=> p <= PageDown(a)
    <2>1. PageDown(a) < p => PageDown(a) + Page <= p
      BY <1>1, PagesStep
    <2>2. QED
      BY <1>1, <1>2, <2>1
  <1>6. a < RunEnd(M, p) <=> PageDown(a) < RunEnd(M, p)
    <2>1. e < PageDown(a) => e + Page <= PageDown(a)
      BY <1>1, <1>4, PagesStep
    <2> HIDE DEF e
    <2>2. QED
      BY <1>1, <1>2, <1>4, <2>1
  <1>7. QED
    BY <1>5, <1>6, RunEndFacts DEF Holds, VmaFrom


FileMappings(M, p) == {m \in OnPage(M, p) : m.source = "file"}

\* A page with a file mapping shows the file at an offset, any other is anonymous.
LEMMA PageAtFacts ==
    ASSUME NEW M, Bounded(M), NEW p \in Pages(M)
    PROVE  /\ \E m \in OnPage(M, p) :
                 PageAt(M, p).prot = m.prot /\ PageAt(M, p).segment = m.segment
           /\ FileMappings(M, p) = {} => PageAt(M, p).offset = Anonymous
           /\ FileMappings(M, p) # {} =>
                 \E m \in FileMappings(M, p) :
                     /\ PageAt(M, p).offset = PageDown(m.offset) + (p - PageDown(m.vaddr))
                     /\ PageAt(M, p).offset \in Nat
  <1> DEFINE N == OnPage(M, p)
             W == FileMappings(M, p)
  <1>1. M \in SUBSET Mapping /\ IsPage(p) /\ p \in Nat /\ N # {} /\ N \subseteq M /\ W \subseteq M
    BY PagesFacts DEF Bounded, IsPage, OnPage, FileMappings
  <1>2. LastOf(N) \in N
    BY <1>1, LastOfIsOne
  <1>3. PageAt(M, p).prot = LastOf(N).prot /\ PageAt(M, p).segment = LastOf(N).segment
        /\ PageAt(M, p).offset = PageOffset(N, p)
    BY DEF PageAt
  <1>4. W = {} => PageAt(M, p).offset = Anonymous
    BY <1>3 DEF PageOffset, FileMappings
  <1>5. ASSUME W # {}
        PROVE  \E m \in W :
                     /\ PageAt(M, p).offset = PageDown(m.offset) + (p - PageDown(m.vaddr))
                     /\ PageAt(M, p).offset \in Nat
    <2> DEFINE m == LastOf(W)
    <2>1. m \in W
      BY <1>1, <1>5, LastOfIsOne
    <2>2. PageAt(M, p).offset = PageDown(m.offset) + (p - PageDown(m.vaddr))
      BY <1>3, <1>5 DEF PageOffset, FileMappings
    <2> HIDE DEF m
    <2>3. m \in Mapping /\ PageDown(m.vaddr) <= p
      BY <1>1, <2>1 DEF FileMappings, OnPage
    <2>4. PageDown(m.offset) \in Nat /\ PageDown(m.vaddr) \in Nat
      BY <2>3, MappingFields, PageDownFacts
    <2>5. PageAt(M, p).offset \in Nat
      BY <1>1, <2>2, <2>3, <2>4
    <2>6. QED
      BY <2>1, <2>2, <2>5
  <1>6. QED
    BY <1>2, <1>3, <1>4, <1>5

\* The place in the file that page q shows, told from that of page p.
FollowsIn(M, p, q) ==
    IF PageAt(M, p).offset = Anonymous THEN PageAt(M, q).offset = Anonymous
    ELSE PageAt(M, q).offset = PageAt(M, p).offset + (q - p)

\* All pages of a run are mapped, and alike.
LEMMA RunIsUniform ==
    ASSUME NEW M, Bounded(M), NEW p \in Pages(M), NEW q \in Run(M, p)
    PROVE  /\ PageAt(M, q).prot = PageAt(M, p).prot
           /\ PageAt(M, q).segment = PageAt(M, p).segment
           /\ FollowsIn(M, p, q)
  <1> DEFINE Uniform(x) == /\ PageAt(M, x).prot = PageAt(M, p).prot
                         /\ PageAt(M, x).segment = PageAt(M, p).segment
                         /\ FollowsIn(M, p, x)
             T == {x \in Run(M, p) : ~Uniform(x)}
  <1>1. Pages(M) \in SUBSET Nat /\ \A x \in Pages(M) : IsPage(x)
    BY PagesAreBounded, PagesFacts DEF Bounded
  <1>2. SUFFICES ASSUME T # {} PROVE FALSE
    OBVIOUS
  <1>3. PICK x \in T : \A y \in T : x <= y
    <2>1. T \in SUBSET Nat
      BY <1>1 DEF Run
    <2> HIDE DEF T
    <2>2. QED
      BY <1>2, <2>1, LeastOf
  <1>4. /\ x \in Pages(M) /\ x \in Nat /\ p \in Nat /\ p <= x /\ IsPage(x) /\ IsPage(p)
        /\ x \in Run(M, p) /\ ~Uniform(x)
    BY <1>1, <1>3 DEF Run
  <1>5. \A o \in Pages(M) : PageAt(M, o).offset \in Nat \cup {Anonymous}
    BY PageAtFacts
  <1>6. x # p
    <2>1. PageAt(M, p).offset # Anonymous => PageAt(M, p).offset \in Nat
      BY <1>5
    <2>2. FollowsIn(M, p, p)
      BY <1>4, <2>1 DEF FollowsIn
    <2>3. QED
      BY <1>4, <2>2
  <1>7. p < x /\ Continues(M, x)
    BY <1>4, <1>6 DEF Run
  <1> DEFINE y == x - Page
  <1>8. Page \in Nat \ {0} /\ y \in Pages(M) /\ y \in Nat /\ IsPage(y)
    BY <1>1, <1>7, PageAssumption DEF Continues
  <1>9. p <= y /\ y < x
    BY <1>4, <1>7, <1>8, PagesStep
  <1>10. y \in Run(M, p)
    <2>1. ASSUME NEW z \in Pages(M), p < z, z <= y PROVE Continues(M, z)
      <3>1. z <= x
        BY <1>1, <1>4, <1>8, <1>9, <2>1
      <3>2. QED
        BY <1>4, <2>1, <3>1 DEF Run
    <2>2. QED
      BY <1>8, <1>9, <2>1 DEF Run
  <1>11. Uniform(y)
    <2>1. ~(x <= y)
      BY <1>4, <1>8
    <2>2. QED
      BY <1>3, <1>10, <2>1
  <1>12. /\ PageAt(M, y).prot = PageAt(M, x).prot
         /\ PageAt(M, y).segment = PageAt(M, x).segment
         /\ IF PageAt(M, y).offset = Anonymous THEN PageAt(M, x).offset = Anonymous
            ELSE PageAt(M, x).offset = PageAt(M, y).offset + Page
    BY <1>7 DEF Continues
  <1>13. FollowsIn(M, p, x)
    <2>1. FollowsIn(M, p, y)
      BY <1>11
    <2>2. CASE PageAt(M, p).offset = Anonymous
      BY <1>12, <2>1, <2>2 DEF FollowsIn
    <2>3. CASE PageAt(M, p).offset # Anonymous
      <3>1. /\ PageAt(M, p).offset \in Nat
            /\ PageAt(M, y).offset = PageAt(M, p).offset + (y - p)
        BY <1>5, <2>1, <2>3 DEF FollowsIn
      <3>2. PageAt(M, y).offset # Anonymous
        <4> HIDE DEF y
        <4>1. PageAt(M, p).offset + (y - p) >= 0
          BY <1>4, <1>8, <1>9, <3>1
        <4>2. QED
          BY <3>1, <4>1 DEF Anonymous
      <3>3. PageAt(M, x).offset = PageAt(M, y).offset + Page
        BY <1>12, <3>2
      <3>4. PageAt(M, x).offset = PageAt(M, p).offset + (x - p)
        BY <1>4, <1>8, <3>1, <3>3
      <3>5. QED
        BY <2>3, <3>4 DEF FollowsIn
    <2>4. QED
      BY <2>2, <2>3
  <1>14. QED
    BY <1>4, <1>11, <1>12, <1>13

-----------------------------------------------------------------------------
(* Segments that share no page.                                            *)

LEMMA LoadedMemory ==
    ASSUME LoadInv, stage # "kernel"
    PROVE  /\ object \in Object /\ mappings \in SUBSET Mapping
           /\ MappedAsPlanned(mappings) /\ Bounded(mappings)
  <1>1. /\ object \in Object /\ mappings \in SUBSET Mapping
        /\ mappings = Planned \/ mappings = Final
    BY DEF LoadInv, TypeOK, MappingsInv
  <1>2. MappedAsPlanned(Planned) /\ MappedAsPlanned(Final)
    BY <1>1, PlanIsRight, ProtectedIsRight DEF Final
  <1>3. QED
    BY <1>1, <1>2, MappedIsBounded

\* The mappings on a page are of one segment.
LEMMA OneSegmentEach ==
    ASSUME object \in Object, PagesApart, NEW M \in SUBSET Mapping, MappedAsPlanned(M),
           NEW m \in M, NEW n \in M, NEW a \in Nat, NEW b \in Nat, In(m, a), In(n, b),
           PageDown(a) = PageDown(b)
    PROVE  m.segment = n.segment
  <1> DEFINE i == m.segment
             j == n.segment
             p == PageDown(a)
  <1>1. ClaimsMoreFile = {}
    BY DEF PagesApart
  <1>2. /\ i \in Loads(Segs) /\ Segs[i].vaddr <= a /\ a < MemEnd(Segs[i])
        /\ j \in Loads(Segs) /\ Segs[j].vaddr <= b /\ b < MemEnd(Segs[j])
    BY <1>1, MappedInSegment
  <1>3. \A k \in Loads(Segs) : Segs[k].vaddr \in Nat /\ MemEnd(Segs[k]) \in Nat
    BY SegmentFields DEF Loads, Segs, MemEnd
  <1>4. IsPage(p)
    BY PageDownIsPage
  <1>5. /\ PageDown(Segs[i].vaddr) <= p /\ p < PageUp(MemEnd(Segs[i]))
        /\ PageDown(Segs[j].vaddr) <= p /\ p < PageUp(MemEnd(Segs[j]))
    <2>1. ASSUME NEW k \in Loads(Segs), NEW x \in Nat,
                 Segs[k].vaddr <= x, x < MemEnd(Segs[k]), PageDown(x) = p
          PROVE  PageDown(Segs[k].vaddr) <= p /\ p < PageUp(MemEnd(Segs[k]))
      <3>1. Segs[k].vaddr \in Nat /\ MemEnd(Segs[k]) \in Nat /\ Segs[k].vaddr < MemEnd(Segs[k])
        BY <1>3, <2>1
      <3> HIDE DEF p
      <3>2. QED
        BY <1>4, <2>1, <3>1, PageMeetsRange
    <2>2. QED
      BY <1>2, <2>1
  <1>6. /\ PageDown(Segs[i].vaddr) \in Nat /\ PageDown(Segs[j].vaddr) \in Nat
        /\ PageUp(MemEnd(Segs[i])) \in Nat /\ PageUp(MemEnd(Segs[j])) \in Nat /\ p \in Nat
    <2>1. ASSUME NEW k \in Loads(Segs)
          PROVE  PageDown(Segs[k].vaddr) \in Nat /\ PageUp(MemEnd(Segs[k])) \in Nat
      <3>1. MemEnd(Segs[k]) + Page - 1 \in Nat
        BY <1>3, PageAssumption
      <3>2. QED
        BY <1>3, <3>1, PageDownFacts DEF PageUp
    <2>2. QED
      BY <1>2, <1>4, <2>1 DEF IsPage
  <1>7. SUFFICES ASSUME i # j PROVE FALSE
    OBVIOUS
  <1>8. \/ PageUp(MemEnd(Segs[i])) <= PageDown(Segs[j].vaddr)
        \/ PageUp(MemEnd(Segs[j])) <= PageDown(Segs[i].vaddr)
    BY <1>2, <1>7 DEF PagesApart
  <1>9. QED
    BY <1>5, <1>6, <1>8

\* And have one protection, before and after the split: RELRO seals whole pages.
LEMMA OneProtEach ==
    ASSUME LoadInv, stage # "kernel", PagesApart,
           NEW m \in mappings, NEW n \in mappings, NEW a \in Nat, NEW b \in Nat,
           In(m, a), In(n, b), PageDown(a) = PageDown(b)
    PROVE  m.prot = n.prot /\ m.segment = n.segment
  <1>1. /\ object \in Object /\ mappings \in SUBSET Mapping /\ MappedAsPlanned(mappings)
        /\ mappings = Planned \/ mappings = Final
    BY LoadedMemory DEF LoadInv, TypeOK, MappingsInv
  <1>2. m.segment = n.segment
    BY <1>1, OneSegmentEach
  <1>3. CASE mappings = Planned
    BY <1>1, <1>2, <1>3, PlannedFacts
  <1>4. CASE mappings = Final
    <2>1. Sealed(a) <=> Sealed(b)
      BY DEF Sealed
    <2>2. QED
      BY <1>1, <1>2, <1>4, <2>1, FinalIsSealed
  <1>5. QED
    BY <1>1, <1>2, <1>3, <1>4

\* A mapped address is in one mapping.
LEMMA OneMappingOnly ==
    ASSUME LoadInv, stage # "kernel", PagesApart,
           NEW m \in mappings, NEW n \in mappings, NEW a \in Nat, In(m, a), In(n, a)
    PROVE  n = m
  <1>1. /\ object \in Object /\ mappings \in SUBSET Mapping /\ MappedAsPlanned(mappings)
        /\ ClaimsMoreFile = {}
    BY LoadedMemory DEF PagesApart
  <1>2. m.segment = n.segment
    BY OneProtEach
  <1>3. m.segment \in Loads(Segs) /\ a \in Extent(Segs[m.segment])
    BY <1>1, MappedInSegment
  <1>4. PICK q \in mappings : \A o \in mappings : o.segment = m.segment /\ In(o, a) => o = q
    BY <1>1, <1>3 DEF MappedAsPlanned, Segs
  <1>5. QED
    BY <1>2, <1>4

\* prot_at and the vmas of State: what a page-rounded vma says of an address that
\* is mapped, prot_at says too, before and after RELRO is sealed, and there is
\* exactly one such vma - for any layout in which no two segments meet in a page.
THEOREM OneMemoryTwoViews == Spec => []ViewsAgree
  <1>1. LoadInv => ViewsAgree
    <2> SUFFICES ASSUME LoadInv, stage # "kernel", PagesApart,
                        NEW m \in mappings, NEW a \in m.vaddr .. (End(m) - 1)
                 PROVE  LET here == {v \in Vmas(mappings) : Holds(v, a)}
                        IN  /\ Cardinality(here) = 1
                            /\ {v.prot : v \in here} = ProtAt(mappings, a)
      BY DEF ViewsAgree
    <2> DEFINE q == PageDown(a)
               here == {v \in Vmas(mappings) : Holds(v, a)}
    <2>1. Bounded(mappings) /\ mappings \in SUBSET Mapping
      BY LoadedMemory
    <2>2. a \in Nat /\ In(m, a)
      BY <2>1, MappingFields DEF In
    <2>3. IsPage(q) /\ q \in Pages(mappings)
      BY <2>1, <2>2, MappedPage
    <2>4. PICK p \in Pages(mappings) : ~Continues(mappings, p) /\ q \in Run(mappings, p)
      BY <2>1, <2>3, RunExists
    <2> DEFINE v == VmaFrom(mappings, p)
    <2>5. here = {v}
      <3>1. v \in here
        BY <2>1, <2>2, <2>3, <2>4, VmasFacts, HoldsMeansRun
      <3>2. ASSUME NEW w \in here PROVE w = v
        <4>1. PICK o \in Pages(mappings) : ~Continues(mappings, o) /\ w = VmaFrom(mappings, o)
          BY VmasFacts
        <4>2. q \in Run(mappings, o)
          BY <2>1, <2>2, <2>3, <4>1, HoldsMeansRun
        <4>3. QED
          BY <2>1, <2>4, <4>1, <4>2, RunIsTheOnly
      <3>3. QED
        BY <3>1, <3>2
    <2>6. v.prot = m.prot
      <3>1. v.prot = PageAt(mappings, p).prot
        BY DEF VmaFrom
      <3>2. PageAt(mappings, p).prot = PageAt(mappings, q).prot
        BY <2>1, <2>4, RunIsUniform
      <3>3. PICK n \in OnPage(mappings, q) : PageAt(mappings, q).prot = n.prot
        BY <2>1, <2>3, PageAtFacts
      <3>4. PICK b \in Nat : n \in mappings /\ In(n, b) /\ PageDown(b) = q
        BY <2>1, <2>3, <3>3, OnPageFacts
      <3>5. n.prot = m.prot
        BY <2>2, <3>4, OneProtEach
      <3>6. QED
        BY <3>1, <3>2, <3>3, <3>5
    <2>7. ProtAt(mappings, a) = {m.prot}
      <3>1. \A n \in mappings : In(n, a) => n = m
        BY <2>2, OneMappingOnly
      <3>2. m.prot \in ProtAt(mappings, a)
        BY <2>1, <2>2, <3>1, ProtOfTheOnly
      <3>3. QED
        BY <3>1, <3>2 DEF ProtAt
    <2> HIDE DEF v
    <2>8. Cardinality(here) = 1
      BY <2>5, FS_Singleton
    <2>9. {w.prot : w \in here} = ProtAt(mappings, a)
      BY <2>5, <2>6, <2>7
    <2>10. QED
      BY <2>8, <2>9
  <1>2. QED
    BY <1>1, InitLoadInv, NextLoadInv, PTL DEF Spec


\* State::vmas and MemImage::vmas: before the loader touches them, the page-rounded
\* vmas of the timeline cover the pages the headers claim, with the protection, for
\* the segment and from the place in the file that the headers say.
THEOREM HeadersSayWhatIsMapped == Spec => []KernelVmasAgree
  <1>1. LoadInv => KernelVmasAgree
    <2> SUFFICES ASSUME LoadInv, stage = "relocate", PagesApart, HaveMemory
                 PROVE  /\ Pages(mappings) =
                             UNION {{p \in h.start .. (h.end - 1) : p % Page = 0} : h \in Headers}
                        /\ \A h \in Headers, v \in Vmas(mappings) :
                              v.start < h.end /\ h.start < v.end =>
                                 /\ v.prot = h.prot /\ v.segment = h.segment
                                 /\ v.offset # Anonymous => v.offset - v.start = h.offset - h.start
      BY DEF KernelVmasAgree
    <2>1. /\ object \in Object /\ mappings \in SUBSET Mapping /\ stage # "kernel"
          /\ MappedAsPlanned(mappings) /\ Bounded(mappings) /\ mappings = Planned
          /\ ClaimsMoreFile = {}
      BY LoadedMemory DEF LoadInv, MappingsInv, PagesApart
    <2> DEFINE H(i) == KernelVma(Segs[i], i)
    <2>2. Headers = {H(i) : i \in Loads(Segs)}
      BY DEF Headers, Segs
    <2>3. ASSUME NEW i \in Loads(Segs)
          PROVE  /\ i \in DOMAIN Segs /\ Segs[i].vaddr \in Nat /\ MemEnd(Segs[i]) \in Nat
                 /\ Segs[i].vaddr < MemEnd(Segs[i]) /\ Segs[i].offset \in Nat
                 /\ H(i).start = PageDown(Segs[i].vaddr) /\ H(i).end = PageUp(MemEnd(Segs[i]))
                 /\ H(i).prot = Segs[i].prot /\ H(i).segment = i
                 /\ H(i).offset = PageDown(Segs[i].offset)
                 /\ IsPage(H(i).start) /\ H(i).start \in Nat /\ H(i).end \in Nat
                 /\ H(i).start < H(i).end
                 /\ \A q : IsPage(q) =>
                       (H(i).start <= q /\ q < H(i).end <=>
                          \E a \in Nat : /\ Segs[i].vaddr <= a /\ a < MemEnd(Segs[i])
                                        /\ PageDown(a) = q)
      <3>1. /\ i \in DOMAIN Segs /\ Segs[i].vaddr \in Nat /\ Segs[i].memsz \in Nat
            /\ Segs[i].offset \in Nat /\ Segs[i].memsz > 0
        BY <2>1, SegmentFields DEF Loads, Segs, HaveMemory
      <3>2. MemEnd(Segs[i]) \in Nat /\ Segs[i].vaddr < MemEnd(Segs[i])
            /\ MemEnd(Segs[i]) + Page - 1 \in Nat
        BY <3>1, PageAssumption DEF MemEnd
      <3>3. /\ H(i).start = PageDown(Segs[i].vaddr) /\ H(i).end = PageUp(MemEnd(Segs[i]))
            /\ H(i).prot = Segs[i].prot /\ H(i).segment = i
            /\ H(i).offset = PageDown(Segs[i].offset)
        BY DEF KernelVma, MemEnd
      <3> HIDE DEF H
      <3>4. IsPage(H(i).start) /\ H(i).start \in Nat /\ H(i).end \in Nat
        BY <3>1, <3>2, <3>3, PageDownIsPage, PageDownFacts DEF PageUp
      <3>5. ASSUME NEW q, IsPage(q)
            PROVE  H(i).start <= q /\ q < H(i).end <=>
                      \E a \in Nat : /\ Segs[i].vaddr <= a /\ a < MemEnd(Segs[i])
                                    /\ PageDown(a) = q
        <4>1. PageDown(Segs[i].vaddr) <= q /\ q < PageUp(MemEnd(Segs[i])) <=>
                 \E a \in Nat : Segs[i].vaddr <= a /\ a < MemEnd(Segs[i]) /\ PageDown(a) = q
          BY <3>1, <3>2, <3>5, PageMeetsRange
        <4>2. QED
          BY <3>3, <4>1
      <3>6. H(i).start < H(i).end
        BY <3>1, <3>2, <3>3, <3>4, <3>5
      <3>7. QED
        BY <3>1, <3>2, <3>3, <3>4, <3>5, <3>6
    <2> HIDE DEF H
    <2>4. ASSUME NEW i \in Loads(Segs), NEW q, IsPage(q), H(i).start <= q, q < H(i).end
          PROVE  \E a \in Nat : \E m \in mappings : In(m, a) /\ PageDown(a) = q /\ m.segment = i
      <3>1. PICK a \in Nat : Segs[i].vaddr <= a /\ a < MemEnd(Segs[i]) /\ PageDown(a) = q
        BY <2>3, <2>4
      <3>2. a \in Extent(Segs[i])
        <4>1. Segs[i].filesz \in Nat /\ Segs[i].memsz \in Nat
          BY <2>1, SegmentFields DEF Loads, Segs
        <4>2. a < Segs[i].vaddr + Higher(Segs[i].filesz, Segs[i].memsz)
          BY <2>3, <3>1, <4>1 DEF Higher, MemEnd
        <4>3. Higher(Segs[i].filesz, Segs[i].memsz) \in Nat
          BY <4>1 DEF Higher
        <4>4. QED
          BY <2>3, <3>1, <4>2, <4>3 DEF Extent
      <3>3. PICK m \in mappings : m.segment = i /\ In(m, a)
        BY <2>1, <3>2 DEF MappedAsPlanned, Segs
      <3>4. QED
        BY <3>1, <3>3
    <2>5. Pages(mappings) = UNION {{p \in h.start .. (h.end - 1) : p % Page = 0} : h \in Headers}
      <3>1. ASSUME NEW q \in Pages(mappings)
            PROVE  \E h \in Headers : q \in h.start .. (h.end - 1) /\ q % Page = 0
        <4>1. IsPage(q) /\ q \in Nat /\ OnPage(mappings, q) # {} /\ q % Page = 0
          BY <2>1, PagesFacts, PageIsItsOwn DEF IsPage
        <4>2. PICK m \in mappings, a \in Nat : In(m, a) /\ PageDown(a) = q
          BY <2>1, <4>1, OnPageFacts
        <4>3. PICK i \in Loads(Segs) : Segs[i].vaddr <= a /\ a < MemEnd(Segs[i])
          BY <2>1, <4>2, MappedInSegment
        <4>4. H(i).start <= q /\ q < H(i).end
          BY <2>3, <4>1, <4>2, <4>3
        <4>5. q \in H(i).start .. (H(i).end - 1)
          BY <2>3, <4>1, <4>4
        <4>6. QED
          BY <2>2, <4>1, <4>5
      <3>2. ASSUME NEW h \in Headers, NEW q \in h.start .. (h.end - 1), q % Page = 0
            PROVE  q \in Pages(mappings)
        <4>1. PICK i \in Loads(Segs) : h = H(i)
          BY <2>2
        <4>2. q \in Nat /\ H(i).start <= q /\ q < H(i).end /\ IsPage(q)
          BY <2>3, <3>2, <4>1, AlignedIsPage
        <4>3. PICK a \in Nat, m \in mappings : In(m, a) /\ PageDown(a) = q
          BY <2>4, <4>2
        <4>4. QED
          BY <2>1, <4>3, MappedPage
      <3>3. QED
        BY <3>1, <3>2
    <2>6. ASSUME NEW h \in Headers, NEW v \in Vmas(mappings), v.start < h.end, h.start < v.end
          PROVE  /\ v.prot = h.prot /\ v.segment = h.segment
                 /\ v.offset # Anonymous => v.offset - v.start = h.offset - h.start
      <3>1. PICK i \in Loads(Segs) : h = H(i)
        BY <2>2
      <3>2. PICK p \in Pages(mappings) : v = VmaFrom(mappings, p)
        BY VmasFacts
      <3>3. /\ IsPage(p) /\ p \in Nat /\ v.start = p /\ v.end = RunEnd(mappings, p)
            /\ v.prot = PageAt(mappings, p).prot /\ v.segment = PageAt(mappings, p).segment
            /\ v.offset = PageAt(mappings, p).offset
            /\ v.end \in Nat /\ p < v.end
        BY <2>1, <3>2, PagesFacts, RunEndFacts DEF VmaFrom, IsPage
      \* A page they have in common.
      <3>4. PICK q \in Pages(mappings) : q \in Run(mappings, p) /\ h.start <= q /\ q < h.end
        <4>1. CASE h.start <= p
          <5>1. p \in Run(mappings, p)
            BY <2>1, <3>3, RunEndFacts
          <5>2. QED
            BY <2>6, <3>3, <4>1, <5>1
        <4>2. CASE p < h.start
          <5>1. IsPage(h.start) /\ h.start \in Nat /\ h.start < h.end
            BY <2>3, <3>1
          <5>2. PICK a \in Nat, m \in mappings : In(m, a) /\ PageDown(a) = h.start
            BY <2>4, <3>1, <5>1
          <5>3. h.start \in Pages(mappings)
            BY <2>1, <5>2, MappedPage
          <5>4. h.start \in Run(mappings, p)
            <6>1. h.start \in Run(mappings, p) <=>
                     p <= h.start /\ h.start < RunEnd(mappings, p)
              BY <2>1, <5>3, RunEndFacts
            <6>2. p <= h.start
              BY <3>3, <4>2, <5>1
            <6>3. QED
              BY <2>6, <3>3, <6>1, <6>2
          <5>5. QED
            BY <5>1, <5>3, <5>4
        <4>3. QED
          <5>1. h.start \in Nat
            BY <2>3, <3>1
          <5>2. QED
            BY <3>3, <4>1, <4>2, <5>1
      <3>5. IsPage(q) /\ q \in Nat
        BY <2>1, PagesFacts DEF IsPage
      <3>6. PICK a \in Nat, m \in mappings : In(m, a) /\ PageDown(a) = q /\ m.segment = i
        BY <2>4, <3>1, <3>4, <3>5
      <3>7. ASSUME NEW n \in OnPage(mappings, q)
            PROVE  n \in mappings /\ n.segment = i /\ n.prot = Segs[i].prot
        <4>1. PICK b \in Nat : n \in mappings /\ In(n, b) /\ PageDown(b) = q
          BY <2>1, <3>5, OnPageFacts
        <4>2. n.segment = i
          BY <2>1, <3>6, <4>1, OneProtEach
        <4>3. QED
          BY <2>1, <4>1, <4>2, PlannedFacts DEF Segs
      <3>8. v.prot = h.prot /\ v.segment = h.segment
        <4>1. PageAt(mappings, q).prot = Segs[i].prot /\ PageAt(mappings, q).segment = i
          BY <2>1, <3>7, PageAtFacts
        <4>2. v.prot = PageAt(mappings, q).prot /\ v.segment = PageAt(mappings, q).segment
          BY <2>1, <3>3, <3>4, RunIsUniform
        <4>3. QED
          BY <2>3, <3>1, <4>1, <4>2
      <3>9. ASSUME v.offset # Anonymous
            PROVE  v.offset - v.start = h.offset - h.start
        <4>1. PageAt(mappings, q).offset = v.offset + (q - p)
          <5>1. FollowsIn(mappings, p, q)
            BY <2>1, <3>4, RunIsUniform
          <5>2. QED
            BY <3>3, <3>9, <5>1 DEF FollowsIn
        <4>2. v.offset \in Nat /\ p <= q
          BY <2>1, <3>3, <3>4, <3>9, PageAtFacts DEF Run
        <4>3. PageAt(mappings, q).offset # Anonymous
          <5>1. v.offset + (q - p) >= 0
            BY <3>3, <3>5, <4>2
          <5>2. QED
            BY <4>1, <5>1 DEF Anonymous
        <4>4. PICK n \in FileMappings(mappings, q) :
                 PageAt(mappings, q).offset = PageDown(n.offset) + (q - PageDown(n.vaddr))
          BY <2>1, <4>3, PageAtFacts
        <4>5. n \in Planned /\ n.segment = i /\ n.source = "file"
          BY <2>1, <3>7, <4>4 DEF FileMappings
        <4>6. n.vaddr = Segs[i].vaddr /\ n.offset = Segs[i].offset
          BY <2>1, <4>5, PlannedFacts DEF IsFilePart, IsZeroPart, Segs
        <4>7. PageAt(mappings, q).offset = h.offset + (q - h.start)
          BY <2>3, <3>1, <4>4, <4>6
        <4>8. h.offset \in Nat /\ h.start \in Nat
          BY <2>3, <3>1, PageDownFacts
        <4>9. QED
          BY <3>3, <3>5, <4>1, <4>2, <4>7, <4>8
      <3>10. QED
        BY <3>8, <3>9
    <2>7. QED
      BY <2>5, <2>6
  <1>2. QED
    BY <1>1, InitLoadInv, NextLoadInv, PTL DEF Spec


\* Moving addresses by a whole number of pages moves their pages.
LEMMA PagesMove ==
    ASSUME NEW x \in Nat, NEW y \in Nat, x % Page = y % Page, NEW n \in Nat, PageDown(x) <= n
    PROVE  /\ y - x = PageDown(y) - PageDown(x)
           /\ n + (y - x) \in Nat
           /\ PageDown(n + (y - x)) = PageDown(n) + (y - x)
  <1>1. /\ Page \in Nat \ {0} /\ PageDown(x) \in Nat /\ PageDown(y) \in Nat /\ PageDown(n) \in Nat
        /\ PageDown(n) <= n /\ n < PageDown(n) + Page
    BY PageDownFacts
  <1>2. y - x = PageDown(y) - PageDown(x)
    <2>1. PICK r \in Nat : r = x % Page /\ r = y % Page
      BY <1>1
    <2>2. PageDown(x) = x - r /\ PageDown(y) = y - r
      BY <2>1 DEF PageDown
    <2>3. QED
      BY <2>1, <2>2
  <1>3. PageDown(x) <= PageDown(n)
    BY PageBounds
  <1>4. PICK j \in Nat, k \in Nat, l \in Nat :
           PageDown(n) = Page * j /\ PageDown(x) = Page * k /\ PageDown(y) = Page * l
    BY PageDownFacts
  <1>5. j >= k
    <2>1. j < k => Page * j < Page * k
      <3> SUFFICES ASSUME j < k PROVE Page * j < Page * k
        OBVIOUS
      <3>1. PICK d \in Nat : k = j + 1 + d
        BY <1>4
      <3>2. Page * d \in Nat /\ Page * j \in Nat /\ Page * k = Page * j + Page + Page * d
        BY <1>1, <1>4, <3>1
      <3>3. QED
        BY <1>1, <3>2
    <2>2. QED
      BY <1>1, <1>3, <1>4, <2>1
  <1>6. PageDown(n) + (y - x) \in Nat /\ IsPage(PageDown(n) + (y - x))
    <2>1. l + (j - k) \in Nat
      BY <1>5
    <2>2. PageDown(n) + (y - x) = Page * (l + (j - k))
      BY <1>1, <1>2, <1>4
    <2>3. PageDown(n) + (y - x) \in Nat
      BY <1>1, <1>2, <1>3
    <2>4. QED
      BY <2>1, <2>2, <2>3 DEF IsPage
  <1>7. n + (y - x) \in Nat
    BY <1>1, <1>6
  <1>8. PageDown(n + (y - x)) = PageDown(n) + (y - x)
    BY <1>1, <1>6, <1>7, PageIsDown
  <1>9. QED
    BY <1>2, <1>7, <1>8

\* What a mapping of the file shows where it starts, it shows everywhere.
LEMMA FileMappingShows ==
    ASSUME object \in Object, ClaimsMoreFile = {}, NEW M \in SUBSET Mapping, MappedAsPlanned(M),
           NEW m \in M, m.source = "file"
    PROVE  LET s == Segs[m.segment] IN m.offset - m.vaddr = s.offset - s.vaddr
  <1> DEFINE s == Segs[m.segment]
             a == m.vaddr
  <1>1. m.vaddr \in Nat /\ m.offset \in Nat /\ In(m, a)
    BY MappingFields DEF In
  <1>2. m.segment \in Loads(Segs) /\ m.segment \in DOMAIN Segs /\ a \in Extent(s)
    BY <1>1, MappedInSegment
  <1>3. s.vaddr \in Nat /\ s.offset \in Nat /\ s.filesz \in Nat
    BY <1>2, SegmentFields DEF Segs
  <1>4. PICK q \in M : /\ q.segment = m.segment /\ In(q, a) /\ ShowsRightByte(q, s, a)
                       /\ \A n \in M : n.segment = m.segment /\ In(n, a) => n = q
    BY <1>2 DEF MappedAsPlanned, Segs
  <1>5. ShowsRightByte(m, s, a)
    BY <1>1, <1>4
  <1>6. m.offset + (a - m.vaddr) = s.offset + (a - s.vaddr)
    BY <1>5 DEF ShowsRightByte
  <1>7. QED
    BY <1>1, <1>3, <1>6

\* vaddr_of, for the resident that has the byte: the byte's address lies on a page
\* on which the segment has bytes of the file.
LEMMA AddressFacts ==
    ASSUME object \in Object, HaveFileBytes, NotCongruent = {}, ClaimsMoreFile = {},
           NEW off \in 0 .. (object.fileLen - 1), NEW va \in VaddrOf(R, off)
    PROVE  \E i \in Loads(Segs) :
              LET s == Segs[i]
              IN  /\ va \in Nat /\ va = off + (s.vaddr - s.offset)
                  /\ s.offset % Page = s.vaddr % Page
                  /\ \E b \in Nat : /\ s.vaddr <= b /\ b < s.vaddr + s.filesz
                                    /\ PageDown(b) = PageDown(va)
  <1>1. PICK r \in R : /\ va = r.vaddr + (off - r.start)
                       /\ \/ r.exactStart <= off /\ off < r.exactEnd
                          \/ r.start <= off /\ off < r.end
    BY DEF VaddrOf, FirstOf
  <1>2. PICK i \in Loads(Segs) : r = Resident(Segs[i], object.fileLen, i)
    BY DEF R, Residents, Segs
  <1> DEFINE s == Segs[i]
             exact == s.offset + s.filesz
  <1>3. /\ i \in DOMAIN Segs /\ s.vaddr \in Nat /\ s.offset \in Nat /\ s.filesz \in Nat
        /\ s.memsz \in Nat /\ s.filesz > 0 /\ s.filesz <= s.memsz
        /\ s.offset % Page = s.vaddr % Page
    <2>1. i \in DOMAIN Segs
      BY DEF Loads
    <2>2. s.vaddr \in Nat /\ s.offset \in Nat /\ s.filesz \in Nat /\ s.memsz \in Nat
      BY <2>1, SegmentFields DEF Segs
    <2>3. s.filesz > 0
      BY DEF HaveFileBytes, Segs
    <2>4. ~(s.filesz > s.memsz) /\ s.offset % Page = s.vaddr % Page
      BY <2>3 DEF ClaimsMoreFile, NotCongruent
    <2>5. QED
      BY <2>1, <2>2, <2>3, <2>4
  <1>4. /\ r.start = PageDown(s.offset) /\ r.exactStart = s.offset /\ r.exactEnd = exact
        /\ r.end = ResidentEnd(s, object.fileLen)
        /\ r.vaddr = Minus(s.vaddr, s.offset % Page)
    BY <1>2 DEF Resident
  <1> HIDE DEF s
  <1>5. /\ PageDown(s.offset) \in Nat /\ PageDown(s.offset) <= s.offset
        /\ PageDown(s.vaddr) \in Nat /\ PageDown(s.vaddr) <= s.vaddr
        /\ s.vaddr - s.offset = PageDown(s.vaddr) - PageDown(s.offset)
    BY <1>3, PageDownFacts, PagesMove
  <1>6. r.vaddr = PageDown(s.vaddr)
    <2>1. PICK k \in Nat : k = s.vaddr % Page
      BY <1>3, PageAssumption
    <2>2. PageDown(s.vaddr) = s.vaddr - k /\ r.vaddr = Minus(s.vaddr, k)
      BY <1>3, <1>4, <2>1 DEF PageDown
    <2>3. QED
      BY <1>3, <1>5, <2>1, <2>2 DEF Minus
  <1>7. off \in Nat /\ exact \in Nat /\ exact > 0
    BY <1>3
  <1>8. va = off + (s.vaddr - s.offset)
    BY <1>1, <1>3, <1>4, <1>5, <1>6, <1>7
  <1>9. PageDown(s.offset) <= off
    BY <1>1, <1>3, <1>4, <1>5, <1>7
  <1>10. va \in Nat /\ PageDown(va) = PageDown(off) + (s.vaddr - s.offset)
    BY <1>3, <1>7, <1>8, <1>9, PagesMove
  \* The byte itself, or the nearest one of the file that the segment has.
  <1>11. PICK c \in Nat : s.offset <= c /\ c < exact /\ PageDown(c) = PageDown(off)
    <2>1. CASE off < s.offset
      <3>1. off < PageDown(s.offset) + Page
        <4>1. s.offset < PageDown(s.offset) + Page /\ Page \in Nat
          BY <1>3, PageDownFacts
        <4>2. QED
          BY <1>3, <1>5, <1>7, <2>1, <4>1
      <3>2. PageDown(off) = PageDown(s.offset)
        BY <1>3, <1>7, <1>9, <3>1, PageDownIsPage, PageIsDown
      <3>3. QED
        BY <1>3, <3>2
    <2>2. CASE s.offset <= off /\ off < exact
      BY <1>7, <2>2
    <2>3. CASE exact <= off
      <3>1. off < ResidentEnd(s, object.fileLen)
        BY <1>1, <1>3, <1>4, <1>7, <2>3
      <3>2. off < PageUp(exact)
        <4>1. object.fileLen \in Nat /\ exact + Page - 1 \in Nat
          BY <1>7, PageAssumption DEF Object
        <4>2. PageUp(exact) \in Nat
          BY <4>1, PageDownFacts DEF PageUp
        <4> HIDE DEF exact
        <4>3. off < (IF s.memsz > s.filesz THEN exact ELSE PageUp(exact))
          <5>1. ResidentEnd(s, object.fileLen) =
                   Lower(IF s.memsz > s.filesz THEN exact ELSE PageUp(exact), object.fileLen)
            BY DEF ResidentEnd, exact
          <5>2. QED
            BY <1>7, <3>1, <4>1, <4>2, <5>1 DEF Lower
        <4>4. QED
          BY <1>7, <2>3, <4>3
      <3>3. PageDown(off) <= exact - 1
        <4>1. exact + Page - 1 \in Nat /\ Page \in Nat \ {0} /\ PageDown(off) \in Nat
          <5> HIDE DEF exact
          <5>1. QED
            BY <1>7, PageAssumption, PageDownFacts
        <4>2. PageDown(off) + Page <= exact + Page - 1
          BY <1>7, <3>2, <4>1, PageBounds DEF PageUp
        <4> HIDE DEF exact
        <4>3. QED
          BY <1>7, <4>1, <4>2
      <3>4. exact - 1 \in Nat /\ exact - 1 < PageDown(off) + Page
        <4>1. off < PageDown(off) + Page /\ PageDown(off) \in Nat /\ Page \in Nat
          BY <1>7, PageDownFacts
        <4> HIDE DEF exact
        <4>2. QED
          BY <1>7, <2>3, <4>1
      <3>5. PageDown(exact - 1) = PageDown(off)
        BY <1>7, <3>3, <3>4, PageDownIsPage, PageIsDown
      <3>6. QED
        BY <1>3, <3>4, <3>5
    <2>4. QED
      BY <1>3, <1>7, <2>1, <2>2, <2>3
  <1> DEFINE b == c + (s.vaddr - s.offset)
  <1>12. PageDown(s.offset) <= c
    BY <1>3, <1>5, <1>11
  <1>13. b \in Nat /\ PageDown(b) = PageDown(c) + (s.vaddr - s.offset)
    BY <1>3, <1>12, PagesMove
  <1>14. PageDown(b) = PageDown(va)
    BY <1>10, <1>11, <1>13
  <1>15. s.vaddr <= b /\ b < s.vaddr + s.filesz
    BY <1>3, <1>11
  <1>16. QED
    BY <1>3, <1>8, <1>10, <1>13, <1>14, <1>15 DEF s

\* vaddr_of and State::vmas: the address given for a byte of the file lies in a
\* vma that shows the very byte, padding on a segment's first and last page and
\* the pages that RELRO cuts off included.
THEOREM AddressesShowTheirBytes == Spec => []AddressesTranslate
  <1>1. LoadInv => AddressesTranslate
    <2> SUFFICES ASSUME LoadInv, stage # "kernel", HaveFileBytes, PagesApart, NotCongruent = {},
                        NEW off \in 0 .. (object.fileLen - 1), NEW va \in VaddrOf(R, off)
                 PROVE  \E v \in Vmas(mappings) : Holds(v, va) /\ v.offset + (va - v.start) = off
      BY DEF AddressesTranslate
    <2> DEFINE q == PageDown(va)
    <2>1. /\ object \in Object /\ mappings \in SUBSET Mapping
          /\ MappedAsPlanned(mappings) /\ Bounded(mappings) /\ ClaimsMoreFile = {}
      BY LoadedMemory DEF PagesApart
    <2>2. PICK i \in Loads(Segs), b \in Nat :
             /\ va \in Nat /\ va = off + (Segs[i].vaddr - Segs[i].offset)
             /\ Segs[i].offset % Page = Segs[i].vaddr % Page
             /\ Segs[i].vaddr <= b /\ b < Segs[i].vaddr + Segs[i].filesz /\ PageDown(b) = q
      BY <2>1, AddressFacts
    <2>3. /\ Segs[i].vaddr \in Nat /\ Segs[i].offset \in Nat
          /\ Segs[i].filesz \in Nat /\ Segs[i].memsz \in Nat
      BY <2>1, SegmentFields DEF Loads, Segs
    <2>4. PICK m \in mappings : m.segment = i /\ In(m, b) /\ m.source = "file"
      <3>1. b \in Extent(Segs[i])
        BY <2>2, <2>3 DEF Extent, Higher
      <3>2. PICK m \in mappings : m.segment = i /\ In(m, b) /\ ShowsRightByte(m, Segs[i], b)
        BY <2>1, <3>1 DEF MappedAsPlanned, Segs
      <3>3. QED
        BY <2>2, <3>2 DEF ShowsRightByte
    <2>5. IsPage(q) /\ q \in Nat /\ q \in Pages(mappings) /\ m \in FileMappings(mappings, q)
      <3>1. /\ IsPage(PageDown(b)) /\ PageDown(b) \in Pages(mappings)
            /\ m \in OnPage(mappings, PageDown(b))
        BY <2>1, <2>4, MappedPage
      <3>2. IsPage(q) /\ q \in Pages(mappings) /\ m \in OnPage(mappings, q)
        BY <2>2, <3>1
      <3>3. QED
        BY <2>4, <3>2 DEF IsPage, FileMappings
    <2>6. PageAt(mappings, q).offset = q + (Segs[i].offset - Segs[i].vaddr)
          /\ PageAt(mappings, q).offset \in Nat
      <3>1. PICK n \in FileMappings(mappings, q) :
               /\ PageAt(mappings, q).offset = PageDown(n.offset) + (q - PageDown(n.vaddr))
               /\ PageAt(mappings, q).offset \in Nat
        BY <2>1, <2>5, PageAtFacts
      <3>2. PICK c \in Nat : n \in mappings /\ n.source = "file" /\ In(n, c) /\ PageDown(c) = q
        BY <2>1, <2>5, OnPageFacts DEF FileMappings
      <3>3. n.segment = i
        BY <2>2, <2>4, <3>2, OneProtEach
      <3>4. n.offset - n.vaddr = Segs[i].offset - Segs[i].vaddr
        BY <2>1, <3>2, <3>3, FileMappingShows
      <3>5. n.vaddr \in Nat /\ n.offset \in Nat
        BY <2>1, <3>2, MappingFields
      <3>6. PageDown(n.offset) - PageDown(n.vaddr) = n.offset - n.vaddr
        <4> DEFINE x == Segs[i].vaddr
                   y == Segs[i].offset
                   down == PageDown(x)
        <4>1. CASE down <= n.vaddr
          <5>1. PageDown(n.vaddr + (y - x)) = PageDown(n.vaddr) + (y - x)
            BY <2>2, <2>3, <3>5, <4>1, PagesMove
          <5>2. n.vaddr + (y - x) = n.offset
            BY <2>3, <3>4, <3>5
          <5>3. PageDown(n.vaddr) \in Nat
            BY <3>5, PageDownFacts
          <5>4. QED
            BY <2>3, <3>4, <3>5, <5>1, <5>2, <5>3
        <4>2. down <= x /\ x <= n.vaddr /\ down \in Nat
          <5>1. In(n, n.vaddr)
            BY <2>1, <3>2, MappingFields DEF In
          <5>2. x <= n.vaddr
            BY <2>1, <3>2, <3>3, <3>5, <5>1, MappedInSegment
          <5>3. QED
            BY <2>3, <5>2, PageDownFacts
        <4>3. QED
          BY <2>3, <3>5, <4>1, <4>2
      <3>7. PageDown(n.offset) \in Nat /\ PageDown(n.vaddr) \in Nat
        BY <3>5, PageDownFacts
      <3>8. QED
        BY <2>3, <2>5, <3>1, <3>4, <3>5, <3>6, <3>7
    <2>7. PICK p \in Pages(mappings) : ~Continues(mappings, p) /\ q \in Run(mappings, p)
      BY <2>1, <2>5, RunExists
    <2> DEFINE v == VmaFrom(mappings, p)
    <2>8. v \in Vmas(mappings) /\ Holds(v, va)
      BY <2>1, <2>2, <2>5, <2>7, VmasFacts, HoldsMeansRun
    <2>9. v.start = p /\ v.offset = PageAt(mappings, p).offset
      BY DEF VmaFrom
    <2>10. p \in Nat /\ FollowsIn(mappings, p, q)
      BY <2>1, <2>7, PagesAreBounded, RunIsUniform
    <2>11. PageAt(mappings, p).offset \in Nat /\
           PageAt(mappings, q).offset = PageAt(mappings, p).offset + (q - p)
      <3>1. PageAt(mappings, p).offset # Anonymous
        BY <2>6, <2>10 DEF FollowsIn, Anonymous
      <3>2. QED
        BY <2>1, <2>7, <2>10, <3>1, PageAtFacts DEF FollowsIn
    <2> HIDE DEF v
    <2>12. v.offset + (va - v.start) = off
      BY <2>2, <2>3, <2>5, <2>6, <2>9, <2>10, <2>11
    <2>13. QED
      BY <2>8, <2>12
  <1>2. QED
    BY <1>1, InitLoadInv, NextLoadInv, PTL DEF Spec

-----------------------------------------------------------------------------
(* The list of steps.  What matters of it is the effects that it tells of,  *)
(* in order: what else it has are steps without effect.                     *)

\* The order of the code's lists, as pairs.
KeyOrder == {p \in Mapping \X Mapping : KeyLeq(p[1], p[2])}
NatOrder == {p \in Nat \X Nat : p[1] <= p[2]}

\* Ordered puts mappings in the order of their keys ...
LEMMA MappingsInOrder ==
    ASSUME NEW S \in SUBSET Mapping, IsFiniteSet(S)
    PROVE  ListOf(Ordered(S, KeyLeq), S) /\ InOrder(Ordered(S, KeyLeq), KeyOrder)
  <1> DEFINE next(g, T) == IF T = {} THEN <<>>
                           ELSE LET x == CHOOSE y \in T : \A z \in T : KeyLeq(y, z)
                                IN  <<x>> \o g[T \ {x}]
             iter == CHOOSE g : g = [T \in SUBSET S |-> next(g, T)]
             first(T) == CHOOSE y \in T : \A z \in T : KeyLeq(y, z)
  <1>1. Ordered(S, KeyLeq) = iter[S]
    BY Zenon DEF Ordered
  <1>2. IsOrder(KeyOrder, S)
    <2>1. \A x \in Mapping : x.vaddr \in Nat /\ x.len \in Nat
      BY MappingFields
    <2>2. \A x, y \in S : KeyLeq(x, y) \/ KeyLeq(y, x)
      BY <2>1 DEF KeyLeq
    <2>3. \A x, y, z \in S : KeyLeq(x, y) /\ KeyLeq(y, z) => KeyLeq(x, z)
      <3> SUFFICES ASSUME NEW x \in S, NEW y \in S, NEW z \in S, KeyLeq(x, y), KeyLeq(y, z)
                   PROVE  KeyLeq(x, z)
        OBVIOUS
      <3>1. /\ x.vaddr \in Nat /\ x.len \in Nat /\ y.vaddr \in Nat /\ y.len \in Nat
            /\ z.vaddr \in Nat /\ z.len \in Nat
        BY <2>1
      <3>2. QED
        BY <3>1 DEF KeyLeq
    <2>4. QED
      BY <2>2, <2>3 DEF IsOrder, KeyOrder
  <1>3. ASSUME NEW T \in SUBSET S, T # {}
        PROVE  first(T) \in T /\ \A y \in T : KeyLeq(first(T), y)
    <2>1. IsFiniteSet(T) /\ IsOrder(KeyOrder, T)
      BY <1>2, FS_Subset DEF IsOrder
    <2>2. \E x \in T : \A y \in T : <<x, y>> \in KeyOrder
      BY <1>3, <2>1, FirstExists
    <2>3. \E x \in T : \A y \in T : KeyLeq(x, y)
      BY <2>2 DEF KeyOrder
    <2>4. QED
      BY <2>3
  <1>4. PICK c : c = [T \in SUBSET S |-> first(T)]
    OBVIOUS
  <1>5. \A T \in SUBSET S : c[T] = first(T)
    BY <1>4
  <1>6. \A g : \A T \in SUBSET S : next(g, T) = Listing(c, g, T)
    <2> SUFFICES ASSUME NEW g, NEW T \in SUBSET S
                 PROVE  next(g, T) = Listing(c, g, T)
      OBVIOUS
    <2>1. c[T] = first(T)
      BY <1>5
    <2>2. next(g, T) = IF T = {} THEN <<>> ELSE <<first(T)>> \o g[T \ {first(T)}]
      BY Zenon
    <2> HIDE DEF next, first
    <2>3. QED
      BY <2>1, <2>2 DEF Listing
  <1>7. Chooses(c, S)
    BY <1>3, <1>5 DEF Chooses
  <1>8. \A T \in SUBSET S : \A y \in T : <<c[T], y>> \in KeyOrder
    BY <1>3, <1>5 DEF KeyOrder
  <1> HIDE DEF next, first
  <1>9. PICK g : IsListing(g, c, S)
    BY <1>7, ListingExists
  <1>10. g = [T \in SUBSET S |-> next(g, T)]
    BY <1>6, <1>9 DEF IsListing
  <1>11. iter = [T \in SUBSET S |-> next(iter, T)]
    BY <1>10, Zenon
  <1> HIDE DEF iter
  <1>12. IsListing(iter, c, S)
    BY <1>6, <1>11 DEF IsListing
  <1>13. ListOf(iter[S], S) /\ InOrder(iter[S], KeyOrder)
    BY <1>7, <1>8, <1>12, SortFacts
  <1>14. QED
    BY <1>1, <1>13

\* ... and numbers in order.
LEMMA NumbersInOrder ==
    ASSUME NEW S \in SUBSET Nat, IsFiniteSet(S)
    PROVE  ListOf(Ordered(S, NatLeq), S) /\ InOrder(Ordered(S, NatLeq), NatOrder)
  <1> DEFINE next(g, T) == IF T = {} THEN <<>>
                           ELSE LET x == CHOOSE y \in T : \A z \in T : NatLeq(y, z)
                                IN  <<x>> \o g[T \ {x}]
             iter == CHOOSE g : g = [T \in SUBSET S |-> next(g, T)]
             first(T) == CHOOSE y \in T : \A z \in T : NatLeq(y, z)
  <1>1. Ordered(S, NatLeq) = iter[S]
    BY Zenon DEF Ordered
  <1>2. ASSUME NEW T \in SUBSET S, T # {}
        PROVE  first(T) \in T /\ \A y \in T : NatLeq(first(T), y)
    <2>1. \E x \in T : \A y \in T : NatLeq(x, y)
      BY <1>2, LeastOf DEF NatLeq
    <2>2. QED
      BY <2>1
  <1>3. PICK c : c = [T \in SUBSET S |-> first(T)]
    OBVIOUS
  <1>4. \A T \in SUBSET S : c[T] = first(T)
    BY <1>3
  <1>5. \A g : \A T \in SUBSET S : next(g, T) = Listing(c, g, T)
    <2> SUFFICES ASSUME NEW g, NEW T \in SUBSET S
                 PROVE  next(g, T) = Listing(c, g, T)
      OBVIOUS
    <2>1. c[T] = first(T)
      BY <1>4
    <2>2. next(g, T) = IF T = {} THEN <<>> ELSE <<first(T)>> \o g[T \ {first(T)}]
      BY Zenon
    <2> HIDE DEF next, first
    <2>3. QED
      BY <2>1, <2>2 DEF Listing
  <1>6. Chooses(c, S)
    BY <1>2, <1>4 DEF Chooses
  <1>7. \A T \in SUBSET S : \A y \in T : <<c[T], y>> \in NatOrder
    <2> TAKE T \in SUBSET S
    <2> TAKE y \in T
    <2>1. c[T] \in Nat /\ NatLeq(c[T], y)
      <3>1. first(T) \in T /\ \A z \in T : NatLeq(first(T), z)
        BY <1>2
      <3> HIDE DEF first
      <3>2. QED
        BY <1>4, <3>1
    <2> HIDE DEF first
    <2>2. QED
      BY <2>1 DEF NatOrder, NatLeq
  <1> HIDE DEF next, first
  <1>8. PICK g : IsListing(g, c, S)
    BY <1>6, ListingExists
  <1>9. g = [T \in SUBSET S |-> next(g, T)]
    BY <1>5, <1>8 DEF IsListing
  <1>10. iter = [T \in SUBSET S |-> next(iter, T)]
    BY <1>9, Zenon
  <1> HIDE DEF iter
  <1>11. IsListing(iter, c, S)
    BY <1>5, <1>10 DEF IsListing
  <1>12. ListOf(iter[S], S) /\ InOrder(iter[S], NatOrder)
    BY <1>6, <1>7, <1>11, SortFacts
  <1>13. QED
    BY <1>1, <1>12

\* The steps Q tell of the effects E: each effect is that of a step, later ones of
\* later steps, and the other steps have none.
Effects == {<<"map", m>> : m \in Planned} \cup {<<"write", k>> : k \in DOMAIN object.relocs}
              \cup (IF HasRelro THEN {<<"protect">>} ELSE {})
Places(Q, E, pos) ==
    /\ pos \in [1 .. Len(E) -> 1 .. Len(Q)]
    /\ \A a, b \in 1 .. Len(E) : a < b => pos[a] < pos[b]
    /\ \A a \in 1 .. Len(E) : Q[pos[a]].effect = E[a]
    /\ \A n \in 1 .. Len(Q) : (\E a \in 1 .. Len(E) : pos[a] = n) \/ Q[n].effect[1] = "none"
Tells(Q, E) ==
    /\ \E X : Q \in Seq(X)
    /\ E \in Seq(Effects)
    /\ \E pos : Places(Q, E, pos)

LEMMA TellsJoin ==
    ASSUME NEW P, NEW D, Tells(P, D), NEW Q, NEW E, Tells(Q, E)
    PROVE  Tells(P \o Q, D \o E)
  <1>1. PICK X, Y : P \in Seq(X) /\ Q \in Seq(Y)
    BY DEF Tells
  <1>2. PICK Z : Z = X \cup Y
    OBVIOUS
  <1>3. P \in Seq(Z) /\ Q \in Seq(Z)
    BY <1>1, <1>2
  <1>4. PICK p, q : Places(P, D, p) /\ Places(Q, E, q)
    BY DEF Tells
  <1>5. PICK m \in Nat, n \in Nat : m = Len(P) /\ n = Len(Q)
    BY <1>1
  <1>6. PICK d \in Nat, e \in Nat : d = Len(D) /\ e = Len(E)
    BY DEF Tells
  <1>7. PICK J, F : J = P \o Q /\ F = D \o E
    OBVIOUS
  <1>8. /\ J \in Seq(Z) /\ Len(J) = m + n
        /\ \A k \in 1 .. m : J[k] = P[k]
        /\ \A k \in 1 .. n : J[m + k] = Q[k]
    BY <1>3, <1>5, <1>7
  <1>9. /\ F \in Seq(Effects) /\ Len(F) = d + e
        /\ \A k \in 1 .. d : F[k] = D[k]
        /\ \A k \in 1 .. e : F[d + k] = E[k]
    BY <1>6, <1>7 DEF Tells
  <1>10. PICK pos : pos = [a \in 1 .. d + e |-> IF a <= d THEN p[a] ELSE m + q[a - d]]
    OBVIOUS
  <1>11. ASSUME NEW a \in 1 .. d + e
         PROVE  \/ a \in 1 .. d /\ pos[a] = p[a] /\ p[a] \in 1 .. m
                \/ \E b \in 1 .. e : a = d + b /\ pos[a] = m + q[b] /\ q[b] \in 1 .. n
    <2>1. CASE a <= d
      <3>1. a \in 1 .. d
        BY <2>1
      <3>2. QED
        BY <1>4, <1>5, <1>6, <1>10, <2>1, <3>1 DEF Places
    <2>2. CASE ~(a <= d)
      <3>1. PICK b \in 1 .. e : a = d + b /\ b = a - d
        <4>1. a - d \in 1 .. e /\ a = d + (a - d)
          BY <2>2
        <4>2. QED
          BY <4>1
      <3>2. q[b] \in 1 .. n
        BY <1>4, <1>5, <1>6 DEF Places
      <3>3. pos[a] = m + q[b]
        BY <1>10, <2>2, <3>1
      <3>4. QED
        BY <3>1, <3>2, <3>3
    <2>3. QED
      BY <2>1, <2>2
  <1>12. pos \in [1 .. d + e -> 1 .. m + n]
    <2>1. \A a \in 1 .. d + e : pos[a] \in 1 .. m + n
      <3> TAKE a \in 1 .. d + e
      <3>1. CASE a \in 1 .. d /\ pos[a] = p[a] /\ p[a] \in 1 .. m
        BY <3>1
      <3>2. CASE \E b \in 1 .. e : a = d + b /\ pos[a] = m + q[b] /\ q[b] \in 1 .. n
        BY <3>2
      <3>3. QED
        BY <1>11, <3>1, <3>2
    <2>2. QED
      BY <1>10, <2>1
  <1>13. ASSUME NEW a \in 1 .. d + e, NEW b \in 1 .. d + e, a < b
         PROVE  pos[a] < pos[b]
    <2>1. \A x, y \in 1 .. d : x < y => p[x] < p[y]
      BY <1>4, <1>6 DEF Places
    <2>2. \A x, y \in 1 .. e : x < y => q[x] < q[y]
      BY <1>4, <1>6 DEF Places
    <2>3. CASE a \in 1 .. d /\ pos[a] = p[a] /\ p[a] \in 1 .. m
      <3>1. CASE b \in 1 .. d /\ pos[b] = p[b]
        BY <1>13, <2>1, <2>3, <3>1
      <3>2. CASE \E y \in 1 .. e : b = d + y /\ pos[b] = m + q[y] /\ q[y] \in 1 .. n
        BY <2>3, <3>2
      <3>3. QED
        BY <1>11, <3>1, <3>2
    <2>4. CASE \E x \in 1 .. e : a = d + x /\ pos[a] = m + q[x] /\ q[x] \in 1 .. n
      <3>1. PICK x \in 1 .. e : a = d + x /\ pos[a] = m + q[x] /\ q[x] \in 1 .. n
        BY <2>4
      <3>2. ~(b \in 1 .. d)
        BY <1>13, <3>1
      <3>3. PICK y \in 1 .. e : b = d + y /\ pos[b] = m + q[y] /\ q[y] \in 1 .. n
        BY <1>11, <3>2
      <3>4. q[x] < q[y]
        BY <1>13, <2>2, <3>1, <3>3
      <3>5. QED
        BY <3>1, <3>3, <3>4
    <2>5. QED
      BY <1>11, <2>3, <2>4
  <1>14. ASSUME NEW a \in 1 .. d + e
         PROVE  J[pos[a]].effect = F[a]
    <2>1. CASE a \in 1 .. d /\ pos[a] = p[a] /\ p[a] \in 1 .. m
      BY <1>4, <1>5, <1>6, <1>8, <1>9, <2>1 DEF Places
    <2>2. CASE \E b \in 1 .. e : a = d + b /\ pos[a] = m + q[b] /\ q[b] \in 1 .. n
      <3>1. PICK b \in 1 .. e : a = d + b /\ pos[a] = m + q[b] /\ q[b] \in 1 .. n
        BY <2>2
      <3>2. J[m + q[b]] = Q[q[b]] /\ F[d + b] = E[b]
        BY <1>8, <1>9, <3>1
      <3>3. Q[q[b]].effect = E[b]
        BY <1>4, <1>6 DEF Places
      <3>4. QED
        BY <3>1, <3>2, <3>3
    <2>3. QED
      BY <1>11, <2>1, <2>2
  <1>15. ASSUME NEW k \in 1 .. m + n
         PROVE  (\E a \in 1 .. d + e : pos[a] = k) \/ J[k].effect[1] = "none"
    <2>1. CASE k <= m
      <3>1. k \in 1 .. m /\ J[k] = P[k]
        BY <1>8, <2>1
      <3>2. CASE \E a \in 1 .. d : p[a] = k
        <4>1. PICK a \in 1 .. d : p[a] = k
          BY <3>2
        <4>2. a \in 1 .. d + e /\ pos[a] = k
          BY <1>10, <4>1
        <4>3. QED
          BY <4>2
      <3>3. CASE P[k].effect[1] = "none"
        BY <3>1, <3>3
      <3>4. QED
        BY <1>4, <1>5, <1>6, <3>1, <3>2, <3>3 DEF Places
    <2>2. CASE ~(k <= m)
      <3>1. PICK j \in 1 .. n : k = m + j /\ J[k] = Q[j]
        <4>1. k - m \in 1 .. n /\ k = m + (k - m)
          BY <2>2
        <4>2. QED
          BY <1>8, <4>1
      <3>2. CASE \E b \in 1 .. e : q[b] = j
        <4>1. PICK b \in 1 .. e : q[b] = j
          BY <3>2
        <4>2. d + b \in 1 .. d + e /\ ~(d + b <= d) /\ (d + b) - d = b
          OBVIOUS
        <4>3. pos[d + b] = m + q[b]
          BY <1>10, <4>2
        <4>4. QED
          BY <3>1, <4>1, <4>2, <4>3
      <3>3. CASE Q[j].effect[1] = "none"
        BY <3>1, <3>3
      <3>4. QED
        BY <1>4, <1>5, <1>6, <3>1, <3>2, <3>3 DEF Places
    <2>3. QED
      BY <2>1, <2>2
  <1>16. Places(J, F, pos)
    BY <1>8, <1>9, <1>12, <1>13, <1>14, <1>15 DEF Places
  <1>17. QED
    BY <1>7, <1>8, <1>9, <1>16 DEF Tells

\* Steps that have each the effect of their place tell of the effects.
LEMMA TellsEach ==
    ASSUME NEW n \in Nat, NEW X, NEW Q \in Seq(X), NEW E \in Seq(Effects), Len(Q) = n, Len(E) = n,
           \A k \in 1 .. n : Q[k].effect = E[k]
    PROVE  Tells(Q, E)
  <1>1. PICK pos : pos = [a \in 1 .. n |-> a]
    OBVIOUS
  <1>2. Places(Q, E, pos)
    BY <1>1 DEF Places
  <1>3. QED
    BY <1>2 DEF Tells

\* Steps without effect tell of none.
LEMMA TellsNothing ==
    ASSUME NEW X, NEW Q \in Seq(X), \A k \in 1 .. Len(Q) : Q[k].effect[1] = "none"
    PROVE  Tells(Q, <<>>)
  <1>1. PICK E : E = <<>> /\ E \in Seq(Effects) /\ Len(E) = 0
    <2>1. <<>> \in Seq(Effects) /\ Len(<<>>) = 0
      OBVIOUS
    <2>2. QED
      BY <2>1
  <1>2. PICK pos : pos = [a \in 1 .. 0 |-> a]
    OBVIOUS
  <1>3. pos \in [1 .. 0 -> 1 .. Len(Q)]
    BY <1>2
  <1>4. Places(Q, E, pos)
    BY <1>1, <1>3 DEF Places
  <1>5. QED
    BY <1>1, <1>4 DEF Tells

LEMMA TellsTimes ==
    ASSUME NEW n \in Nat
    PROVE  Tells(Times(n), <<>>)
  <1>1. PICK Q : Q = Times(n)
    OBVIOUS
  <1>2. Q \in Seq({Told}) /\ \A k \in 1 .. Len(Q) : Q[k].effect[1] = "none"
    BY <1>1 DEF Times, Told
  <1>3. Tells(Q, <<>>)
    BY <1>2, TellsNothing
  <1>4. QED
    BY <1>1, <1>3

LEMMA TellsNoMore ==
    ASSUME NEW P, NEW E, Tells(P, E), NEW n \in Nat
    PROVE  Tells(P \o Times(n), E)
  <1>1. Tells(P \o Times(n), E \o <<>>)
    BY TellsTimes, TellsJoin
  <1>2. E \o <<>> = E
    BY DEF Tells
  <1>3. QED
    BY <1>1, <1>2

-----------------------------------------------------------------------------
(* Playing the steps.                                                       *)

\* What a frame is made of.
Part == [vaddr : Nat, len : Nat, prot : Prots, source : Source, offset : Nat, segment : Nat]
Frame == [mappings : SUBSET Part, poked : Seq(Nat)]

\* One effect, added to a frame.
AfterMap(st, m) == [mappings |-> st.mappings \cup {m}, poked |-> st.poked]
AfterWrite(st, k) == [mappings |-> st.mappings, poked |-> Append(st.poked, k)]
AfterProtect(st) ==
    [mappings |-> UNION {Split(m, RelroStart, RelroEnd, ReadOnly) : m \in st.mappings},
     poked |-> st.poked]

LEMMA ApplyFacts ==
    ASSUME NEW st \in Frame, NEW one
    PROVE  /\ one.effect[1] = "none" => Apply(st, one) = st
           /\ \A m : one.effect = <<"map", m>> => Apply(st, one) = AfterMap(st, m)
           /\ \A k : one.effect = <<"write", k>> => Apply(st, one) = AfterWrite(st, k)
           /\ one.effect = <<"protect">> => Apply(st, one) = AfterProtect(st)
  <1>1. st = [mappings |-> st.mappings, poked |-> st.poked]
    BY DEF Frame
  <1>2. one.effect[1] = "none" => Apply(st, one) = st
    BY DEF Apply
  <1>3. ASSUME NEW m, one.effect = <<"map", m>>
        PROVE  Apply(st, one) = AfterMap(st, m)
    <2>1. one.effect[1] = "map" /\ one.effect[2] = m
      BY <1>3
    <2>2. Apply(st, one) = [st EXCEPT !.mappings = @ \cup {m}]
      BY <2>1 DEF Apply
    <2>3. QED
      BY <1>1, <2>2 DEF AfterMap
  <1>4. ASSUME NEW k, one.effect = <<"write", k>>
        PROVE  Apply(st, one) = AfterWrite(st, k)
    <2>1. one.effect[1] = "write" /\ one.effect[2] = k
      BY <1>4
    <2>2. Apply(st, one) = [st EXCEPT !.poked = Append(@, k)]
      BY <2>1 DEF Apply
    <2>3. QED
      BY <1>1, <2>2 DEF AfterWrite
  <1>5. ASSUME one.effect = <<"protect">>
        PROVE  Apply(st, one) = AfterProtect(st)
    <2>1. one.effect[1] = "protect"
      BY <1>5
    <2>2. Apply(st, one) = [st EXCEPT !.mappings = UNION {Split(m, RelroStart, RelroEnd, ReadOnly) : m \in @}]
      BY <2>1 DEF Apply
    <2>3. QED
      BY <1>1, <2>2 DEF AfterProtect
  <1>6. QED
    BY <1>2, <1>3, <1>4, <1>5

LEMMA SlicesAreParts ==
    ASSUME NEW m \in Part, NEW from \in Nat, NEW to \in Nat
    PROVE  Split(m, from, to, ReadOnly) \subseteq Part
  <1>1. /\ m.vaddr \in Nat /\ m.len \in Nat /\ m.prot \in Prots /\ m.source \in Source
        /\ m.offset \in Nat /\ m.segment \in Nat
    BY DEF Part
  <1>2. ReadOnly \in Prots
    BY DEF ReadOnly, Prots
  <1>3. \A x, y \in Nat : Minus(x, y) \in Nat /\ Higher(x, y) \in Nat /\ Lower(x, y) \in Nat
    BY DEF Minus, Higher, Lower
  <1>4. ASSUME NEW lo \in Nat, NEW hi \in Nat, NEW prot \in Prots
        PROVE  Slice(m, lo, hi, prot) \in Part
    <2>1. PICK d \in Nat, o \in Nat : d = Minus(lo, m.vaddr) /\ o = m.offset
      BY <1>1, <1>3
    <2>2. m.offset + Minus(lo, m.vaddr) \in Nat
      BY <2>1
    <2>3. Minus(hi, lo) \in Nat
      BY <1>3
    <2>4. QED
      BY <1>1, <2>2, <2>3 DEF Slice, Part
  <1>5. End(m) \in Nat
    BY <1>1 DEF End
  <1>6. /\ Slice(m, m.vaddr, from, m.prot) \in Part
        /\ Slice(m, Higher(m.vaddr, from), Lower(End(m), to), ReadOnly) \in Part
        /\ Slice(m, to, End(m), m.prot) \in Part
    BY <1>1, <1>2, <1>3, <1>4, <1>5
  <1>7. QED
    BY <1>6 DEF Split

\* Steps that tell of effects make frames of frames.
LEMMA ApplyIsFrame ==
    ASSUME object \in Object, NEW st \in Frame, NEW one,
           one.effect[1] = "none" \/ one.effect \in Effects
    PROVE  Apply(st, one) \in Frame
  <1>1. st.mappings \in SUBSET Part /\ st.poked \in Seq(Nat)
    BY DEF Frame
  <1>2. CASE one.effect[1] = "none"
    BY <1>2, ApplyFacts
  <1>3. CASE \E m \in Planned : one.effect = <<"map", m>>
    <2>1. PICK m \in Planned : one.effect = <<"map", m>>
      BY <1>3
    <2>2. m \in Part
      BY <2>1, PlannedFacts, MappingFields DEF Part, Mapping
    <2>3. Apply(st, one) = AfterMap(st, m)
      BY <2>1, ApplyFacts
    <2>4. QED
      BY <1>1, <2>2, <2>3 DEF AfterMap, Frame
  <1>4. CASE \E k \in DOMAIN object.relocs : one.effect = <<"write", k>>
    <2>1. PICK k \in DOMAIN object.relocs : one.effect = <<"write", k>>
      BY <1>4
    <2>2. k \in Nat
      BY <2>1 DEF Object
    <2>3. Apply(st, one) = AfterWrite(st, k)
      BY <2>1, ApplyFacts
    <2>4. Append(st.poked, k) \in Seq(Nat)
      BY <1>1, <2>2
    <2>5. QED
      BY <1>1, <2>3, <2>4 DEF AfterWrite, Frame
  <1>5. CASE HasRelro /\ one.effect = <<"protect">>
    <2>1. RelroStart \in Nat /\ RelroEnd \in Nat
      BY <1>5, RelroFacts DEF HasRelro
    <2>2. \A m \in st.mappings : Split(m, RelroStart, RelroEnd, ReadOnly) \subseteq Part
      BY <1>1, <2>1, SlicesAreParts
    <2>3. UNION {Split(m, RelroStart, RelroEnd, ReadOnly) : m \in st.mappings} \in SUBSET Part
      BY <2>2
    <2>4. Apply(st, one) = AfterProtect(st)
      BY <1>5, ApplyFacts
    <2>5. QED
      BY <1>1, <2>3, <2>4 DEF AfterProtect, Frame
  <1>6. QED
    BY <1>2, <1>3, <1>4, <1>5 DEF Effects

LEMMA LastFacts ==
    ASSUME NEW n \in Nat, NEW S \in SUBSET (1 .. n), S # {}
    PROVE  SX!Max(S) \in S /\ \A m \in S : m <= SX!Max(S)
  <1>1. S \in SUBSET Nat /\ \A x \in S : x <= n
    OBVIOUS
  <1>2. \E x \in S : \A y \in S : y <= x
    BY <1>1, GreatestOf
  <1>3. \E x \in S : \A y \in S : x >= y
    BY <1>1, <1>2
  <1>4. SX!Max(S) \in S /\ \A m \in S : SX!Max(S) >= m
    BY <1>3 DEF SX!Max
  <1>5. QED
    BY <1>1, <1>4

\* A frame is made step by step.
Playing(Q, g, s) == IF s = {} THEN Nothing ELSE Apply(g[s \ {SX!Max(s)}], Q[SX!Max(s)])
Plays(h, Q, n) ==
    /\ h[0] = Nothing
    /\ \A k \in 1 .. n : h[k] = Apply(h[k - 1], Q[k])

LEMMA PlayedStepByStep ==
    ASSUME object \in Object, NEW n \in Nat, NEW Q, DOMAIN Q = 1 .. n,
           \A k \in 1 .. n : Q[k].effect[1] = "none" \/ Q[k].effect \in Effects
    PROVE  \E h : Plays(h, Q, n) /\ h[n] = SX!FoldLeft(Apply, Nothing, Q)
  <1> DEFINE D == 1 .. n
             next(g, s) == IF s = {} THEN Nothing
                           ELSE LET x == SX!Max(s) IN Apply(g[s \ {x}], Q[x])
             iter == CHOOSE g : g = [s \in SUBSET D |-> next(g, s)]
  <1>1. SX!FoldLeft(Apply, Nothing, Q) = iter[D]
    <2>1. D = DOMAIN Q
      OBVIOUS
    <2> HIDE DEF D
    <2>2. SX!FoldLeft(Apply, Nothing, Q)
             = (CHOOSE g : g = [s \in SUBSET (DOMAIN Q) |-> next(g, s)])[DOMAIN Q]
      BY Zenon DEF SX!FoldLeft, SX!MapThenFoldSet
    <2>3. QED
      BY <2>1, <2>2, Zenon
  <1>2. \A g, s : next(g, s) = Playing(Q, g, s)
    BY Zenon DEF Playing
  <1> HIDE DEF next
  <1>3. \E g : g = [s \in SUBSET D |-> next(g, s)]
    <2>1. PICK V, c, op : /\ V = Frame
                          /\ c = [s \in SUBSET D |-> SX!Max(s)]
                          /\ op = [p \in D \X V |-> Apply(p[2], Q[p[1]])]
      OBVIOUS
    <2>2. op \in [D \X V -> V]
      <3>1. ASSUME NEW st \in Frame, NEW k \in D
            PROVE  Apply(st, Q[k]) \in Frame
        BY ApplyIsFrame
      <3>2. QED
        BY <2>1, <3>1
    <2>3. ASSUME NEW s \in SUBSET D, s # {}
          PROVE  SX!Max(s) \in s /\ c[s] = SX!Max(s)
      BY <2>1, <2>3, LastFacts
    <2>4. PICK g : TakesOut(g, D, V, Nothing, c, op)
      <3>1. PICK base : base = Nothing /\ base \in V
        <4>1. <<>> \in Seq(Nat) /\ {} \in SUBSET Part
          OBVIOUS
        <4>2. Nothing \in Frame
          BY <4>1 DEF Nothing, Frame
        <4>3. QED
          BY <2>1, <4>2
      <3>2. Chooses(c, D)
        BY <2>3 DEF Chooses
      <3>3. PICK S : S = D /\ IsFiniteSet(S)
        BY FS_Interval
      <3>4. op \in [S \X V -> V] /\ Chooses(c, S)
        BY <2>2, <3>2, <3>3
      <3>5. PICK g : TakesOut(g, S, V, base, c, op)
        <4> HIDE DEF D
        <4>1. QED
          BY <3>1, <3>3, <3>4, FoldExists
      <3>6. QED
        BY <3>1, <3>3, <3>5
    <2>5. ASSUME NEW s \in SUBSET D
          PROVE  g[s] = next(g, s)
      <3>1. CASE s = {}
        BY <1>2, <2>4, <3>1 DEF TakesOut, TakeOut, Playing
      <3>2. CASE s # {}
        <4>1. PICK x \in D, r \in SUBSET D : x = SX!Max(s) /\ r = s \ {SX!Max(s)} /\ c[s] = x
          BY <2>3, <3>2
        <4>2. g[r] \in V
          BY <2>4 DEF TakesOut
        <4>3. op[<<x, g[r]>>] = Apply(g[r], Q[x])
          BY <2>1, <4>2
        <4>4. g[s] = op[<<x, g[r]>>]
          BY <2>4, <3>2, <4>1 DEF TakesOut, TakeOut
        <4>5. next(g, s) = Apply(g[r], Q[x])
          BY <1>2, <3>2, <4>1 DEF Playing
        <4>6. QED
          BY <4>3, <4>4, <4>5
      <3>3. QED
        BY <3>1, <3>2
    <2>6. g = [s \in SUBSET D |-> next(g, s)]
      BY <2>4, <2>5 DEF TakesOut
    <2>7. QED
      BY <2>6
  <1>4. iter = [s \in SUBSET D |-> next(iter, s)]
    BY <1>3, Zenon
  <1> HIDE DEF iter
  <1>5. \A s \in SUBSET D : iter[s] = Playing(Q, iter, s)
    BY <1>2, <1>4
  <1>6. PICK h : h = [k \in 0 .. n |-> iter[1 .. k]]
    OBVIOUS
  <1>7. h[0] = Nothing
    <2>1. 1 .. 0 = {} /\ {} \in SUBSET D
      OBVIOUS
    <2>2. iter[{}] = Nothing
      BY <1>5, <2>1 DEF Playing
    <2>3. QED
      BY <1>6, <2>1, <2>2
  <1>8. ASSUME NEW k \in 1 .. n
        PROVE  h[k] = Apply(h[k - 1], Q[k])
    <2>1. PICK s : s = 1 .. k
      OBVIOUS
    <2>2. s \in SUBSET D /\ k \in s /\ s # {} /\ \A x \in s : x <= k
      BY <2>1
    <2>3. s \ {k} = 1 .. (k - 1)
      <3>1. \A x \in Int : x <= k /\ x # k <=> x <= k - 1
        OBVIOUS
      <3>2. QED
        BY <2>1, <3>1
    <2>4. SX!Max(s) = k
      <3>1. SX!Max(s) \in s /\ k <= SX!Max(s)
        BY <2>2, LastFacts
      <3>2. SX!Max(s) \in 1 .. k
        BY <2>1, <3>1
      <3>3. QED
        BY <3>1, <3>2
    <2>5. iter[s] = Apply(iter[1 .. (k - 1)], Q[k])
      BY <1>5, <2>2, <2>3, <2>4 DEF Playing
    <2>6. h[k] = iter[s] /\ h[k - 1] = iter[1 .. (k - 1)]
      BY <1>6, <2>1
    <2>7. QED
      BY <2>5, <2>6
  <1>9. h[n] = SX!FoldLeft(Apply, Nothing, Q)
    BY <1>1, <1>6
  <1>10. QED
    BY <1>7, <1>8, <1>9 DEF Plays

-----------------------------------------------------------------------------
(* The list tells of the mappings in the order of their keys, then of the   *)
(* relocations table by table, then of mprotect.                            *)

Mapped(ms) == [k \in DOMAIN ms |-> <<"map", ms[k]>>]
Wrote(ws) == [k \in DOMAIN ws |-> <<"write", ws[k]>>]
Sealing == IF HasRelro THEN << <<"protect">> >> ELSE <<>>

Written == UNION {Group(t) : t \in 1 .. 4}
TableOrder ==
    {p \in Nat \X Nat :
        \E s, t \in 1 .. 4 : /\ p[1] \in Group(s) /\ p[2] \in Group(t)
                             /\ s < t \/ (s = t /\ p[1] <= p[2])}

LEMMA GroupFacts ==
    ASSUME object \in Object
    PROVE  /\ \A t \in 1 .. 4 : Group(t) \subseteq DOMAIN object.relocs
           /\ DOMAIN object.relocs \in SUBSET Nat /\ IsFiniteSet(DOMAIN object.relocs)
           /\ \A t \in 1 .. 4 : Group(t) \in SUBSET Nat /\ IsFiniteSet(Group(t))
           /\ \A s, t \in 1 .. 4 : s # t => Group(s) \cap Group(t) = {}
  <1>1. object.relocs \in Seq(Reloc)
    BY DEF Object
  <1>2. PICK n \in Nat : DOMAIN object.relocs = 1 .. n
    BY <1>1
  <1>3. DOMAIN object.relocs \in SUBSET Nat /\ IsFiniteSet(DOMAIN object.relocs)
    <2>1. PICK D : D = 1 .. n /\ IsFiniteSet(D)
      BY FS_Interval
    <2>2. D \in SUBSET Nat
      BY <2>1
    <2>3. QED
      BY <1>2, <2>1, <2>2
  <1>4. \A t \in 1 .. 4 : Group(t) \subseteq DOMAIN object.relocs
    BY DEF Group
  <1>5. \A t \in 1 .. 4 : Group(t) \in SUBSET Nat /\ IsFiniteSet(Group(t))
    BY <1>3, <1>4, FS_Subset
  <1>6. \A s, t \in 1 .. 4 : Tables[s] = Tables[t] => s = t
    BY DEF Tables
  <1>7. \A s, t \in 1 .. 4 : s # t => Group(s) \cap Group(t) = {}
    BY <1>6 DEF Group
  <1>8. QED
    BY <1>3, <1>4, <1>5, <1>7

LEMMA PlannedIsFinite ==
    ASSUME object \in Object
    PROVE  IsFiniteSet(Planned)
  <1>1. object.segments \in Seq(Segment)
    BY DEF Object
  <1>2. PICK n \in Nat : DOMAIN object.segments = 1 .. n
    BY <1>1
  <1>3. PICK D : D = DOMAIN object.segments /\ IsFiniteSet(D)
    <2>1. IsFiniteSet(1 .. n)
      BY FS_Interval
    <2>2. QED
      BY <1>2, <2>1
  <1>4. PICK A : A = {i \in Loads(object.segments) : object.segments[i].filesz > 0}
    OBVIOUS
  <1>5. PICK B : B = {i \in Loads(object.segments) : object.segments[i].memsz > object.segments[i].filesz}
    OBVIOUS
  <1>6. IsFiniteSet(A) /\ IsFiniteSet(B)
    <2>1. A \in SUBSET D /\ B \in SUBSET D
      BY <1>3, <1>4, <1>5 DEF Loads
    <2>2. QED
      BY <1>3, <2>1, FS_Subset
  <1>7. PICK F, G : /\ F = {FileMapping(object.segments[i], i) : i \in A}
                    /\ G = {ZeroMapping(object.segments[i], i) : i \in B}
    OBVIOUS
  <1>8. IsFiniteSet(F)
    <2>1. PICK f : f = [i \in A |-> FileMapping(object.segments[i], i)]
      OBVIOUS
    <2>2. f \in Surjection(A, F)
      BY <1>7, <2>1 DEF Surjection
    <2>3. QED
      BY <1>6, <2>2, FS_Surjection
  <1>9. IsFiniteSet(G)
    <2>1. PICK f : f = [i \in B |-> ZeroMapping(object.segments[i], i)]
      OBVIOUS
    <2>2. f \in Surjection(B, G)
      BY <1>7, <2>1 DEF Surjection
    <2>3. QED
      BY <1>6, <2>2, FS_Surjection
  <1>10. Planned = F \cup G
    BY <1>4, <1>5, <1>7 DEF Planned, Mappings
  <1>11. QED
    BY <1>8, <1>9, <1>10, FS_Union

LEMMA EachMaps ==
    ASSUME object \in Object
    PROVE  \E ms : /\ ListOf(ms, Planned) /\ InOrder(ms, KeyOrder)
                   /\ Tells(Each(Planned, KeyLeq, MapStep), Mapped(ms))
  <1>1. Planned \in SUBSET Mapping /\ IsFiniteSet(Planned)
    BY PlannedFacts, PlannedIsFinite
  <1>2. PICK ms : ms = Ordered(Planned, KeyLeq)
    OBVIOUS
  <1>3. ListOf(ms, Planned) /\ InOrder(ms, KeyOrder)
    BY <1>1, <1>2, MappingsInOrder
  <1>4. PICK n \in Nat : n = Len(ms) /\ DOMAIN ms = 1 .. n
    BY <1>3 DEF ListOf
  <1>5. PICK Q : Q = [k \in 1 .. n |-> MapStep(ms[k])]
    OBVIOUS
  <1>6. Each(Planned, KeyLeq, MapStep) = Q
    <2>1. Each(Planned, KeyLeq, MapStep)
             = [k \in DOMAIN Ordered(Planned, KeyLeq) |-> MapStep(Ordered(Planned, KeyLeq)[k])]
      BY Zenon DEF Each
    <2>2. QED
      BY <1>2, <1>4, <1>5, <2>1
  <1>7. PICK E : E = Mapped(ms)
    OBVIOUS
  <1>8. PICK X : X = {MapStep(m) : m \in Planned}
    OBVIOUS
  <1>9. \A k \in 1 .. n : ms[k] \in Planned
    BY <1>3, <1>4 DEF ListOf
  <1>10. Q \in Seq(X) /\ Len(Q) = n
    BY <1>5, <1>8, <1>9
  <1>11. E = [k \in 1 .. n |-> <<"map", ms[k]>>]
    BY <1>4, <1>7 DEF Mapped
  <1>12. E \in Seq(Effects) /\ Len(E) = n
    <2>1. \A k \in 1 .. n : <<"map", ms[k]>> \in Effects
      BY <1>9 DEF Effects
    <2>2. QED
      BY <1>11, <2>1
  <1>13. \A k \in 1 .. n : Q[k].effect = E[k]
    BY <1>5, <1>11 DEF MapStep
  <1>14. Tells(Q, E)
    BY <1>10, <1>12, <1>13, TellsEach
  <1>15. QED
    BY <1>3, <1>6, <1>7, <1>14

LEMMA TableTells ==
    ASSUME object \in Object, NEW t \in 1 .. 4
    PROVE  \E ws : /\ ListOf(ws, Group(t)) /\ InOrder(ws, TableOrder)
                   /\ Tells(TableSteps(t), Wrote(ws))
  <1>1. Group(t) \in SUBSET Nat /\ IsFiniteSet(Group(t)) /\ Group(t) \subseteq DOMAIN object.relocs
    BY GroupFacts
  <1>2. PICK ws : ws = Ordered(Group(t), NatLeq)
    OBVIOUS
  <1>3. ListOf(ws, Group(t)) /\ InOrder(ws, NatOrder)
    BY <1>1, <1>2, NumbersInOrder
  <1>4. PICK n \in Nat : n = Len(ws) /\ DOMAIN ws = 1 .. n
    BY <1>3 DEF ListOf
  <1>5. PICK Q : Q = [k \in 1 .. n |-> WriteStep(ws[k])]
    OBVIOUS
  <1>6. Each(Group(t), NatLeq, WriteStep) = Q
    <2>1. Each(Group(t), NatLeq, WriteStep)
             = [k \in DOMAIN Ordered(Group(t), NatLeq) |-> WriteStep(Ordered(Group(t), NatLeq)[k])]
      BY Zenon DEF Each
    <2>2. QED
      BY <1>2, <1>4, <1>5, <2>1
  <1>7. PICK E : E = Wrote(ws)
    OBVIOUS
  <1>8. PICK X : X = {WriteStep(k) : k \in Group(t)}
    OBVIOUS
  <1>9. \A k \in 1 .. n : ws[k] \in Group(t)
    BY <1>3, <1>4 DEF ListOf
  <1>10. Q \in Seq(X) /\ Len(Q) = n
    BY <1>5, <1>8, <1>9
  <1>11. E = [k \in 1 .. n |-> <<"write", ws[k]>>]
    BY <1>4, <1>7 DEF Wrote
  <1>12. E \in Seq(Effects) /\ Len(E) = n
    <2>1. \A k \in 1 .. n : <<"write", ws[k]>> \in Effects
      BY <1>1, <1>9 DEF Effects
    <2>2. QED
      BY <1>11, <2>1
  <1>13. \A k \in 1 .. n : Q[k].effect = E[k]
    BY <1>5, <1>11 DEF WriteStep
  <1>14. Tells(Q, E)
    BY <1>10, <1>12, <1>13, TellsEach
  <1>15. Tells(TableSteps(t), E)
    <2>1. Tells(When(InTable(t) # {}), <<>>)
      BY TellsTimes DEF When
    <2>2. Tells(When(InTable(t) # {}) \o Q, <<>> \o E)
      BY <1>14, <2>1, TellsJoin
    <2>3. <<>> \o E = E
      BY <1>12
    <2>4. TableSteps(t) = When(InTable(t) # {}) \o Q
      BY <1>6 DEF TableSteps
    <2>5. QED
      BY <2>2, <2>3, <2>4
  <1>16. InOrder(ws, TableOrder)
    <2> SUFFICES ASSUME NEW j \in 1 .. n, NEW k \in 1 .. n, j <= k
                 PROVE  <<ws[j], ws[k]>> \in TableOrder
      BY <1>4 DEF InOrder
    <2>1. <<ws[j], ws[k]>> \in NatOrder
      BY <1>3, <1>4 DEF InOrder
    <2>2. QED
      BY <1>9, <2>1 DEF NatOrder, TableOrder
  <1>17. QED
    BY <1>3, <1>7, <1>15, <1>16

\* One table after another.
LEMMA WroteJoin ==
    ASSUME NEW A \in Seq(Effects), NEW g \in Seq(Nat), NEW h \in Seq(Nat)
    PROVE  (A \o Wrote(g)) \o Wrote(h) = A \o Wrote(g \o h)
  <1>1. PICK Z : Z = Effects \cup {<<"write", k>> : k \in Nat}
    OBVIOUS
  <1>2. PICK G, H, F : G = Wrote(g) /\ H = Wrote(h) /\ F = Wrote(g \o h)
    OBVIOUS
  <1>3. PICK m \in Nat, n \in Nat : m = Len(g) /\ n = Len(h)
    OBVIOUS
  <1>4. G \in Seq(Z) /\ Len(G) = m /\ H \in Seq(Z) /\ Len(H) = n
    BY <1>1, <1>2, <1>3, SMTT(60) DEF Wrote
  <1>5. PICK f : /\ f = g \o h /\ f \in Seq(Nat) /\ Len(f) = m + n
                 /\ \A k \in 1 .. m : f[k] = g[k]
                 /\ \A k \in 1 .. n : f[m + k] = h[k]
    <2>1. PICK f : f = g \o h
      OBVIOUS
    <2>2. /\ f \in Seq(Nat) /\ Len(f) = m + n
          /\ \A k \in 1 .. m : f[k] = g[k]
          /\ \A k \in 1 .. n : f[m + k] = h[k]
      BY <1>3, <2>1
    <2>3. QED
      BY <2>1, <2>2
  <1>6. F = [k \in 1 .. m + n |-> <<"write", f[k]>>]
    BY <1>2, <1>5 DEF Wrote
  <1>7. F \in Seq(Z) /\ Len(F) = m + n
    <2>1. \A k \in 1 .. m + n : <<"write", f[k]>> \in Z
      BY <1>1, <1>5
    <2>2. QED
      BY <1>6, <2>1
  <1>8. PICK J : /\ J = G \o H /\ J \in Seq(Z) /\ Len(J) = m + n
                 /\ \A k \in 1 .. m : J[k] = G[k]
                 /\ \A k \in 1 .. n : J[m + k] = H[k]
    <2>1. PICK J : J = G \o H
      OBVIOUS
    <2>2. /\ J \in Seq(Z) /\ Len(J) = m + n
          /\ \A k \in 1 .. m : J[k] = G[k]
          /\ \A k \in 1 .. n : J[m + k] = H[k]
      <3>1. J \in Seq(Z) /\ Len(J) = m + n
        <4>1. G \in Seq(Z) /\ H \in Seq(Z)
          BY <1>4
        <4>2. G \o H \in Seq(Z)
          BY <4>1
        <4>3. Len(G \o H) = Len(G) + Len(H)
          BY <4>1
        <4>4. QED
          BY <1>4, <2>1, <4>2, <4>3
      <3>2. \A k \in 1 .. m : J[k] = G[k]
        BY <1>4, <2>1
      <3>3. \A k \in 1 .. n : J[m + k] = H[k]
        <4> TAKE k \in 1 .. n
        <4>1. m + k \in 1 .. m + n /\ ~(m + k <= m) /\ (m + k) - m = k
          OBVIOUS
        <4>2. QED
          BY <1>4, <2>1, <4>1
      <3>4. QED
        BY <3>1, <3>2, <3>3
    <2>3. QED
      BY <2>1, <2>2
  <1>9. F = J
    <2>1. \A k \in 1 .. m : G[k] = <<"write", g[k]>>
      BY <1>2, <1>3 DEF Wrote
    <2>2. \A k \in 1 .. n : H[k] = <<"write", h[k]>>
      BY <1>2, <1>3 DEF Wrote
    <2>3. \A k \in 1 .. m + n : F[k] = J[k]
      <3> TAKE k \in 1 .. m + n
      <3>1. CASE k <= m
        <4>1. k \in 1 .. m
          BY <3>1
        <4>2. QED
          BY <1>5, <1>6, <1>8, <2>1, <4>1
      <3>2. CASE ~(k <= m)
        <4>1. PICK j \in 1 .. n : k = m + j
          <5>1. k - m \in 1 .. n /\ k = m + (k - m)
            BY <3>2
          <5>2. QED
            BY <5>1
        <4>2. QED
          BY <1>5, <1>6, <1>8, <2>2, <4>1
      <3>3. QED
        BY <3>1, <3>2
    <2>4. QED
      BY <1>7, <1>8, <2>3
  <1>10. A \in Seq(Z)
    BY <1>1
  <1>11. (A \o G) \o H = A \o (G \o H)
    BY <1>4, <1>10
  <1>12. QED
    BY <1>2, <1>8, <1>9, <1>11

\* The whole list.
TellsTheLoad(ms, ws) ==
    /\ ListOf(ms, Planned) /\ InOrder(ms, KeyOrder)
    /\ ListOf(ws, Written) /\ InOrder(ws, TableOrder)
    /\ Tells(Steps, (Mapped(ms) \o Wrote(ws)) \o Sealing)

LEMMA StepsTell ==
    ASSUME object \in Object
    PROVE  \E ms, ws : TellsTheLoad(ms, ws)
  <1> DEFINE a0 == <<[reads |-> {[start |-> 0, len |-> IdentSpan]}, effect |-> <<"none">>]>>
             a1 == a0 \o When(object.interp)
             a2 == a1 \o Each(Planned, KeyLeq, MapStep)
             a3 == a2 \o Times(1) \o Times(IF object.interp THEN 3 ELSE 0)
                      \o Times(object.needed) \o When(object.needed > 0)
             b1 == a3 \o TableSteps(1)
             b2 == b1 \o TableSteps(2)
             b3 == b2 \o TableSteps(3)
             b4 == b3 \o TableSteps(4)
             c1 == b4 \o (IF HasRelro THEN <<ProtectStep>> ELSE <<>>)
             c2 == c1 \o When(object.init) \o When(object.initArray > 0) \o Times(1)
                      \o When(\E k \in DOMAIN object.relocs : Deferred(object.relocs[k]))
  <1>1. Steps = c2
    BY Zenon DEF Steps
  <1>2. object.needed \in Nat
    BY DEF Object
  <1>3. Tells(a0, <<>>)
    <2>1. PICK one : one = [reads |-> {[start |-> 0, len |-> IdentSpan]}, effect |-> <<"none">>]
      OBVIOUS
    <2>2. one.effect[1] = "none"
      BY <2>1
    <2>3. PICK Q : Q = <<one>>
      OBVIOUS
    <2>4. Q \in Seq({one}) /\ \A k \in 1 .. Len(Q) : Q[k].effect[1] = "none"
      BY <2>2, <2>3
    <2>5. Tells(Q, <<>>)
      BY <2>4, TellsNothing
    <2>6. QED
      BY <2>1, <2>3, <2>5
  <1>4. \A P, E, cond : Tells(P, E) => Tells(P \o When(cond), E)
    BY TellsNoMore DEF When
  <1>5. Tells(a1, <<>>)
    <2> HIDE DEF a0
    <2>1. QED
      BY <1>3, <1>4
  <1>6. PICK ms : /\ ListOf(ms, Planned) /\ InOrder(ms, KeyOrder)
                  /\ Tells(Each(Planned, KeyLeq, MapStep), Mapped(ms))
    BY EachMaps
  <1>7. PICK M : M = Mapped(ms) /\ M \in Seq(Effects)
    BY <1>6 DEF Tells
  <1>8. Tells(a2, M)
    <2> HIDE DEF a1
    <2>1. Tells(a2, <<>> \o M)
      <3>1. PICK Q : Q = Each(Planned, KeyLeq, MapStep)
        OBVIOUS
      <3>2. Tells(a1 \o Q, <<>> \o M)
        BY <1>5, <1>6, <1>7, <3>1, TellsJoin
      <3>3. QED
        BY <3>1, <3>2, Zenon
    <2>2. <<>> \o M = M
      BY <1>7
    <2>3. QED
      BY <2>1, <2>2
  <1>9. Tells(a3, M)
    <2> HIDE DEF a2
    <2>1. Tells(a2 \o Times(1), M)
      BY <1>8, TellsNoMore
    <2>2. Tells(a2 \o Times(1) \o Times(IF object.interp THEN 3 ELSE 0), M)
      BY <2>1, TellsNoMore
    <2>3. Tells(a2 \o Times(1) \o Times(IF object.interp THEN 3 ELSE 0) \o Times(object.needed), M)
      BY <1>2, <2>2, TellsNoMore
    <2>4. QED
      BY <1>4, <2>3
  <1>10. \A t \in 1 .. 4 : \E ws : /\ ListOf(ws, Group(t)) /\ InOrder(ws, TableOrder)
                                   /\ Tells(TableSteps(t), Wrote(ws))
    BY TableTells
  <1>11. PICK w1 : /\ ListOf(w1, Group(1)) /\ InOrder(w1, TableOrder)
                   /\ Tells(TableSteps(1), Wrote(w1))
    BY <1>10
  <1>12. PICK w2 : /\ ListOf(w2, Group(2)) /\ InOrder(w2, TableOrder)
                   /\ Tells(TableSteps(2), Wrote(w2))
    BY <1>10
  <1>13. PICK w3 : /\ ListOf(w3, Group(3)) /\ InOrder(w3, TableOrder)
                   /\ Tells(TableSteps(3), Wrote(w3))
    BY <1>10
  <1>14. PICK w4 : /\ ListOf(w4, Group(4)) /\ InOrder(w4, TableOrder)
                   /\ Tells(TableSteps(4), Wrote(w4))
    BY <1>10
  <1>15. /\ \A s, t \in 1 .. 4 : s # t => Group(s) \cap Group(t) = {}
         /\ \A t \in 1 .. 4 : Group(t) \in SUBSET Nat
    BY GroupFacts
  <1>16. \A s, t \in 1 .. 4 : s < t => \A x \in Group(s), y \in Group(t) : <<x, y>> \in TableOrder
    BY <1>15 DEF TableOrder
  <1>17. PICK G1, G2, G3, G4, H2, H3, H4 :
            /\ G1 = Group(1) /\ G2 = Group(2) /\ G3 = Group(3) /\ G4 = Group(4)
            /\ H2 = G1 \cup G2 /\ H3 = H2 \cup G3 /\ H4 = H3 \cup G4
    OBVIOUS
  <1>18. /\ G1 \cap G2 = {} /\ H2 \cap G3 = {} /\ H3 \cap G4 = {}
         /\ \A x \in G1, y \in G2 : <<x, y>> \in TableOrder
         /\ \A x \in H2, y \in G3 : <<x, y>> \in TableOrder
         /\ \A x \in H3, y \in G4 : <<x, y>> \in TableOrder
    <2>1. /\ G1 \cap G2 = {} /\ G1 \cap G3 = {} /\ G2 \cap G3 = {}
          /\ G1 \cap G4 = {} /\ G2 \cap G4 = {} /\ G3 \cap G4 = {}
      BY <1>15, <1>17
    <2>2. /\ \A x \in G1, y \in G2 : <<x, y>> \in TableOrder
          /\ \A x \in G1, y \in G3 : <<x, y>> \in TableOrder
          /\ \A x \in G2, y \in G3 : <<x, y>> \in TableOrder
          /\ \A x \in G1, y \in G4 : <<x, y>> \in TableOrder
          /\ \A x \in G2, y \in G4 : <<x, y>> \in TableOrder
          /\ \A x \in G3, y \in G4 : <<x, y>> \in TableOrder
      BY <1>16, <1>17
    <2>3. QED
      BY <1>17, <2>1, <2>2
  <1>19. PICK v2 : v2 = w1 \o w2 /\ ListOf(v2, H2) /\ InOrder(v2, TableOrder)
    <2>1. ListOf(w1 \o w2, H2) /\ InOrder(w1 \o w2, TableOrder)
      BY <1>11, <1>12, <1>17, <1>18, ListsJoin
    <2>2. QED
      BY <2>1
  <1>20. PICK v3 : v3 = v2 \o w3 /\ ListOf(v3, H3) /\ InOrder(v3, TableOrder)
    <2>1. ListOf(v2 \o w3, H3) /\ InOrder(v2 \o w3, TableOrder)
      BY <1>13, <1>17, <1>18, <1>19, ListsJoin
    <2>2. QED
      BY <2>1
  <1>21. PICK ws : ws = v3 \o w4 /\ ListOf(ws, H4) /\ InOrder(ws, TableOrder)
    <2>1. /\ H4 = H3 \cup G4 /\ H3 \cap G4 = {}
          /\ \A x \in H3, y \in G4 : <<x, y>> \in TableOrder
          /\ ListOf(w4, G4) /\ InOrder(w4, TableOrder)
      BY <1>14, <1>17, <1>18
    <2>2. ListOf(v3 \o w4, H4) /\ InOrder(v3 \o w4, TableOrder)
      BY <1>20, <2>1, ListsJoin
    <2>3. QED
      BY <2>2
  <1>22. Written = H4
    <2>1. 1 .. 4 = {1, 2, 3, 4}
      OBVIOUS
    <2>2. QED
      BY <1>17, <2>1 DEF Written
  <1>23. /\ w1 \in Seq(Nat) /\ w2 \in Seq(Nat) /\ w3 \in Seq(Nat) /\ w4 \in Seq(Nat)
         /\ v2 \in Seq(Nat) /\ v3 \in Seq(Nat)
    <2>1. ASSUME NEW S \in SUBSET Nat, NEW s, ListOf(s, S)
          PROVE  s \in Seq(Nat)
      <3>1. s \in Seq(S)
        BY <2>1 DEF ListOf
      <3>2. QED
        BY <3>1, SeqOfMore
    <2>2. G1 \in SUBSET Nat /\ G2 \in SUBSET Nat /\ G3 \in SUBSET Nat /\ G4 \in SUBSET Nat
      BY <1>15, <1>17
    <2>3. H2 \in SUBSET Nat /\ H3 \in SUBSET Nat
      BY <1>17, <2>2
    <2>4. QED
      BY <1>11, <1>12, <1>13, <1>14, <1>17, <1>19, <1>20, <2>1, <2>2, <2>3
  <1>24. Tells(b1, M \o Wrote(w1))
    <2> HIDE DEF a3
    <2>1. QED
      BY <1>9, <1>11, TellsJoin
  <1>25. Tells(b2, M \o Wrote(v2))
    <2> HIDE DEF b1
    <2>1. Tells(b2, (M \o Wrote(w1)) \o Wrote(w2))
      BY <1>12, <1>24, TellsJoin
    <2>2. (M \o Wrote(w1)) \o Wrote(w2) = M \o Wrote(v2)
      <3>1. (M \o Wrote(w1)) \o Wrote(w2) = M \o Wrote(w1 \o w2)
        BY <1>7, <1>23, WroteJoin
      <3>2. QED
        BY <1>19, <3>1
    <2>3. QED
      BY <2>1, <2>2
  <1>26. Tells(b3, M \o Wrote(v3))
    <2> HIDE DEF b2
    <2>1. Tells(b3, (M \o Wrote(v2)) \o Wrote(w3))
      BY <1>13, <1>25, TellsJoin
    <2>2. (M \o Wrote(v2)) \o Wrote(w3) = M \o Wrote(v3)
      <3>1. (M \o Wrote(v2)) \o Wrote(w3) = M \o Wrote(v2 \o w3)
        BY <1>7, <1>23, WroteJoin
      <3>2. QED
        BY <1>20, <3>1
    <2>3. QED
      BY <2>1, <2>2
  <1>27. Tells(b4, M \o Wrote(ws))
    <2> HIDE DEF b3
    <2>1. Tells(b4, (M \o Wrote(v3)) \o Wrote(w4))
      BY <1>14, <1>26, TellsJoin
    <2>2. (M \o Wrote(v3)) \o Wrote(w4) = M \o Wrote(ws)
      <3>1. (M \o Wrote(v3)) \o Wrote(w4) = M \o Wrote(v3 \o w4)
        BY <1>7, <1>23, WroteJoin
      <3>2. QED
        BY <1>21, <3>1
    <2>3. QED
      BY <2>1, <2>2
  <1>28. Tells(c1, (M \o Wrote(ws)) \o Sealing)
    <2> HIDE DEF b4
    <2>1. Tells(IF HasRelro THEN <<ProtectStep>> ELSE <<>>, Sealing)
      <3>1. CASE HasRelro
        <4>1. PICK Q, E : Q = <<ProtectStep>> /\ E = << <<"protect">> >>
          OBVIOUS
        <4>2. <<"protect">> \in Effects
          BY <3>1 DEF Effects
        <4>3. /\ Q \in Seq({ProtectStep}) /\ Len(Q) = 1 /\ E \in Seq(Effects) /\ Len(E) = 1
              /\ Q[1] = ProtectStep /\ E[1] = <<"protect">>
          BY <4>1, <4>2
        <4>4. \A k \in 1 .. 1 : Q[k].effect = E[k]
          BY <4>3 DEF ProtectStep
        <4>5. Tells(Q, E)
          BY <4>3, <4>4, TellsEach
        <4>6. QED
          BY <3>1, <4>1, <4>5 DEF Sealing
      <3>2. CASE ~HasRelro
        <4>1. PICK Q : Q = <<>>
          OBVIOUS
        <4>2. Q \in Seq({}) /\ \A k \in 1 .. Len(Q) : Q[k].effect[1] = "none"
          BY <4>1
        <4>3. Tells(Q, <<>>)
          BY <4>2, TellsNothing
        <4>4. QED
          BY <3>2, <4>1, <4>3 DEF Sealing
      <3>3. QED
        BY <3>1, <3>2
    <2>2. QED
      BY <1>27, <2>1, TellsJoin
  <1>29. Tells(c2, (M \o Wrote(ws)) \o Sealing)
    <2> HIDE DEF c1
    <2>1. PICK E : E = (M \o Wrote(ws)) \o Sealing
      OBVIOUS
    <2>2. Tells(c1 \o When(object.init) \o When(object.initArray > 0), E)
      BY <1>4, <1>28, <2>1
    <2>3. Tells(c1 \o When(object.init) \o When(object.initArray > 0) \o Times(1), E)
      BY <2>2, TellsNoMore
    <2>4. QED
      BY <1>4, <2>1, <2>3
  <1>30. QED
    <2> HIDE DEF c2
    <2>1. QED
      BY <1>1, <1>6, <1>7, <1>17, <1>21, <1>22, <1>29 DEF TellsTheLoad

-----------------------------------------------------------------------------
(* How far the load is: what is done is the first part of what is to do.    *)

\* Mappings that overlap may have one key; those of segments that are apart do not.
LEMMA KeysDiffer ==
    ASSUME object \in Object, PagesApart, NEW m \in Planned, NEW n \in Planned,
           KeyLeq(m, n), KeyLeq(n, m)
    PROVE  m = n
  <1>1. /\ Planned \in SUBSET Mapping /\ MappedAsPlanned(Planned) /\ ClaimsMoreFile = {}
    BY PlannedFacts, PlanIsRight DEF PagesApart
  <1>2. /\ m.vaddr \in Nat /\ m.len \in Nat \ {0} /\ n.vaddr \in Nat /\ n.len \in Nat \ {0}
    BY <1>1, MappingFields
  <1>3. PICK a \in Nat : a = m.vaddr /\ a = n.vaddr
    BY <1>2 DEF KeyLeq
  <1>4. In(m, a) /\ In(n, a)
    BY <1>2, <1>3 DEF In, End
  <1>5. m.segment = n.segment
    BY <1>1, <1>4, OneSegmentEach
  <1>6. m.segment \in Loads(Segs) /\ a \in Extent(Segs[m.segment])
    BY <1>1, <1>4, MappedInSegment
  <1>7. PICK q \in Planned : \A o \in Planned : o.segment = m.segment /\ In(o, a) => o = q
    BY <1>1, <1>6 DEF MappedAsPlanned, Segs
  <1>8. QED
    BY <1>4, <1>5, <1>7

ProgressInv ==
    /\ stage = "kernel" => applied = {} /\ \A m \in mappings, n \in Planned \ mappings : KeyLeq(m, n)
    /\ applied \subseteq Written
    /\ \A k \in applied, l \in Written \ applied : <<l, k>> \notin TableOrder

LEMMA InitProgressInv == Init => ProgressInv
  BY DEF Init, ProgressInv

LEMMA NextProgressInv == LoadInv /\ ProgressInv /\ [Next]_vars => ProgressInv'
  <1> SUFFICES ASSUME LoadInv, ProgressInv, [Next]_vars PROVE ProgressInv'
    OBVIOUS
  <1>1. object' = object
    BY DEF Next, vars, Map, KernelDone, Write, NextTable, Protect, NothingToProtect, Enter
  <1>2. /\ Planned' = Planned /\ Written' = Written /\ TableOrder' = TableOrder
        /\ \A t : Group(t)' = Group(t)
    BY <1>1 DEF Planned, Written, TableOrder, Group, Deferred
  <1>3. CASE Map
    <2>1. PICK m \in Planned \ mappings : /\ \A n \in Planned \ mappings : KeyLeq(m, n)
                                          /\ mappings' = mappings \cup {m}
      BY <1>3 DEF Map
    <2>2. stage = "kernel" /\ applied' = applied
      BY <1>3 DEF Map
    <2>3. \A o \in mappings', n \in Planned \ mappings' : KeyLeq(o, n)
      BY <2>1, <2>2 DEF ProgressInv
    <2>4. QED
      BY <1>2, <2>2, <2>3 DEF ProgressInv
  <1>4. CASE Write
    <2>1. PICK k \in Group(table) \ applied : /\ \A j \in Group(table) \ applied : k <= j
                                              /\ applied' = applied \cup {k}
      BY <1>4 DEF Write
    <2>2. /\ object \in Object /\ table \in 1 .. 4 /\ stage = "relocate" /\ stage' = "relocate"
          /\ \A t \in 1 .. table - 1 : Group(t) \subseteq applied
      BY <1>4, TablesLength DEF Write, LoadInv, TypeOK, TablesInv
    <2>3. k \in Written /\ k \in Nat
      BY <2>2, GroupFacts DEF Written
    <2>4. ASSUME NEW l \in Written \ applied', <<l, k>> \in TableOrder
          PROVE  FALSE
      <3>1. PICK s \in 1 .. 4, t \in 1 .. 4 : /\ l \in Group(s) /\ k \in Group(t)
                                              /\ s < t \/ (s = t /\ l <= k)
        BY <2>4 DEF TableOrder
      <3>2. t = table
        BY <2>1, <2>2, <3>1, GroupFacts
      <3>3. l \notin applied /\ l # k /\ l \in Nat
        BY <2>1, <2>2, <3>1, <2>4, GroupFacts
      <3>4. ~(s < t)
        BY <2>2, <3>1, <3>2, <3>3
      <3>5. s = t /\ l <= k
        BY <3>1, <3>4
      <3>6. k <= l
        BY <2>1, <3>1, <3>2, <3>3, <3>5
      <3>7. QED
        BY <2>3, <3>3, <3>5, <3>6
    <2>5. \A j \in applied', l \in Written \ applied' : <<l, j>> \notin TableOrder
      BY <2>1, <2>4 DEF ProgressInv
    <2>6. QED
      BY <1>2, <2>1, <2>2, <2>3, <2>5 DEF ProgressInv
  <1>5. CASE KernelDone \/ NextTable \/ Protect \/ NothingToProtect \/ Enter \/ UNCHANGED vars
    <2>1. applied' = applied
      BY <1>5 DEF KernelDone, NextTable, Protect, NothingToProtect, Enter, vars
    <2>2. stage' = "kernel" => stage = "kernel" /\ mappings' = mappings
      BY <1>5 DEF KernelDone, NextTable, Protect, NothingToProtect, Enter, vars
    <2>3. QED
      BY <1>2, <2>1, <2>2 DEF ProgressInv
  <1>6. QED
    BY <1>3, <1>4, <1>5 DEF Next

-----------------------------------------------------------------------------
(* The frames.                                                              *)

\* The places of the effects in the list of effects.
Laid(E, M, W, p, w) ==
    /\ Len(E) = p + w + (IF HasRelro THEN 1 ELSE 0)
    /\ \A k \in 1 .. p : E[k] = M[k]
    /\ \A k \in 1 .. w : E[p + k] = W[k]
    /\ HasRelro => E[p + w + 1] = <<"protect">>

LEMMA EffectFacts ==
    ASSUME NEW M \in Seq(Effects), NEW W \in Seq(Effects), NEW p \in Nat, NEW w \in Nat,
           p = Len(M), w = Len(W), NEW E, E = (M \o W) \o Sealing
    PROVE  Laid(E, M, W, p, w)
  <1>1. PICK F : /\ F = M \o W /\ F \in Seq(Effects) /\ Len(F) = p + w
                 /\ \A k \in 1 .. p : F[k] = M[k]
                 /\ \A k \in 1 .. w : F[p + k] = W[k]
    <2>1. /\ M \o W \in Seq(Effects) /\ Len(M \o W) = p + w
          /\ \A k \in 1 .. p : (M \o W)[k] = M[k]
          /\ \A k \in 1 .. w : (M \o W)[p + k] = W[k]
      BY ConcatFacts
    <2>2. QED
      BY <2>1
  <1>2. PICK q \in Nat : q = p + w
    OBVIOUS
  <1>3. CASE HasRelro
    <2>1. PICK G : G = << <<"protect">> >> /\ G \in Seq(Effects) /\ Len(G) = 1 /\ G[1] = <<"protect">>
      <3>1. <<"protect">> \in Effects
        BY <1>3 DEF Effects
      <3>2. PICK G : G = << <<"protect">> >>
        OBVIOUS
      <3>3. G \in Seq(Effects) /\ Len(G) = 1 /\ G[1] = <<"protect">>
        BY <3>1, <3>2
      <3>4. QED
        BY <3>2, <3>3
    <2>2. E = F \o G
      BY <1>1, <1>3, <2>1 DEF Sealing
    <2>3. /\ Len(F \o G) = q + 1
          /\ \A k \in 1 .. q : (F \o G)[k] = F[k]
          /\ \A k \in 1 .. 1 : (F \o G)[q + k] = G[k]
      BY <1>1, <1>2, <2>1, ConcatFacts
    <2>4. Len(E) = q + 1 /\ (\A k \in 1 .. q : E[k] = F[k]) /\ E[q + 1] = <<"protect">>
      BY <2>1, <2>2, <2>3
    <2>5. QED
      BY <1>1, <1>2, <1>3, <2>4, SMTT(60) DEF Laid
  <1>4. CASE ~HasRelro
    <2>1. E = F
      BY <1>1, <1>4 DEF Sealing
    <2>2. QED
      BY <1>1, <1>4, <2>1 DEF Laid
  <1>5. QED
    BY <1>3, <1>4

\* The frame of the first c effects: mappings ms, then relocations ws, then mprotect.
FrameAfter(ms, ws, c) ==
    [mappings |-> IF c <= Len(ms) + Len(ws) THEN {ms[j] : j \in 1 .. Lower(c, Len(ms))} ELSE Protected,
     poked |-> [j \in 1 .. Lower(Minus(c, Len(ms)), Len(ws)) |-> ws[j]]]

\* The c-th effect.
EffectOf(ms, ws, c) ==
    IF c <= Len(ms) THEN <<"map", ms[c]>>
    ELSE IF c <= Len(ms) + Len(ws) THEN <<"write", ws[c - Len(ms)]>> ELSE <<"protect">>

LEMMA FrameMade ==
    ASSUME object \in Object, NEW p \in Nat, NEW w \in Nat, NEW ms, NEW ws,
           ListOf(ms, Planned), ListOf(ws, Written), Len(ms) = p, Len(ws) = w,
           NEW e, e = p + w + (IF HasRelro THEN 1 ELSE 0), NEW c \in 0 .. e
    PROVE  FrameAfter(ms, ws, c) \in Frame
  <1>1. \A k \in 1 .. p : ms[k] \in Part
    <2> TAKE k \in 1 .. p
    <2>1. ms[k] \in Planned
      BY DEF ListOf
    <2>2. QED
      BY <2>1, PlannedFacts, MappingFields DEF Part, Mapping
  <1>2. \A k \in 1 .. w : ws[k] \in Nat
    <2>1. \A k \in 1 .. w : ws[k] \in Written
      BY DEF ListOf
    <2>2. Written \subseteq Nat
      BY GroupFacts DEF Written
    <2>3. QED
      BY <2>1, <2>2
  <1>3. PICK a \in 0 .. p : a = Lower(c, p)
    BY DEF Lower
  <1>4. PICK b \in 0 .. w : b = Lower(Minus(c, p), w)
    <2>1. PICK z \in Nat : z = Minus(c, p)
      <3>1. c \in Nat
        OBVIOUS
      <3>2. Minus(c, p) \in Nat
        BY <3>1 DEF Minus
      <3>3. QED
        BY <3>2
    <2>2. Lower(z, w) \in 0 .. w
      BY DEF Lower
    <2>3. QED
      BY <2>1, <2>2
  <1>5. {ms[j] : j \in 1 .. a} \subseteq Part
    BY <1>1
  <1>6. ~(c <= p + w) => Protected \subseteq Part
    <2> SUFFICES ASSUME ~(c <= p + w) PROVE Protected \subseteq Part
      OBVIOUS
    <2>1. HasRelro
      OBVIOUS
    <2>2. RelroStart \in Nat /\ RelroEnd \in Nat
      BY <2>1, RelroFacts DEF HasRelro
    <2>3. \A m \in Planned : m \in Part
      BY PlannedFacts, MappingFields DEF Part, Mapping
    <2>4. QED
      BY <2>2, <2>3, SlicesAreParts DEF Protected
  <1>7. [j \in 1 .. b |-> ws[j]] \in Seq(Nat)
    BY <1>2, <1>4
  <1>8. QED
    BY <1>3, <1>4, <1>5, <1>6, <1>7 DEF FrameAfter, Frame

\* One more effect.
LEMMA FrameGrows ==
    ASSUME object \in Object, NEW p \in Nat, NEW w \in Nat, NEW ms, NEW ws,
           ListOf(ms, Planned), ListOf(ws, Written), Len(ms) = p, Len(ws) = w,
           NEW e, e = p + w + (IF HasRelro THEN 1 ELSE 0), NEW c \in 1 .. e,
           NEW one, one.effect = EffectOf(ms, ws, c)
    PROVE  Apply(FrameAfter(ms, ws, c - 1), one) = FrameAfter(ms, ws, c)
  <1>0. /\ c <= p => one.effect = <<"map", ms[c]>>
        /\ p < c /\ c <= p + w => one.effect = <<"write", ws[c - p]>>
        /\ p + w < c => one.effect = <<"protect">>
    BY DEF EffectOf
  <1>1. PICK d \in 0 .. p + w : d = c - 1 /\ c = d + 1
    OBVIOUS
  <1>2. PICK st : st = FrameAfter(ms, ws, d)
    OBVIOUS
  <1>3. st \in Frame
    <2>1. d \in 0 .. e
      OBVIOUS
    <2>2. FrameAfter(ms, ws, d) \in Frame
      BY <2>1, FrameMade
    <2>3. QED
      BY <1>2, <2>2
  <1>4. st.mappings = {ms[j] : j \in 1 .. Lower(d, p)}
    BY <1>1, <1>2 DEF FrameAfter
  <1>5. st.poked = [j \in 1 .. Lower(Minus(d, p), w) |-> ws[j]]
    BY <1>1, <1>2 DEF FrameAfter
  <1>6. CASE c <= p
    <2>1. Apply(st, one) = AfterMap(st, ms[c])
      BY <1>0, <1>3, <1>6, ApplyFacts
    <2>2. /\ Lower(d, p) = d /\ Lower(c, p) = c
          /\ Minus(d, p) = 0 /\ Minus(c, p) = 0 /\ c <= p + w
      BY <1>1, <1>6 DEF Lower, Minus
    <2>3. {ms[j] : j \in 1 .. c} = {ms[j] : j \in 1 .. d} \cup {ms[c]}
      <3>1. \A j \in Int : j \in 1 .. c <=> j \in 1 .. d \/ j = c
        BY <1>1
      <3>2. 1 .. c = (1 .. d) \cup {c}
        BY <1>1
      <3>3. QED
        BY <3>2
    <2>4. st.mappings = {ms[j] : j \in 1 .. d} /\ st.poked = [j \in 1 .. Lower(0, w) |-> ws[j]]
      BY <1>4, <1>5, <2>2
    <2>5. AfterMap(st, ms[c]) = [mappings |-> {ms[j] : j \in 1 .. c}, poked |-> [j \in 1 .. Lower(0, w) |-> ws[j]]]
      BY <2>3, <2>4 DEF AfterMap
    <2>6. FrameAfter(ms, ws, c) = [mappings |-> {ms[j] : j \in 1 .. c}, poked |-> [j \in 1 .. Lower(0, w) |-> ws[j]]]
      BY <2>2 DEF FrameAfter
    <2>7. QED
      BY <1>1, <1>2, <2>1, <2>5, <2>6
  <1>7. CASE p < c /\ c <= p + w
    <2>1. PICK b \in 1 .. w : b = c - p /\ c = p + b /\ d = p + (b - 1)
      <3>1. c - p \in 1 .. w
        BY <1>7
      <3>2. QED
        BY <1>1, <3>1
    <2>2. Apply(st, one) = AfterWrite(st, ws[b])
      BY <1>0, <1>3, <1>7, <2>1, ApplyFacts
    <2>3. Minus(d, p) = b - 1 /\ Minus(c, p) = b
      BY <2>1 DEF Minus
    <2>4. /\ Lower(d, p) = p /\ Lower(c, p) = p
          /\ Lower(b - 1, w) = b - 1 /\ Lower(b, w) = b
      BY <2>1 DEF Lower
    <2>5. PICK g : g = [j \in 1 .. b - 1 |-> ws[j]]
      OBVIOUS
    <2>6. g \in Seq(Nat)
      BY <1>3, <1>5, <2>3, <2>4, <2>5 DEF Frame
    <2>7. Append(g, ws[b]) = [j \in 1 .. b |-> ws[j]]
      <3>1. Len(g) = b - 1
        BY <2>1, <2>5
      <3>2. \A j \in 1 .. b - 1 : g[j] = ws[j]
        BY <2>5
      <3>3. QED
        BY <2>1, <2>6, <3>1, <3>2
    <2>8. st.poked = g /\ st.mappings = {ms[j] : j \in 1 .. p}
      BY <1>4, <1>5, <2>3, <2>4, <2>5
    <2>9. AfterWrite(st, ws[b]) = [mappings |-> {ms[j] : j \in 1 .. p}, poked |-> [j \in 1 .. b |-> ws[j]]]
      BY <2>7, <2>8 DEF AfterWrite
    <2>10. FrameAfter(ms, ws, c) = [mappings |-> {ms[j] : j \in 1 .. p}, poked |-> [j \in 1 .. b |-> ws[j]]]
      BY <1>7, <2>3, <2>4 DEF FrameAfter
    <2>11. QED
      BY <1>1, <1>2, <2>2, <2>9, <2>10
  <1>8. CASE p + w < c
    <2>1. Apply(st, one) = AfterProtect(st)
      BY <1>0, <1>3, <1>8, ApplyFacts
    <2>2. d = p + w /\ c = p + w + 1
      BY <1>1, <1>8
    <2>3. Minus(d, p) = w /\ Minus(c, p) = w + 1
      BY <2>2 DEF Minus
    <2>4. Lower(d, p) = p /\ Lower(w, w) = w /\ Lower(w + 1, w) = w
      BY <2>2 DEF Lower
    <2>5. st.mappings = Planned
      BY <1>4, <2>4, ListsAll
    <2>6. st.poked = [j \in 1 .. w |-> ws[j]]
      BY <1>5, <2>3, <2>4
    <2>7. AfterProtect(st) = [mappings |-> Protected, poked |-> [j \in 1 .. w |-> ws[j]]]
      BY <2>5, <2>6 DEF AfterProtect, Protected
    <2>8. FrameAfter(ms, ws, c) = [mappings |-> Protected, poked |-> [j \in 1 .. w |-> ws[j]]]
      BY <1>8, <2>3, <2>4 DEF FrameAfter
    <2>9. QED
      BY <1>1, <1>2, <2>1, <2>7, <2>8
  <1>9. QED
    BY <1>6, <1>7, <1>8

-----------------------------------------------------------------------------
(* Which frame a step shows.                                                *)

\* A list of numbers in order is the only one.
LEMMA OneListOnly ==
    ASSUME NEW S \in SUBSET Nat, NEW s, NEW t, ListOf(s, S), ListOf(t, S),
           InOrder(s, NatOrder), InOrder(t, NatOrder)
    PROVE  s = t
  <1>1. PICK n \in Nat : Len(s) = n /\ Len(t) = n
    BY ListsAll
  <1>2. s \in Seq(Nat) /\ t \in Seq(Nat)
    <2>1. s \in Seq(S) /\ t \in Seq(S)
      BY DEF ListOf
    <2>2. QED
      BY <2>1, SeqOfMore
  <1>3. ASSUME NEW f, NEW g, ListOf(f, S), ListOf(g, S), InOrder(f, NatOrder), InOrder(g, NatOrder),
               Len(f) = n, Len(g) = n, NEW c \in 1 .. n, \A k \in 1 .. c - 1 : f[k] = g[k]
        PROVE  g[c] <= f[c]
    <2>1. PICK d \in 1 .. n : f[c] = g[d]
      <3>1. f[c] \in S
        BY <1>3 DEF ListOf
      <3>2. QED
        BY <1>3, <3>1 DEF ListOf
    <2>2. ~(d < c)
      <3>1. SUFFICES ASSUME d < c PROVE FALSE
        OBVIOUS
      <3>2. f[d] = f[c]
        BY <1>3, <2>1, <3>1
      <3>3. QED
        BY <1>3, <3>1, <3>2 DEF ListOf
    <2>3. <<g[c], g[d]>> \in NatOrder
      BY <1>3, <2>2 DEF InOrder
    <2>4. QED
      BY <2>1, <2>3 DEF NatOrder
  <1>4. PICK bad : bad = {k \in 1 .. n : s[k] # t[k]}
    OBVIOUS
  <1>5. bad = {}
    <2>1. SUFFICES ASSUME bad # {} PROVE FALSE
      OBVIOUS
    <2>2. PICK c \in bad : \A k \in bad : c <= k
      <3>1. bad \in SUBSET Nat
        BY <1>4
      <3>2. QED
        BY <2>1, <3>1, LeastOf
    <2>3. c \in 1 .. n /\ s[c] # t[c] /\ \A k \in 1 .. c - 1 : s[k] = t[k]
      BY <1>4, <2>2
    <2>4. s[c] <= t[c] /\ t[c] <= s[c]
      BY <1>1, <1>3, <2>3
    <2>5. s[c] \in Nat /\ t[c] \in Nat
      BY <1>1, <1>2, <2>3
    <2>6. QED
      BY <2>3, <2>4, <2>5
  <1>6. \A k \in 1 .. n : s[k] = t[k]
    BY <1>4, <1>5
  <1>7. QED
    BY <1>1, <1>2, <1>6

\* The steps with effects, in order, are where the list tells its effects.
LEMMA EffectPlaces ==
    ASSUME object \in Object, NEW E, NEW pos, NEW n \in Nat, NEW e \in Nat,
           Len(Steps) = n, DOMAIN Steps = 1 .. n, E \in Seq(Effects), Len(E) = e, Places(Steps, E, pos)
    PROVE  Ordered(EffectSteps, NatLeq) = pos
  <1>1. PICK Q : Q = Steps
    OBVIOUS
  <1>2. /\ pos \in [1 .. e -> 1 .. n]
        /\ \A a, b \in 1 .. e : a < b => pos[a] < pos[b]
        /\ \A a \in 1 .. e : Q[pos[a]].effect = E[a]
        /\ \A k \in 1 .. n : (\E a \in 1 .. e : pos[a] = k) \/ Q[k].effect[1] = "none"
    BY <1>1 DEF Places
  <1>3. \A x \in Effects : x[1] # "none"
    BY DEF Effects
  <1>4. \A a \in 1 .. e : E[a][1] # "none"
    BY <1>3
  <1>5. PICK S : S = EffectSteps
    OBVIOUS
  <1>6. S = {k \in 1 .. n : Q[k].effect[1] # "none"}
    BY <1>1, <1>5 DEF EffectSteps
  <1>7. S = {pos[a] : a \in 1 .. e}
    <2>1. ASSUME NEW a \in 1 .. e
          PROVE  pos[a] \in S
      BY <1>2, <1>4, <1>6
    <2>2. ASSUME NEW k \in S
          PROVE  \E a \in 1 .. e : pos[a] = k
      BY <1>2, <1>6
    <2>3. QED
      BY <2>1, <2>2
  <1>8. S \in SUBSET Nat /\ IsFiniteSet(S)
    <2>1. PICK D : D = 1 .. n /\ IsFiniteSet(D)
      BY FS_Interval
    <2>2. S \in SUBSET D
      BY <1>6, <2>1
    <2>3. QED
      BY <1>6, <2>1, <2>2, FS_Subset
  <1>9. pos \in Seq(S) /\ Len(pos) = e
    <2>1. DOMAIN pos = 1 .. e /\ \A a \in 1 .. e : pos[a] \in S
      BY <1>2, <1>7
    <2>2. pos = [a \in 1 .. e |-> pos[a]]
      BY <1>2
    <2>3. QED
      BY <2>1, <2>2
  <1>10. ListOf(pos, S)
    <2>1. \A x \in S : \E k \in 1 .. e : pos[k] = x
      BY <1>7
    <2>2. \A j, k \in 1 .. e : pos[j] = pos[k] => j = k
      <3> TAKE j, k \in 1 .. e
      <3>1. pos[j] \in Nat /\ pos[k] \in Nat
        BY <1>2
      <3>2. QED
        BY <1>2, <3>1
    <2>3. QED
      BY <1>9, <2>1, <2>2 DEF ListOf
  <1>11. InOrder(pos, NatOrder)
    <2> SUFFICES ASSUME NEW j \in 1 .. e, NEW k \in 1 .. e, j <= k
                 PROVE  <<pos[j], pos[k]>> \in NatOrder
      BY <1>9 DEF InOrder
    <2>1. pos[j] \in Nat /\ pos[k] \in Nat /\ pos[j] <= pos[k]
      BY <1>2, SMTT(60)
    <2>2. QED
      BY <2>1 DEF NatOrder
  <1>12. ListOf(Ordered(S, NatLeq), S) /\ InOrder(Ordered(S, NatLeq), NatOrder)
    BY <1>8, NumbersInOrder
  <1>13. Ordered(S, NatLeq) = pos
    BY <1>8, <1>10, <1>11, <1>12, OneListOnly
  <1>14. QED
    BY <1>5, <1>13

\* When the effects up to the c-th are played, the frame is that of c effects.
LEMMA FramesFollow ==
    ASSUME object \in Object, NEW p \in Nat, NEW w \in Nat, NEW ms, NEW ws,
           ListOf(ms, Planned), ListOf(ws, Written), Len(ms) = p, Len(ws) = w,
           NEW e \in Nat, e = p + w + (IF HasRelro THEN 1 ELSE 0), NEW E, Len(E) = e,
           \A k \in 1 .. e : E[k] = EffectOf(ms, ws, k),
           NEW Q, NEW n \in Nat, Len(Q) = n, NEW pos, Places(Q, E, pos),
           NEW h, NEW l \in 0 .. n, Plays(h, Q, l)
    PROVE  \A c \in 1 .. e : pos[c] = l => h[l] = FrameAfter(ms, ws, c)
  <1>1. /\ pos \in [1 .. e -> 1 .. n]
        /\ \A a, b \in 1 .. e : a < b => pos[a] < pos[b]
        /\ \A a \in 1 .. e : Q[pos[a]].effect = E[a]
        /\ \A k \in 1 .. n : (\E a \in 1 .. e : pos[a] = k) \/ Q[k].effect[1] = "none"
    BY DEF Places
  <1> DEFINE Between(c, k) == (c > 0 => pos[c] <= k) /\ (c < e => k < pos[c + 1])
             F(c) == FrameAfter(ms, ws, c)
  <1>2. PICK bad : bad = {k \in 0 .. l : \E c \in 0 .. e : Between(c, k) /\ h[k] # F(c)}
    OBVIOUS
  <1>3. bad = {}
    <2>1. SUFFICES ASSUME bad # {} PROVE FALSE
      OBVIOUS
    <2>2. PICK k \in bad : \A j \in bad : k <= j
      <3>1. bad \in SUBSET Nat
        BY <1>2
      <3>2. QED
        BY <2>1, <3>1, LeastOf
    <2>3. PICK c \in 0 .. e : Between(c, k) /\ h[k] # F(c)
      BY <1>2, <2>2
    <2>4. k \in 0 .. l
      BY <1>2, <2>2
    <2>5. CASE k = 0
      <3>1. c = 0
        <4>1. c > 0 => pos[c] \in 1 .. n
          BY <1>1
        <4>2. QED
          BY <2>3, <2>5, <4>1
      <3>2. F(0) = Nothing
        <4>1. Lower(0, p) = 0 /\ Minus(0, p) = 0 /\ Lower(0, w) = 0 /\ 0 <= p + w
          BY DEF Lower, Minus
        <4>2. F(0) = [mappings |-> {ms[j] : j \in 1 .. 0}, poked |-> [j \in 1 .. 0 |-> ws[j]]]
          BY <4>1 DEF FrameAfter
        <4>3. {ms[j] : j \in 1 .. 0} = {} /\ [j \in 1 .. 0 |-> ws[j]] = <<>>
          OBVIOUS
        <4>4. QED
          BY <4>2, <4>3 DEF Nothing
      <3>3. h[0] = Nothing
        BY DEF Plays
      <3>4. QED
        BY <2>3, <2>5, <3>1, <3>2, <3>3
    <2>6. CASE k # 0
      <3>1. k \in 1 .. l /\ k - 1 \in 0 .. l /\ k - 1 \notin bad /\ k \in 1 .. n
        BY <2>2, <2>4, <2>6
      <3>2. h[k] = Apply(h[k - 1], Q[k])
        BY <3>1 DEF Plays
      <3>3. \A d \in 0 .. e : Between(d, k - 1) => h[k - 1] = F(d)
        BY <1>2, <3>1
      <3>4. CASE \E a \in 1 .. e : pos[a] = k
        <4>1. PICK a \in 1 .. e : pos[a] = k
          BY <3>4
        <4>2. \A b \in 1 .. e : pos[b] \in Nat
          BY <1>1
        <4>3. c = a
          <5>1. ~(a < c)
            <6>1. SUFFICES ASSUME a < c PROVE FALSE
              OBVIOUS
            <6>2. c \in 1 .. e /\ pos[a] < pos[c] /\ pos[c] <= k
              BY <1>1, <2>3, <6>1
            <6>3. QED
              BY <4>1, <4>2, <6>2
          <5>2. ~(c < a)
            <6>1. SUFFICES ASSUME c < a PROVE FALSE
              OBVIOUS
            <6>2. c + 1 \in 1 .. e /\ k < pos[c + 1]
              BY <2>3, <6>1
            <6>3. c + 1 = a \/ pos[c + 1] < pos[a]
              BY <1>1, <6>1, <6>2
            <6>4. QED
              BY <4>1, <4>2, <6>2, <6>3
          <5>3. QED
            BY <5>1, <5>2
        <4>4. Between(c - 1, k - 1) /\ c - 1 \in 0 .. e
          <5>1. c - 1 > 0 => pos[c - 1] < pos[c]
            BY <1>1, <4>3
          <5>2. c \in 1 .. e /\ pos[c] = k /\ (c - 1) + 1 = c
            BY <4>1, <4>3
          <5>3. c - 1 > 0 => pos[c - 1] \in Nat
            BY <4>2, <5>2
          <5>4. QED
            BY <3>1, <5>1, <5>2, <5>3
        <4>5. h[k - 1] = F(c - 1)
          BY <3>3, <4>4
        <4>6. Q[k].effect = E[c]
          BY <1>1, <4>1, <4>3
        <4>7. PICK one : one = Q[k] /\ one.effect = EffectOf(ms, ws, c) /\ c \in 1 .. e
          BY <4>3, <4>6
        <4>8. Apply(FrameAfter(ms, ws, c - 1), one) = FrameAfter(ms, ws, c)
          BY <4>7, FrameGrows
        <4>9. QED
          BY <2>3, <3>2, <4>5, <4>7, <4>8
      <3>5. CASE ~ \E a \in 1 .. e : pos[a] = k
        <4>1. Q[k].effect[1] = "none"
          BY <1>1, <3>1, <3>5
        <4>2. Between(c, k - 1)
          <5>1. c > 0 => pos[c] # k /\ pos[c] \in Nat
            BY <1>1, <3>5
          <5>2. c < e => pos[c + 1] \in Nat
            BY <1>1
          <5>3. QED
            BY <2>3, <3>1, <5>1, <5>2
        <4>3. h[k - 1] = F(c)
          BY <3>3, <4>2
        <4>4. F(c) \in Frame
          BY FrameMade
        <4>5. QED
          BY <2>3, <3>2, <4>1, <4>3, <4>4, ApplyFacts
      <3>6. QED
        BY <3>4, <3>5
    <2>7. QED
      BY <2>5, <2>6
  <1>4. ASSUME NEW c \in 1 .. e, pos[c] = l
        PROVE  h[l] = F(c)
    <2>1. Between(c, l)
      <3>1. c < e => pos[c] < pos[c + 1]
        BY <1>1
      <3>2. pos[c] \in Nat
        BY <1>1
      <3>3. QED
        BY <1>4, <3>1, <3>2
    <2>2. l \notin bad /\ l \in 0 .. l /\ c \in 0 .. e
      BY <1>3
    <2>3. QED
      BY <1>2, <2>1, <2>2
  <1>5. QED
    BY <1>4

\* The frame that render_step shows for the step of the c-th effect.
LEMMA EffectsShown ==
    ASSUME object \in Object
    PROVE  \E ms, ws : /\ ListOf(ms, Planned) /\ InOrder(ms, KeyOrder)
                       /\ ListOf(ws, Written) /\ InOrder(ws, TableOrder)
                       /\ \A c \in 1 .. Len(ms) + Len(ws) + (IF HasRelro THEN 1 ELSE 0) :
                             RenderStep(Ordered(EffectSteps, NatLeq)[c] - 1) = FrameAfter(ms, ws, c)
  <1>1. PICK ms, ws : TellsTheLoad(ms, ws)
    BY StepsTell
  <1>2. /\ ListOf(ms, Planned) /\ InOrder(ms, KeyOrder)
        /\ ListOf(ws, Written) /\ InOrder(ws, TableOrder)
    BY <1>1 DEF TellsTheLoad
  <1>3. PICK p \in Nat, w \in Nat, e \in Nat :
            p = Len(ms) /\ w = Len(ws) /\ e = p + w + (IF HasRelro THEN 1 ELSE 0)
    <2>1. PICK p \in Nat, w \in Nat : p = Len(ms) /\ w = Len(ws)
      BY <1>2, ListsAll
    <2>2. p + w + (IF HasRelro THEN 1 ELSE 0) \in Nat
      OBVIOUS
    <2>3. QED
      BY <2>1, <2>2
  <1>4. PICK M, W, E : M = Mapped(ms) /\ W = Wrote(ws) /\ E = (M \o W) \o Sealing
    OBVIOUS
  <1>5. M \in Seq(Effects) /\ Len(M) = p /\ \A k \in 1 .. p : M[k] = <<"map", ms[k]>>
    <2>1. M = [k \in 1 .. p |-> <<"map", ms[k]>>]
      BY <1>2, <1>3, <1>4 DEF Mapped, ListOf
    <2>2. \A k \in 1 .. p : <<"map", ms[k]>> \in Effects
      BY <1>2, <1>3 DEF ListOf, Effects
    <2>3. QED
      BY <2>1, <2>2
  <1>6. W \in Seq(Effects) /\ Len(W) = w /\ \A k \in 1 .. w : W[k] = <<"write", ws[k]>>
    <2>1. W = [k \in 1 .. w |-> <<"write", ws[k]>>]
      BY <1>2, <1>3, <1>4 DEF Wrote, ListOf
    <2>2. \A k \in 1 .. w : ws[k] \in DOMAIN object.relocs
      <3>1. Written \subseteq DOMAIN object.relocs
        BY GroupFacts DEF Written
      <3>2. QED
        BY <1>2, <1>3, <3>1 DEF ListOf
    <2>3. \A k \in 1 .. w : <<"write", ws[k]>> \in Effects
      BY <2>2 DEF Effects
    <2>4. QED
      BY <2>1, <2>3
  <1>7. Len(E) = e /\ \A k \in 1 .. e : E[k] = EffectOf(ms, ws, k)
    <2>1. /\ Len(E) = e
          /\ \A k \in 1 .. p : E[k] = M[k]
          /\ \A k \in 1 .. w : E[p + k] = W[k]
          /\ HasRelro => E[p + w + 1] = <<"protect">>
      <3>1. E = (M \o W) \o Sealing
        BY <1>4
      <3>2. M \in Seq(Effects) /\ W \in Seq(Effects) /\ p = Len(M) /\ w = Len(W)
        BY <1>5, <1>6
      <3>3. Laid(E, M, W, p, w)
        BY <3>1, <3>2, EffectFacts
      <3>4. QED
        BY <1>3, <3>3 DEF Laid
    <2>2. ASSUME NEW k \in 1 .. e
          PROVE  E[k] = EffectOf(ms, ws, k)
      <3>1. CASE k <= p
        BY <1>3, <1>5, <2>1, <3>1 DEF EffectOf
      <3>2. CASE p < k /\ k <= p + w
        <4>1. k - p \in 1 .. w /\ p + (k - p) = k
          BY <1>3, <3>2
        <4>2. E[k] = <<"write", ws[k - p]>>
          BY <1>6, <2>1, <4>1
        <4>3. QED
          BY <1>3, <3>2, <4>2 DEF EffectOf
      <3>3. CASE p + w < k
        <4>1. HasRelro /\ k = p + w + 1
          BY <1>3, <3>3
        <4>2. QED
          BY <1>3, <2>1, <3>3, <4>1 DEF EffectOf
      <3>4. QED
        BY <1>3, <3>1, <3>2, <3>3
    <2>3. QED
      BY <2>1, <2>2
  <1>8. PICK Q, X, pos : Q = Steps /\ Q \in Seq(X) /\ E \in Seq(Effects) /\ Places(Q, E, pos)
    BY <1>1, <1>4 DEF TellsTheLoad, Tells
  <1>9. PICK n \in Nat : n = Len(Q) /\ DOMAIN Q = 1 .. n
    BY <1>8
  <1>10. Ordered(EffectSteps, NatLeq) = pos
    BY <1>7, <1>8, <1>9, EffectPlaces
  <1>11. ASSUME NEW c \in 1 .. e
         PROVE  RenderStep(pos[c] - 1) = FrameAfter(ms, ws, c)
    <2>1. PICK l \in 1 .. n : l = pos[c]
      BY <1>7, <1>8, <1>9 DEF Places
    <2>2. PICK P : /\ P = SubSeq(Q, 1, l) /\ DOMAIN P = 1 .. l
                   /\ \A k \in 1 .. l : P[k] = Q[k]
      <3>1. DOMAIN SubSeq(Q, 1, l) = 1 .. l /\ \A k \in 1 .. l : SubSeq(Q, 1, l)[k] = Q[k]
        BY <1>8, <1>9, <2>1
      <3>2. QED
        BY <3>1
    <2>3. RenderStep(l - 1) = SX!FoldLeft(Apply, Nothing, P)
      <3>1. Lower(l - 1, n - 1) = l - 1 /\ Lower((l - 1) + 1, n) = l
        BY <2>1 DEF Lower
      <3>2. RenderStep(l - 1) = StateAt(l - 1)
        BY <1>8, <1>9, <3>1 DEF RenderStep
      <3>3. StateAt(l - 1) = SX!FoldLeft(Apply, Nothing, SubSeq(Q, 1, Lower((l - 1) + 1, n)))
        BY <1>8, <1>9, Zenon DEF StateAt
      <3>4. QED
        BY <2>2, <3>1, <3>2, <3>3, Zenon
    <2>4. \A k \in 1 .. l : P[k].effect[1] = "none" \/ P[k].effect \in Effects
      <3> TAKE k \in 1 .. l
      <3>1. k \in 1 .. n /\ P[k] = Q[k]
        BY <2>1, <2>2
      <3>2. (\E a \in 1 .. e : pos[a] = k) \/ Q[k].effect[1] = "none"
        BY <1>7, <1>8, <1>9, <3>1 DEF Places
      <3>3. \A a \in 1 .. e : Q[pos[a]].effect = E[a] /\ E[a] \in Effects
        BY <1>7, <1>8 DEF Places
      <3>4. QED
        BY <3>1, <3>2, <3>3
    <2>5. PICK h : Plays(h, P, l) /\ h[l] = SX!FoldLeft(Apply, Nothing, P)
      <3>1. l \in Nat
        BY <2>1
      <3>2. \E h : Plays(h, P, l) /\ h[l] = SX!FoldLeft(Apply, Nothing, P)
        BY <2>2, <2>4, <3>1, PlayedStepByStep
      <3>3. QED
        BY <3>2, Zenon
    <2>6. Plays(h, Q, l) /\ l \in 0 .. n
      BY <2>1, <2>2, <2>5 DEF Plays
    <2>7. h[l] = FrameAfter(ms, ws, c)
      <3>1. ListOf(ms, Planned) /\ ListOf(ws, Written) /\ Len(ms) = p /\ Len(ws) = w
        BY <1>2, <1>3
      <3>2. e = p + w + (IF HasRelro THEN 1 ELSE 0) /\ Len(E) = e /\ Len(Q) = n
        BY <1>3, <1>7, <1>9
      <3>3. \A k \in 1 .. e : E[k] = EffectOf(ms, ws, k)
        BY <1>7
      <3>4. \A d \in 1 .. e : pos[d] = l => h[l] = FrameAfter(ms, ws, d)
        BY <1>8, <2>6, <3>1, <3>2, <3>3, FramesFollow, SMTT(60)
      <3>5. QED
        BY <2>1, <3>4
    <2>8. QED
      BY <2>1, <2>3, <2>5, <2>7
  <1>12. QED
    BY <1>2, <1>3, <1>10, <1>11

LEMMA ReplayIsRight ==
    ASSUME LoadInv, ProgressInv
    PROVE  ReplayIsTheLoad
  <1> DEFINE at == Ordered(EffectSteps, NatLeq)[Done] - 1
  <1> SUFFICES ASSUME Done > 0, stage = "kernel" => PagesApart
               PROVE  RenderStep(at).mappings = mappings /\ SX!ToSet(RenderStep(at).poked) = applied
    BY Zenon DEF ReplayIsTheLoad
  <1>1. /\ object \in Object /\ stage \in {"kernel", "relocate", "init", "entered"}
        /\ stage = "kernel" => mappings \subseteq Planned /\ applied = {}
        /\ stage = "relocate" => mappings = Planned
        /\ stage \in {"init", "entered"} => mappings = Final
    BY DEF LoadInv, TypeOK, MappingsInv, ProgressInv
  <1>2. PICK ms, ws : /\ ListOf(ms, Planned) /\ InOrder(ms, KeyOrder)
                      /\ ListOf(ws, Written) /\ InOrder(ws, TableOrder)
                      /\ \A c \in 1 .. Len(ms) + Len(ws) + (IF HasRelro THEN 1 ELSE 0) :
                            RenderStep(Ordered(EffectSteps, NatLeq)[c] - 1) = FrameAfter(ms, ws, c)
    BY <1>1, EffectsShown
  <1>3. PICK p \in Nat, w \in Nat :
            /\ p = Len(ms) /\ w = Len(ws)
            /\ Cardinality(Planned) = p /\ Planned = {ms[j] : j \in 1 .. p}
            /\ Cardinality(Written) = w /\ Written = {ws[j] : j \in 1 .. w}
    BY <1>2, ListsAll
  <1>4. PICK b \in 0 .. w : b = Cardinality(applied) /\ applied = {ws[j] : j \in 1 .. b}
    <2>1. /\ applied \in SUBSET Written
          /\ \A x \in applied : \A y \in Written \ applied : <<y, x>> \notin TableOrder
      BY DEF ProgressInv
    <2>2. Cardinality(applied) \in 0 .. w /\ applied = {ws[j] : j \in 1 .. Cardinality(applied)}
      BY <1>2, <1>3, <2>1, PrefixIs
    <2>3. QED
      BY <2>2
  <1>5. PICK c \in Nat, x \in Nat, y \in Nat :
            /\ c = Done /\ c = x + b + y
            /\ x = Cardinality(IF stage = "kernel" THEN mappings ELSE Planned)
            /\ y = IF stage \in {"init", "entered"} /\ HasRelro THEN 1 ELSE 0
    <2>1. PICK x : x = Cardinality(IF stage = "kernel" THEN mappings ELSE Planned)
      OBVIOUS
    <2>2. PICK y \in Nat : y = IF stage \in {"init", "entered"} /\ HasRelro THEN 1 ELSE 0
      OBVIOUS
    <2>3. x \in Nat
      <3>1. CASE stage = "kernel"
        <4>1. mappings \in SUBSET Planned /\ IsFiniteSet(Planned)
          BY <1>1, <3>1, PlannedIsFinite
        <4>2. IsFiniteSet(mappings)
          BY <4>1, FS_Subset
        <4>3. QED
          BY <2>1, <3>1, <4>2, FS_CardinalityType
      <3>2. CASE stage # "kernel"
        BY <1>3, <2>1, <3>2
      <3>3. QED
        BY <3>1, <3>2
    <2>4. Done = x + b + y
      BY <1>4, <2>1, <2>2 DEF Done
    <2>5. x + b + y \in Nat
      BY <2>2, <2>3
    <2>6. QED
      BY <2>1, <2>2, <2>3, <2>4, <2>5
  <1>6. SUFFICES /\ c \in 1 .. p + w + (IF HasRelro THEN 1 ELSE 0)
                 /\ FrameAfter(ms, ws, c).mappings = mappings
                 /\ SX!ToSet(FrameAfter(ms, ws, c).poked) = applied
    BY <1>2, <1>3, <1>5
  <1>7. \A d \in 0 .. w : SX!ToSet([j \in 1 .. d |-> ws[j]]) = {ws[j] : j \in 1 .. d}
    BY DEF SX!ToSet
  <1>8. CASE stage = "kernel"
    <2>1. /\ mappings \in SUBSET Planned /\ applied = {}
          /\ \A m \in mappings : \A n \in Planned \ mappings : <<n, m>> \notin KeyOrder
      <3>1. ASSUME NEW m \in mappings, NEW n \in Planned \ mappings, <<n, m>> \in KeyOrder
            PROVE  FALSE
        <4>1. KeyLeq(m, n) /\ KeyLeq(n, m) /\ m \in Planned
          BY <1>1, <1>8, <3>1 DEF ProgressInv, KeyOrder
        <4>2. m = n
          BY <1>1, <1>8, <4>1, KeysDiffer
        <4>3. QED
          BY <4>2
      <3>2. QED
        BY <1>1, <1>8, <3>1
    <2>2. /\ Cardinality(mappings) \in 0 .. p
          /\ mappings = {ms[j] : j \in 1 .. Cardinality(mappings)}
      <3>1. PICK A : A = mappings
        OBVIOUS
      <3>2. A \in SUBSET Planned /\ \A m \in A : \A n \in Planned \ A : <<n, m>> \notin KeyOrder
        BY <2>1, <3>1
      <3>3. Cardinality(A) \in 0 .. p /\ A = {ms[j] : j \in 1 .. Cardinality(A)}
        <4>1. PICK S : S = Planned
          OBVIOUS
        <4>2. /\ ListOf(ms, S) /\ InOrder(ms, KeyOrder) /\ A \in SUBSET S
              /\ \A z \in A : \A v \in S \ A : <<v, z>> \notin KeyOrder
          BY <1>2, <3>2, <4>1
        <4>3. Cardinality(A) \in 0 .. Len(ms) /\ A = {ms[j] : j \in 1 .. Cardinality(A)}
          BY <4>2, PrefixIs
        <4>4. QED
          BY <1>3, <4>3
      <3>4. QED
        BY <3>1, <3>3
    <2>3. c = Cardinality(mappings)
      <3>1. Cardinality({}) = 0
        BY FS_EmptySet
      <3>2. b = 0 /\ y = 0 /\ x = Cardinality(mappings)
        BY <1>4, <1>5, <1>8, <2>1, <3>1
      <3>3. QED
        BY <1>5, <3>2
    <2>4. c \in 1 .. p
      BY <1>5, <2>2, <2>3
    <2>5. Lower(c, p) = c /\ Minus(c, p) = 0 /\ Lower(0, w) = 0
      BY <2>4 DEF Lower, Minus
    <2>6. FrameAfter(ms, ws, c) = [mappings |-> {ms[j] : j \in 1 .. c}, poked |-> [j \in 1 .. 0 |-> ws[j]]]
      <3>1. c <= p + w
        BY <2>4
      <3>2. QED
        BY <1>3, <2>5, <3>1 DEF FrameAfter
    <2>7. SX!ToSet([j \in 1 .. 0 |-> ws[j]]) = {}
      BY DEF SX!ToSet
    <2>8. QED
      BY <2>1, <2>2, <2>3, <2>4, <2>6, <2>7
  <1>9. CASE stage = "relocate"
    <2>1. c = p + b
      <3>1. x = p /\ y = 0
        BY <1>3, <1>5, <1>9
      <3>2. QED
        BY <1>5, <3>1
    <2>2. c \in 1 .. p + w
      BY <1>5, <2>1
    <2>3. Lower(c, p) = p /\ Minus(c, p) = b /\ Lower(b, w) = b
      BY <2>1 DEF Lower, Minus
    <2>4. FrameAfter(ms, ws, c) = [mappings |-> {ms[j] : j \in 1 .. p}, poked |-> [j \in 1 .. b |-> ws[j]]]
      BY <1>3, <2>2, <2>3 DEF FrameAfter
    <2>5. FrameAfter(ms, ws, c).mappings = mappings
      BY <1>1, <1>3, <1>9, <2>4
    <2>6. SX!ToSet(FrameAfter(ms, ws, c).poked) = applied
      <3>1. FrameAfter(ms, ws, c).poked = [j \in 1 .. b |-> ws[j]]
        BY <2>4
      <3>2. SX!ToSet([j \in 1 .. b |-> ws[j]]) = applied
        BY <1>4, <1>7
      <3>3. QED
        BY <3>1, <3>2
    <2>7. QED
      BY <2>2, <2>5, <2>6
  <1>10. CASE stage \in {"init", "entered"}
    <2>1. applied = Written
      <3>1. \A t \in 1 .. 4 : Group(t) \subseteq applied
        BY <1>10, TablesLength DEF LoadInv, TablesInv
      <3>2. QED
        BY <3>1 DEF Written, ProgressInv
    <2>2. b = w
      BY <1>3, <1>4, <2>1
    <2>3. c = p + w + (IF HasRelro THEN 1 ELSE 0)
      <3>1. x = p /\ y = IF HasRelro THEN 1 ELSE 0
        BY <1>3, <1>5, <1>10
      <3>2. QED
        BY <1>5, <2>2, <3>1
    <2>4. Lower(c, p) = p /\ Lower(Minus(c, p), w) = w
      <3>1. Minus(c, p) = w + (IF HasRelro THEN 1 ELSE 0)
        BY <2>3 DEF Minus
      <3>2. Lower(w + (IF HasRelro THEN 1 ELSE 0), w) = w /\ Lower(c, p) = p
        BY <2>3 DEF Lower
      <3>3. QED
        BY <3>1, <3>2
    <2>5. FrameAfter(ms, ws, c) =
             [mappings |-> IF HasRelro THEN Protected ELSE {ms[j] : j \in 1 .. p},
              poked |-> [j \in 1 .. w |-> ws[j]]]
      <3>1. c <= p + w <=> ~HasRelro
        BY <2>3
      <3>2. QED
        BY <1>3, <2>4, <3>1 DEF FrameAfter
    <2>6. c \in 1 .. p + w + (IF HasRelro THEN 1 ELSE 0)
      BY <1>5, <2>3
    <2>7. QED
      BY <1>1, <1>3, <1>7, <1>10, <2>1, <2>5, <2>6, SMTT(60) DEF Final
  <1>11. QED
    BY <1>1, <1>8, <1>9, <1>10

\* The player (Session::render_step over Timeline::state_at): the frame of a step
\* that has an effect is the memory that the load has once as many effects are
\* done, whatever the object and however the steps are jumped to.
THEOREM FramesAreTheLoad == Spec => []ReplayIsTheLoad
  <1>1. Init => LoadInv /\ ProgressInv
    BY InitLoadInv, InitProgressInv
  <1>2. (LoadInv /\ ProgressInv) /\ [Next]_vars => (LoadInv /\ ProgressInv)'
    BY NextLoadInv, NextProgressInv
  <1>3. LoadInv /\ ProgressInv => ReplayIsTheLoad
    BY ReplayIsRight
  <1>4. QED
    BY <1>1, <1>2, <1>3, PTL DEF Spec

-----------------------------------------------------------------------------
(* Who writes a byte of the file.                                           *)

\* vaddr_of answers with the segment whose byte it is.
LEMMA OwnerAnswers ==
    ASSUME object \in Object, FileRangesApart, NotCongruent = {}, NEW i \in Loads(Segs), NEW off \in Nat,
           Segs[i].offset <= off, off < Segs[i].offset + Segs[i].filesz, off < object.fileLen
    PROVE  Segs[i].vaddr + (off - Segs[i].offset) \in VaddrOf(R, off)
  <1>1. PICK s, r : s = Segs[i] /\ r = Resident(s, object.fileLen, i)
    OBVIOUS
  <1>2. /\ s.offset \in Nat /\ s.vaddr \in Nat /\ s.filesz \in Nat /\ s.memsz \in Nat
        /\ object.fileLen \in Nat /\ i \in DOMAIN Segs
    BY <1>1, SegmentFields DEF Loads, Segs, Object
  <1>3. s.filesz > 0 /\ s.offset % Page = s.vaddr % Page
    <2>1. s.filesz > 0
      BY <1>1, <1>2
    <2>2. QED
      BY <1>1, <2>1 DEF NotCongruent
  <1>4. /\ r.start = PageDown(s.offset) /\ r.end = ResidentEnd(s, object.fileLen)
        /\ r.exactStart = s.offset /\ r.exactEnd = s.offset + s.filesz
        /\ r.vaddr = Minus(s.vaddr, s.offset % Page)
    BY <1>1 DEF Resident
  <1>5. PageDown(s.offset) \in Nat /\ PageDown(s.offset) <= s.offset
    BY <1>2, PageDownFacts
  <1>6. r.end \in Nat /\ off < r.end
    <2>1. PICK exact \in Nat : exact = s.offset + s.filesz
      BY <1>2
    <2>2. exact + Page - 1 \in Nat /\ Page \in Nat \ {0}
      BY <1>2, <2>1, PageAssumption
    <2>3. PageUp(exact) \in Nat /\ exact <= PageUp(exact)
      <3>1. PageDown(exact + Page - 1) \in Nat /\ exact + Page - 1 < PageDown(exact + Page - 1) + Page
        BY <2>2, PageDownFacts
      <3>2. QED
        BY <2>1, <2>2, <3>1 DEF PageUp
    <2>4. PICK hi \in Nat : hi = (IF s.memsz > s.filesz THEN exact ELSE PageUp(exact)) /\ exact <= hi
      BY <2>1, <2>3
    <2>5. ResidentEnd(s, object.fileLen) = Lower(hi, object.fileLen)
      BY <2>1, <2>4 DEF ResidentEnd
    <2>6. off < hi
      BY <1>1, <2>1, <2>4
    <2>7. QED
      BY <1>2, <1>4, <2>4, <2>5, <2>6 DEF Lower
  <1>7. PICK owners : owners = {q \in R : q.exactStart <= off /\ off < q.exactEnd}
    OBVIOUS
  <1>8. r \in owners
    <2>1. r.start < r.end
      BY <1>1, <1>4, <1>5, <1>6, <1>2
    <2>2. r \in R
      BY <1>1, <2>1 DEF R, Residents, Segs
    <2>3. QED
      BY <1>1, <1>4, <1>7, <2>2
  <1>9. \A q \in owners : q = r
    <2> TAKE q \in owners
    <2>1. PICK j \in Loads(Segs) : q = Resident(Segs[j], object.fileLen, j)
      BY <1>7 DEF R, Residents, Segs
    <2>2. Segs[j].offset <= off /\ off < Segs[j].offset + Segs[j].filesz
      BY <1>7, <2>1 DEF Resident
    <2>3. Segs[j].offset \in Nat /\ Segs[j].filesz \in Nat
      BY SegmentFields DEF Loads, Segs
    <2>4. i = j
      <3>1. SUFFICES ASSUME i # j PROVE FALSE
        OBVIOUS
      <3>2. \/ Segs[i].offset + Segs[i].filesz <= Segs[j].offset
            \/ Segs[j].offset + Segs[j].filesz <= Segs[i].offset
        BY <3>1 DEF FileRangesApart
      <3>3. QED
        BY <1>1, <1>2, <2>2, <2>3, <3>2
    <2>5. QED
      BY <1>1, <2>1, <2>4
  <1>10. r \in FirstOf(owners)
    BY <1>6, <1>8, <1>9 DEF FirstOf
  <1>11. r.vaddr + (off - r.start) \in VaddrOf(R, off)
    BY <1>7, <1>8, <1>10 DEF VaddrOf
  <1>12. r.vaddr + (off - r.start) = s.vaddr + (off - s.offset)
    <2>1. PICK k \in Nat : k = s.offset % Page /\ k = s.vaddr % Page
      BY <1>2, <1>3, PageAssumption
    <2>2. PageDown(s.offset) = s.offset - k /\ PageDown(s.vaddr) = s.vaddr - k
      BY <2>1 DEF PageDown
    <2>3. s.vaddr - k \in Nat
      BY <1>2, <2>2, PageDownFacts
    <2>4. r.vaddr = s.vaddr - k
      BY <1>2, <1>4, <2>1, <2>3 DEF Minus
    <2>5. QED
      BY <1>2, <1>4, <2>2, <2>4
  <1>13. QED
    BY <1>1, <1>11, <1>12

\* Every relocation that is written during startup has a step that says so.
LEMMA WriterHasStep ==
    ASSUME object \in Object, NEW k \in Written
    PROVE  \E n \in DOMAIN Steps : n \in Nat /\ Steps[n].effect = <<"write", k>>
  <1>1. PICK ms, ws : TellsTheLoad(ms, ws)
    BY StepsTell
  <1>2. ListOf(ms, Planned) /\ ListOf(ws, Written)
    BY <1>1 DEF TellsTheLoad
  <1>3. PICK p \in Nat, w \in Nat : p = Len(ms) /\ w = Len(ws)
    BY <1>2, ListsAll
  <1>4. PICK j \in 1 .. w : ws[j] = k
    BY <1>2, <1>3 DEF ListOf
  <1>5. PICK M, W, E : M = Mapped(ms) /\ W = Wrote(ws) /\ E = (M \o W) \o Sealing
    OBVIOUS
  <1>6. M \in Seq(Effects) /\ Len(M) = p
    <2>1. M = [a \in 1 .. p |-> <<"map", ms[a]>>]
      BY <1>2, <1>3, <1>5 DEF Mapped, ListOf
    <2>2. \A a \in 1 .. p : <<"map", ms[a]>> \in Effects
      BY <1>2, <1>3 DEF ListOf, Effects
    <2>3. QED
      BY <2>1, <2>2
  <1>7. W \in Seq(Effects) /\ Len(W) = w /\ W[j] = <<"write", k>>
    <2>1. W = [a \in 1 .. w |-> <<"write", ws[a]>>]
      BY <1>2, <1>3, <1>5 DEF Wrote, ListOf
    <2>2. \A a \in 1 .. w : ws[a] \in DOMAIN object.relocs
      <3>1. Written \subseteq DOMAIN object.relocs
        BY GroupFacts DEF Written
      <3>2. QED
        BY <1>2, <1>3, <3>1 DEF ListOf
    <2>3. \A a \in 1 .. w : <<"write", ws[a]>> \in Effects
      BY <2>2 DEF Effects
    <2>4. QED
      BY <1>4, <2>1, <2>3
  <1>8. Laid(E, M, W, p, w)
    <2>1. /\ E = (M \o W) \o Sealing /\ p = Len(M) /\ w = Len(W)
          /\ M \in Seq(Effects) /\ W \in Seq(Effects)
      BY <1>5, <1>6, <1>7
    <2>2. QED
      BY <2>1, EffectFacts
  <1>9. p + j \in 1 .. Len(E) /\ E[p + j] = <<"write", k>>
    BY <1>4, <1>7, <1>8 DEF Laid
  <1>10. PICK Q, X, pos : Q = Steps /\ Q \in Seq(X) /\ Places(Q, E, pos)
    BY <1>1, <1>5 DEF TellsTheLoad, Tells
  <1>11. PICK n : n = pos[p + j] /\ n \in 1 .. Len(Q) /\ Q[n].effect = <<"write", k>>
    BY <1>9, <1>10 DEF Places
  <1>12. n \in DOMAIN Q /\ n \in Nat
    BY <1>10, <1>11
  <1>13. QED
    BY <1>10, <1>11, <1>12

LEMMA WritersFound ==
    ASSUME LoadInv, ProgressInv
    PROVE  WritersAreFound
  <1> SUFFICES ASSUME stage = "entered", FileRangesApart, NotCongruent = {},
                      NEW k \in applied, NEW off \in Overwritten(k, 1)
               PROVE  WriteNumber(k) \in TouchedBy(off)
    BY DEF WritersAreFound
  <1>1. object \in Object /\ k \in DOMAIN object.relocs /\ k \in Written
    BY DEF LoadInv, TypeOK, ProgressInv
  <1>2. PICK o \in Nat : o = object.relocs[k].offset
    <2>1. PICK relocs : relocs = object.relocs /\ relocs \in Seq(Reloc)
      BY <1>1 DEF Object
    <2>2. relocs[k] \in Reloc
      BY <1>1, <2>1
    <2>3. relocs[k].offset \in Nat
      BY <2>2 DEF Reloc
    <2>4. QED
      BY <2>1, <2>3
  <1>3. PICK m \in Planned : m.source = "file" /\ off \in OverwrittenIn(m, k, 1)
    BY DEF Overwritten
  <1>4. /\ m.vaddr \in Nat /\ m.len \in Nat /\ m.offset \in Nat /\ End(m) = m.vaddr + m.len
    BY <1>1, PlannedFacts, MappingFields
  <1>5. /\ off = m.offset + (o - m.vaddr) /\ m.vaddr <= o /\ o < m.vaddr + m.len
        /\ off < object.fileLen
    <2>1. PICK a \in m.vaddr .. (End(m) - 1) : /\ off = m.offset + (a - m.vaddr)
                                               /\ o <= a /\ a < o + 1
      BY <1>2, <1>3 DEF OverwrittenIn
    <2>2. a = o
      BY <1>2, <1>4, <2>1
    <2>3. QED
      BY <1>4, <2>1, <2>2 DEF Overwritten
  <1>6. PICK i \in Loads(Segs) :
            Segs[i].vaddr = m.vaddr /\ Segs[i].filesz = m.len /\ Segs[i].offset = m.offset
    BY <1>1, <1>3, PlannedFacts DEF IsFilePart, IsZeroPart, Segs
  <1>7. off \in Nat
    BY <1>2, <1>4, <1>5
  <1>8. Segs[i].vaddr + (off - Segs[i].offset) \in VaddrOf(R, off)
    <2>1. Segs[i].offset <= off /\ off < Segs[i].offset + Segs[i].filesz
      BY <1>2, <1>4, <1>5, <1>6
    <2>2. QED
      BY <1>1, <1>5, <1>7, <2>1, OwnerAnswers
  <1>9. o \in VaddrOf(R, off)
    BY <1>2, <1>4, <1>5, <1>6, <1>8
  <1>10. PICK n : n = (CHOOSE d \in DOMAIN Steps : Steps[d].effect = <<"write", k>>)
    OBVIOUS
  <1>11. n \in DOMAIN Steps /\ Steps[n].effect = <<"write", k>>
    <2>1. \E j \in DOMAIN Steps : Steps[j].effect = <<"write", k>>
      BY <1>1, WriterHasStep
    <2>2. QED
      BY <1>10, <2>1, Zenon
  <1>12. WritesAt(Steps[n], o)
    <2>1. PICK one : one = Steps[n]
      OBVIOUS
    <2>2. one.effect[1] = "write" /\ one.effect[2] = k
      BY <1>11, <2>1
    <2>3. QED
      BY <1>2, <2>1, <2>2 DEF WritesAt
  <1>13. n - 1 \in TouchedBy(off)
    BY <1>9, <1>11, <1>12 DEF TouchedBy
  <1>14. WriteNumber(k) = n - 1
    BY <1>10, Zenon DEF WriteNumber
  <1>15. QED
    BY <1>13, <1>14

\* inspect: asked about the first byte that a relocation overwrites, the session
\* names the step that writes it - also where two segments share the page.
THEOREM WritersAreNamed == Spec => []WritersAreFound
  <1>1. Init => LoadInv /\ ProgressInv
    BY InitLoadInv, InitProgressInv
  <1>2. (LoadInv /\ ProgressInv) /\ [Next]_vars => (LoadInv /\ ProgressInv)'
    BY NextLoadInv, NextProgressInv
  <1>3. LoadInv /\ ProgressInv => WritersAreFound
    BY WritersFound
  <1>4. QED
    BY <1>1, <1>2, <1>3, PTL DEF Spec

-----------------------------------------------------------------------------
(* Resident bytes.                                                         *)

\* A finite set of ranges of the first n bytes, none of them empty.
Ranges(S, n) ==
    /\ IsFiniteSet(S) /\ n \in Nat
    /\ \A r \in S : r.start \in Nat /\ r.end \in Nat /\ r.start < r.end /\ r.end <= n

\* The bytes of them from the cursor on.
Covers(r, off) == r.start <= off /\ off < r.end
Covered(S, cursor, n) == {off \in 0 .. n - 1 : cursor <= off /\ \E r \in S : Covers(r, off)}

LEMMA ResidentsAreRanges ==
    ASSUME object \in Object
    PROVE  Ranges(R, object.fileLen)
  <1>1. object.segments \in Seq(Segment) /\ object.fileLen \in Nat
    BY DEF Object
  <1>2. PICK n \in Nat : DOMAIN object.segments = 1 .. n
    BY <1>1
  <1>3. PICK L : L = Loads(object.segments) /\ IsFiniteSet(L)
    <2>1. IsFiniteSet(1 .. n)
      BY FS_Interval
    <2>2. Loads(object.segments) \in SUBSET (1 .. n)
      BY <1>2 DEF Loads
    <2>3. QED
      BY <2>1, <2>2, FS_Subset
  <1>4. PICK A : A = {Resident(object.segments[i], object.fileLen, i) : i \in L}
    OBVIOUS
  <1>5. IsFiniteSet(A)
    <2>1. PICK f : f = [i \in L |-> Resident(object.segments[i], object.fileLen, i)]
      OBVIOUS
    <2>2. f \in Surjection(L, A)
      BY <1>4, <2>1 DEF Surjection
    <2>3. QED
      BY <1>3, <2>2, FS_Surjection
  <1>6. R = {r \in A : r.start < r.end}
    BY <1>3, <1>4 DEF R, Residents
  <1>7. IsFiniteSet(R)
    <2>1. PICK B : B = {r \in A : r.start < r.end}
      OBVIOUS
    <2>2. IsFiniteSet(B)
      BY <1>5, <2>1, FS_Subset
    <2>3. QED
      BY <1>6, <2>1, <2>2
  <1>8. ASSUME NEW r \in R
        PROVE  r.start \in Nat /\ r.end \in Nat /\ r.start < r.end /\ r.end <= object.fileLen
    <2>1. PICK i \in L : r = Resident(object.segments[i], object.fileLen, i) /\ r.start < r.end
      BY <1>4, <1>6
    <2>2. PICK s, len : s = object.segments[i] /\ len = object.fileLen /\ len \in Nat
      BY <1>1
    <2>3. s.offset \in Nat /\ s.filesz \in Nat /\ s.memsz \in Nat
      BY <1>3, <2>1, <2>2, SegmentFields DEF Loads
    <2>4. r.start = PageDown(s.offset) /\ r.end = ResidentEnd(s, len)
      BY <2>1, <2>2 DEF Resident
    <2>5. r.start \in Nat
      BY <2>3, <2>4, PageDownFacts
    <2>6. PICK exact \in Nat : exact = s.offset + s.filesz
      BY <2>3
    <2>7. PageUp(exact) \in Nat
      <3>1. exact + Page - 1 \in Nat
        BY <2>6, PageAssumption
      <3>2. QED
        BY <3>1, PageDownFacts DEF PageUp
    <2>8. PICK hi \in Nat : hi = (IF s.memsz > s.filesz THEN exact ELSE PageUp(exact))
      BY <2>6, <2>7
    <2>9. ResidentEnd(s, len) = Lower(hi, len)
      BY <2>6, <2>8 DEF ResidentEnd
    <2>10. Lower(hi, len) \in Nat /\ Lower(hi, len) <= len
      BY <2>2 DEF Lower
    <2>11. QED
      BY <2>1, <2>2, <2>4, <2>5, <2>9, <2>10
  <1>9. QED
    BY <1>1, <1>7, <1>8 DEF Ranges

\* There is a first range.
LEMMA FirstOfRanges ==
    ASSUME NEW S, NEW n, Ranges(S, n), S # {}
    PROVE  \E r : r \in FirstOf(S)
  <1> DEFINE leq == {p \in S \X S : \/ p[1].start < p[2].start
                                    \/ p[1].start = p[2].start /\ p[1].end <= p[2].end}
  <1>1. \A x, y \in S : <<x, y>> \in leq <=> (x.start < y.start \/ (x.start = y.start /\ x.end <= y.end))
    OBVIOUS
  <1> HIDE DEF leq
  <1>2. \A x \in S : x.start \in Nat /\ x.end \in Nat
    BY DEF Ranges
  <1>3. ASSUME NEW x \in S, NEW y \in S PROVE <<x, y>> \in leq \/ <<y, x>> \in leq
    <2>1. x.start \in Nat /\ x.end \in Nat /\ y.start \in Nat /\ y.end \in Nat
      BY <1>2
    <2>2. QED
      BY <1>1, <2>1
  <1>4. ASSUME NEW x \in S, NEW y \in S, NEW z \in S, <<x, y>> \in leq, <<y, z>> \in leq
        PROVE  <<x, z>> \in leq
    BY <1>1, <1>2, <1>4
  <1>5. IsOrder(leq, S)
    BY <1>3, <1>4 DEF IsOrder
  <1>6. PICK x \in S : \A y \in S : <<x, y>> \in leq
    BY <1>5, FirstExists DEF Ranges
  <1>7. QED
    BY <1>1, <1>6 DEF FirstOf

LEMMA FirstInFacts ==
    ASSUME NEW S, NEW n, Ranges(S, n), S # {}
    PROVE  FirstIn(S) \in S /\ \A q \in S : FirstIn(S).start <= q.start
  <1>1. FirstIn(S) \in FirstOf(S)
    BY FirstOfRanges DEF FirstIn
  <1>2. QED
    BY <1>1 DEF FirstOf, Ranges

LEMMA FewerRanges ==
    ASSUME NEW S, NEW n, Ranges(S, n), NEW T \in SUBSET S
    PROVE  Ranges(T, n)
  BY FS_Subset DEF Ranges

\* One range: what it adds to what the others have behind it.
StartsFirst(r, S) == r \in S /\ \A q \in S : r.start <= q.start
Adds(r, S, cursor, n) ==
    /\ Moved(r, cursor) \in Nat /\ Counted(r, cursor) \in Nat
    /\ Cardinality(Covered(S, cursor, n)) =
          Counted(r, cursor) + Cardinality(Covered(S \ {r}, Moved(r, cursor), n))

LEMMA OneMoreRange ==
    ASSUME NEW S, NEW n, Ranges(S, n), NEW r, StartsFirst(r, S), NEW cursor \in Nat
    PROVE  Adds(r, S, cursor, n)
  <1>1. PICK lo \in Nat, hi \in Nat : lo = r.start /\ hi = r.end /\ lo < hi /\ hi <= n
    BY DEF Ranges, StartsFirst
  <1>2. PICK from \in Nat : from = Higher(r.start, cursor) /\ lo <= from /\ cursor <= from
                             /\ (from = lo \/ from = cursor)
    BY <1>1 DEF Higher
  <1>3. n \in Nat
    BY DEF Ranges
  <1>4. CASE hi > from
    <2>1. Moved(r, cursor) = hi /\ Counted(r, cursor) = hi - from
      BY <1>1, <1>2, <1>4 DEF Moved, Counted, Minus
    <2>2. PICK A, B : A = from .. hi - 1 /\ B = Covered(S \ {r}, hi, n)
      OBVIOUS
    <2>3. IsFiniteSet(A) /\ Cardinality(A) = hi - from
      <3>1. PICK a \in Int, b \in Int : a = from /\ b = hi - 1
        BY <1>1
      <3>2. IsFiniteSet(a .. b) /\ Cardinality(a .. b) = IF a > b THEN 0 ELSE b - a + 1
        BY FS_Interval
      <3>3. QED
        BY <1>4, <2>2, <3>1, <3>2
    <2>4. IsFiniteSet(B) /\ Cardinality(B) \in Nat
      <3>1. PICK b \in Int : b = n - 1
        BY <1>3
      <3>2. PICK J : J = 0 .. b
        OBVIOUS
      <3>3. IsFiniteSet(J)
        BY <3>1, <3>2, FS_Interval
      <3>4. B \in SUBSET J
        BY <2>2, <3>1, <3>2 DEF Covered
      <3>5. QED
        BY <3>3, <3>4, FS_Subset, FS_CardinalityType
    <2>5. Covered(S, cursor, n) = A \cup B
      <3>1. ASSUME NEW off \in Covered(S, cursor, n) PROVE off \in A \cup B
        <4>1. PICK q \in S : q.start <= off /\ off < q.end
          BY <3>1 DEF Covered, Covers
        <4>2. off \in Nat /\ cursor <= off /\ off \in 0 .. n - 1
          BY <3>1, <1>3 DEF Covered
        <4>3. lo <= off
          BY <1>1, <4>1, <4>2 DEF Ranges, StartsFirst
        <4>4. CASE off < hi
          BY <1>1, <1>2, <2>2, <4>2, <4>3, <4>4
        <4>5. CASE ~(off < hi)
          <5>1. q # r /\ hi <= off
            BY <1>1, <4>1, <4>2, <4>5
          <5>2. QED
            BY <2>2, <4>1, <4>2, <5>1 DEF Covered, Covers
        <4>6. QED
          BY <4>4, <4>5
      <3>2. ASSUME NEW off \in A PROVE off \in Covered(S, cursor, n)
        <4>1. off \in 0 .. n - 1 /\ cursor <= off /\ r.start <= off /\ off < r.end
          BY <1>1, <1>2, <1>3, <2>2, <3>2
        <4>2. QED
          BY <4>1 DEF Covered, Covers, StartsFirst
      <3>3. ASSUME NEW off \in B PROVE off \in Covered(S, cursor, n)
        <4>1. off \in 0 .. n - 1 /\ hi <= off /\ \E q \in S \ {r} : Covers(q, off)
          BY <2>2, <3>3 DEF Covered
        <4>2. cursor <= off
          BY <1>1, <1>2, <1>3, <1>4, <4>1
        <4>3. QED
          BY <4>1, <4>2 DEF Covered
      <3>4. QED
        BY <3>1, <3>2, <3>3
    <2>6. A \cap B = {}
      BY <1>1, <1>3, <2>2 DEF Covered
    <2>7. Cardinality(A \cup B) = Cardinality(A) + Cardinality(B) - Cardinality(A \cap B)
          /\ Cardinality(A \cap B) = 0
      BY <2>3, <2>4, <2>6, FS_Union, FS_EmptySet
    <2>8. Cardinality(A \cup B) = (hi - from) + Cardinality(B)
      BY <1>1, <1>2, <2>3, <2>4, <2>7
    <2>9. QED
      BY <1>1, <1>2, <1>4, <2>1, <2>2, <2>5, <2>8 DEF Adds
  <1>5. CASE ~(hi > from)
    <2>1. Moved(r, cursor) = cursor /\ Counted(r, cursor) = 0
      BY <1>1, <1>2, <1>5 DEF Moved, Counted, Minus
    <2>2. Covered(S, cursor, n) = Covered(S \ {r}, cursor, n)
      <3>1. ASSUME NEW off \in 0 .. n - 1, cursor <= off, Covers(r, off) PROVE FALSE
        BY <1>1, <1>2, <1>3, <1>5, <3>1 DEF Covers
      <3>2. QED
        BY <3>1 DEF Covered
    <2>3. Cardinality(Covered(S \ {r}, cursor, n)) \in Nat
      <3>1. PICK b \in Int : b = n - 1
        BY <1>3
      <3>2. PICK J : J = 0 .. b
        OBVIOUS
      <3>3. IsFiniteSet(J)
        BY <3>1, <3>2, FS_Interval
      <3>4. PICK B : B = Covered(S \ {r}, cursor, n)
        OBVIOUS
      <3>5. B \in SUBSET J
        BY <3>1, <3>2, <3>4 DEF Covered
      <3>6. QED
        BY <3>3, <3>4, <3>5, FS_Subset, FS_CardinalityType
    <2>4. QED
      BY <2>1, <2>2, <2>3 DEF Adds
  <1>6. QED
    BY <1>4, <1>5

\* The function of ResidentBytes: what is counted of the ranges T from a cursor on.
Behind(g, T) ==
    IF T = {} THEN [cursor \in Nat |-> 0]
    ELSE [cursor \in Nat |-> Counted(FirstIn(T), cursor)
                                + g[T \ {FirstIn(T)}][Moved(FirstIn(T), cursor)]]
IsCount(g, S) == g = [T \in SUBSET S |-> Behind(g, T)]

LEMMA CountExists ==
    ASSUME NEW S, NEW n, Ranges(S, n)
    PROVE  \E g : IsCount(g, S)
  <1>1. PICK c : c = [T \in SUBSET S |-> FirstIn(T)]
    OBVIOUS
  <1>2. \A T \in SUBSET S : T # {} => FirstIn(T) \in T
    BY FewerRanges, FirstInFacts
  <1>3. Chooses(c, S)
    BY <1>1, <1>2 DEF Chooses
  <1>4. PICK V : V = [Nat -> Nat]
    OBVIOUS
  <1>5. PICK base : base = [cursor \in Nat |-> 0]
    OBVIOUS
  <1>6. base \in V
    BY <1>4, <1>5
  <1>7. ASSUME NEW r \in S, NEW cursor \in Nat
        PROVE  Counted(r, cursor) \in Nat /\ Moved(r, cursor) \in Nat
    BY <1>7 DEF Ranges, Counted, Moved, Minus, Higher
  <1>8. PICK op : op = [p \in S \X V |->
                          [cursor \in Nat |-> Counted(p[1], cursor) + p[2][Moved(p[1], cursor)]]]
    OBVIOUS
  <1>9. op \in [S \X V -> V]
    <2>1. ASSUME NEW r \in S, NEW h \in V
          PROVE  [cursor \in Nat |-> Counted(r, cursor) + h[Moved(r, cursor)]] \in V
      <3>1. ASSUME NEW cursor \in Nat PROVE Counted(r, cursor) + h[Moved(r, cursor)] \in Nat
        <4>1. PICK a \in Nat, b \in Nat : a = Counted(r, cursor) /\ b = Moved(r, cursor)
          BY <1>7
        <4>2. h[b] \in Nat
          BY <1>4
        <4>3. QED
          BY <4>1, <4>2
      <3>2. QED
        BY <1>4, <3>1
    <2>2. QED
      BY <1>8, <2>1
  <1>10. PICK g : TakesOut(g, S, V, base, c, op)
    BY <1>3, <1>6, <1>9, FoldExists DEF Ranges
  <1>11. ASSUME NEW T \in SUBSET S PROVE g[T] = Behind(g, T)
    <2>1. g[T] = TakeOut(base, c, op, g, T)
      BY <1>10 DEF TakesOut
    <2>2. CASE T = {}
      BY <1>5, <2>1, <2>2 DEF TakeOut, Behind
    <2>3. CASE T # {}
      <3>1. PICK r \in S : r = FirstIn(T) /\ r = c[T]
        BY <1>1, <1>2, <2>3
      <3>2. PICK h \in V : h = g[T \ {r}]
        BY <1>10 DEF TakesOut
      <3>3. g[T] = op[<<r, h>>]
        BY <2>1, <2>3, <3>1, <3>2 DEF TakeOut
      <3>4. op[<<r, h>>] = [cursor \in Nat |-> Counted(r, cursor) + h[Moved(r, cursor)]]
        BY <1>8
      <3>5. QED
        BY <2>3, <3>1, <3>2, <3>3, <3>4 DEF Behind
    <2>4. QED
      BY <2>2, <2>3
  <1>12. g = [T \in SUBSET S |-> g[T]]
    BY <1>10 DEF TakesOut
  <1>13. [T \in SUBSET S |-> g[T]] = [T \in SUBSET S |-> Behind(g, T)]
    BY <1>11
  <1>14. QED
    BY <1>12, <1>13 DEF IsCount

LEMMA CountIsCovered ==
    ASSUME NEW S, NEW n, Ranges(S, n), NEW g, IsCount(g, S)
    PROVE  g[S][0] = Cardinality(Covered(S, 0, n))
  <1> DEFINE Good == {T \in SUBSET S :
                        \A cursor \in Nat : g[T][cursor] = Cardinality(Covered(T, cursor, n))}
  <1>1. \A T \in SUBSET S : g[T] = Behind(g, T)
    BY DEF IsCount
  <1>2. PICK c : c = [T \in SUBSET S |-> FirstIn(T)]
    OBVIOUS
  <1>3. Chooses(c, S)
    <2>1. \A T \in SUBSET S : T # {} => FirstIn(T) \in T
      BY FewerRanges, FirstInFacts
    <2>2. QED
      BY <1>2, <2>1 DEF Chooses
  <1>4. {} \in Good
    <2>1. ASSUME NEW cursor \in Nat PROVE g[{}][cursor] = Cardinality(Covered({}, cursor, n))
      <3>1. Covered({}, cursor, n) = {}
        BY DEF Covered
      <3>2. g[{}][cursor] = 0
        BY <1>1 DEF Behind
      <3>3. QED
        BY <3>1, <3>2, FS_EmptySet
    <2>2. QED
      BY <2>1
  <1>5. ASSUME NEW T \in SUBSET S, T # {}, T \ {c[T]} \in Good PROVE T \in Good
    <2>1. Ranges(T, n)
      BY FewerRanges
    <2>2. PICK r : r = FirstIn(T)
      OBVIOUS
    <2>6. r \in S /\ r = c[T] /\ StartsFirst(r, T)
      BY <1>2, <1>5, <2>1, <2>2, FirstInFacts DEF StartsFirst
    <2>3. PICK U \in Good : U = T \ {r}
      BY <1>5, <2>6
    <2>4. ASSUME NEW cursor \in Nat
          PROVE  g[T][cursor] = Cardinality(Covered(T, cursor, n))
      <3>1. g[T] = [k \in Nat |-> Counted(r, k) + g[U][Moved(r, k)]]
        BY <1>1, <1>5, <2>2, <2>3 DEF Behind
      <3>2. /\ Moved(r, cursor) \in Nat
            /\ Cardinality(Covered(T, cursor, n)) =
                 Counted(r, cursor) + Cardinality(Covered(T \ {r}, Moved(r, cursor), n))
        BY <2>1, <2>6, OneMoreRange DEF Adds
      <3>3. g[U][Moved(r, cursor)] = Cardinality(Covered(U, Moved(r, cursor), n))
        BY <2>3, <3>2
      <3>4. QED
        BY <2>3, <3>1, <3>2, <3>3
    <2>5. QED
      BY <2>4
  <1>6. S \in Good
    <2> HIDE DEF Good
    <2>1. QED
      BY <1>3, <1>4, <1>5, FoldHas DEF Ranges
  <1>7. QED
    BY <1>6

\* resident_bytes counts the bytes that some segment's pages hold, each once.
LEMMA ResidentsAreCounted ==
    ASSUME object \in Object
    PROVE  ResidentBytes = Cardinality(Covered(R, 0, object.fileLen))
  <1> DEFINE next(g, T) == IF T = {} THEN [cursor \in Nat |-> 0]
                           ELSE [cursor \in Nat |-> Counted(FirstIn(T), cursor)
                                    + g[T \ {FirstIn(T)}][Moved(FirstIn(T), cursor)]]
             iter == CHOOSE g : g = [T \in SUBSET R |-> next(g, T)]
  <1>1. ResidentBytes = iter[R][0]
    BY Zenon DEF ResidentBytes
  <1>2. \A g : [T \in SUBSET R |-> next(g, T)] = [T \in SUBSET R |-> Behind(g, T)]
    BY Zenon DEF Behind
  <1>3. Ranges(R, object.fileLen)
    BY ResidentsAreRanges
  <1> HIDE DEF next
  <1>4. \E g : IsCount(g, R)
    BY <1>3, CountExists
  <1>5. iter = [T \in SUBSET R |-> next(iter, T)]
    BY <1>2, <1>4 DEF IsCount
  <1> HIDE DEF iter
  <1>6. IsCount(iter, R)
    BY <1>2, <1>5 DEF IsCount
  <1>7. QED
    BY <1>1, <1>3, <1>6, CountIsCovered

\* A byte has an address exactly if it lies in the pages of some segment: who
\* owns a byte has it in its pages.
LEMMA LoadedIsCovered ==
    ASSUME object \in Object, NEW off \in 0 .. object.fileLen - 1
    PROVE  Loaded(off) <=> \E r \in R : Covers(r, off)
  <1>1. Ranges(R, object.fileLen)
    BY ResidentsAreRanges
  <1>2. PICK len \in Nat : len = object.fileLen /\ off \in Nat /\ off < len
    BY DEF Object
  <1>3. PICK owners : owners = {r \in R : r.exactStart <= off /\ off < r.exactEnd}
    OBVIOUS
  <1>4. PICK sharers : sharers = {r \in R : r.start <= off /\ off < r.end}
    OBVIOUS
  <1>5. PICK first : first = IF owners # {} THEN owners ELSE sharers
    OBVIOUS
  <1>6. first \in SUBSET R
    BY <1>3, <1>4, <1>5
  <1>7. VaddrOf(R, off) = {r.vaddr + (off - r.start) : r \in FirstOf(first)}
    BY <1>3, <1>4, <1>5 DEF VaddrOf
  <1>8. ASSUME NEW r \in owners PROVE Covers(r, off)
    <2>1. PICK i \in Loads(object.segments) : r = Resident(object.segments[i], object.fileLen, i)
      BY <1>3 DEF R, Residents
    <2>2. PICK s : s = object.segments[i]
      OBVIOUS
    <2>3. s.offset \in Nat /\ s.filesz \in Nat /\ s.memsz \in Nat
      BY <2>2, SegmentFields DEF Loads
    <2>4. /\ r.start = PageDown(s.offset) /\ r.end = ResidentEnd(s, len)
          /\ r.exactStart = s.offset /\ r.exactEnd = s.offset + s.filesz
      BY <1>2, <2>1, <2>2 DEF Resident
    <2>5. s.offset <= off /\ off < s.offset + s.filesz
      BY <1>3, <2>4
    <2>6. PageDown(s.offset) \in Nat /\ PageDown(s.offset) <= s.offset
      BY <2>3, PageDownFacts
    <2>7. PICK exact \in Nat : exact = s.offset + s.filesz
      BY <2>3
    <2>8. PageUp(exact) \in Nat /\ exact <= PageUp(exact)
      <3>1. exact + Page - 1 \in Nat /\ Page \in Nat \ {0}
        BY PageAssumption
      <3>2. PageDown(exact + Page - 1) \in Nat /\ exact + Page - 1 < PageDown(exact + Page - 1) + Page
        BY <3>1, PageDownFacts
      <3>3. QED
        BY <3>1, <3>2 DEF PageUp
    <2>9. PICK hi \in Nat : hi = (IF s.memsz > s.filesz THEN exact ELSE PageUp(exact)) /\ exact <= hi
      BY <2>7, <2>8
    <2>10. ResidentEnd(s, len) = Lower(hi, len)
      BY <2>7, <2>9 DEF ResidentEnd
    <2>11. off < Lower(hi, len)
      BY <1>2, <2>5, <2>7, <2>9 DEF Lower
    <2>12. PICK lo \in Nat : lo = s.offset /\ lo <= off /\ PageDown(s.offset) <= lo
      BY <2>3, <2>5, <2>6
    <2>13. r.start <= off /\ off < r.end
      BY <1>2, <2>4, <2>6, <2>10, <2>11, <2>12
    <2>14. QED
      BY <2>13 DEF Covers
  <1>9. ASSUME NEW r \in R, Covers(r, off) PROVE first # {}
    BY <1>4, <1>5, <1>9 DEF Covers
  <1>10. ASSUME first # {} PROVE \E r \in R : Covers(r, off)
    BY <1>3, <1>4, <1>5, <1>8, <1>10 DEF Covers
  <1>11. first # {} <=> VaddrOf(R, off) # {}
    <2>1. ASSUME first # {} PROVE FirstOf(first) # {}
      <3>1. Ranges(first, object.fileLen)
        BY <1>1, <1>6, FewerRanges
      <3>2. QED
        BY <2>1, <3>1, FirstOfRanges
    <2>2. FirstOf(first) \subseteq first
      BY DEF FirstOf
    <2>3. QED
      BY <1>7, <2>1, <2>2
  <1>12. QED
    BY <1>9, <1>10, <1>11 DEF Loaded

-----------------------------------------------------------------------------
(* Bytes that have two addresses.                                          *)

\* The bytes that two ranges have.
Twice(S, n) == {off \in 0 .. n - 1 : \E p, q \in S : p # q /\ Covers(p, off) /\ Covers(q, off)}
NoneThrice(S, n) ==
    \A off \in 0 .. n - 1 : \A p, q, r \in S :
        Covers(p, off) /\ Covers(q, off) /\ Covers(r, off) => p = q \/ q = r \/ p = r

LEMMA PartsAreFinite ==
    ASSUME NEW n \in Nat, NEW A, A \subseteq 0 .. n - 1
    PROVE  IsFiniteSet(A) /\ Cardinality(A) \in Nat
  <1>1. PICK b \in Int : b = n - 1
    OBVIOUS
  <1>2. PICK J : J = 0 .. b
    OBVIOUS
  <1>3. IsFiniteSet(J) /\ A \in SUBSET J
    BY <1>1, <1>2, FS_Interval
  <1>4. QED
    BY <1>3, FS_Subset, FS_CardinalityType

\* The lengths of the ranges, added up, count once more the bytes that two have.
LEMMA SumOfLengths ==
    ASSUME NEW S, NEW n, Ranges(S, n), NoneThrice(S, n),
           NEW a, a = [r \in S |-> r.end - r.start], NEW g, IsSum(g, a, S)
    PROVE  g[S] = Cardinality(Covered(S, 0, n)) + Cardinality(Twice(S, n))
  <1> DEFINE Good == {T \in SUBSET S :
                        g[T] = Cardinality(Covered(T, 0, n)) + Cardinality(Twice(T, n))}
  <1>1. \A T \in SUBSET S : g[T] = Summing(a, g, T)
    BY DEF IsSum
  <1>2. PICK c : c = [T \in SUBSET S |-> AnyOf(T)]
    OBVIOUS
  <1>3. \A T \in SUBSET S : T # {} => AnyOf(T) \in T
    BY DEF AnyOf
  <1>4. Chooses(c, S)
    BY <1>2, <1>3 DEF Chooses
  <1>5. {} \in Good
    <2>1. Covered({}, 0, n) = {} /\ Twice({}, n) = {}
      BY DEF Covered, Twice
    <2>2. g[{}] = 0
      BY <1>1 DEF Summing
    <2>3. Cardinality({}) = 0
      BY FS_EmptySet
    <2>4. g[{}] = Cardinality(Covered({}, 0, n)) + Cardinality(Twice({}, n))
      <3>1. Cardinality(Covered({}, 0, n)) = 0 /\ Cardinality(Twice({}, n)) = 0
        BY <2>1, <2>3, Zenon
      <3>2. QED
        BY <2>2, <3>1
    <2>5. QED
      BY <2>4
  <1>6. n \in Nat
    BY DEF Ranges
  <1>7. ASSUME NEW T \in SUBSET S, T # {}, T \ {c[T]} \in Good PROVE T \in Good
    <2>1. PICK r \in T : r = AnyOf(T) /\ r = c[T]
      BY <1>2, <1>3, <1>7
    <2>2. PICK U : U = T \ {r} /\ U \in SUBSET S
      OBVIOUS
    <2>3. PICK A : A = r.start .. r.end - 1
      OBVIOUS
    <2>4. PICK B : B = Covered(U, 0, n)
      OBVIOUS
    <2>5. PICK D : D = Twice(U, n)
      OBVIOUS
    <2>6. PICK lo \in Nat, hi \in Nat : lo = r.start /\ hi = r.end /\ lo < hi /\ hi <= n
      BY DEF Ranges
    <2>7. A \subseteq 0 .. n - 1 /\ B \subseteq 0 .. n - 1 /\ D \subseteq 0 .. n - 1
      BY <1>6, <2>3, <2>4, <2>5, <2>6 DEF Covered, Twice
    <2>8. Cardinality(A) = hi - lo
      <3>1. PICK b \in Int : b = hi - 1
        BY <2>6
      <3>2. Cardinality(lo .. b) = IF lo > b THEN 0 ELSE b - lo + 1
        BY FS_Interval
      <3>3. QED
        BY <2>3, <2>6, <3>1, <3>2
    <2>9. \A off \in 0 .. n - 1 : off \in A <=> Covers(r, off)
      BY <1>6, <2>3, <2>6 DEF Covers
    <2>10. Covered(T, 0, n) = A \cup B
      <3>1. \A off \in 0 .. n - 1 : off \in Covered(T, 0, n) <=> off \in A \/ off \in B
        BY <1>6, <2>2, <2>4, <2>9 DEF Covered
      <3>2. Covered(T, 0, n) \subseteq 0 .. n - 1
        BY DEF Covered
      <3>3. QED
        BY <2>7, <3>1, <3>2
    <2>11. Twice(T, n) = D \cup (A \cap B)
      <3>1. \A off \in 0 .. n - 1 : off \in Twice(T, n) <=> off \in D \/ (off \in A /\ off \in B)
        <4> SUFFICES ASSUME NEW off \in 0 .. n - 1
                     PROVE  off \in Twice(T, n) <=> off \in D \/ (off \in A /\ off \in B)
          OBVIOUS
        <4>1. off \in A <=> Covers(r, off)
          BY <2>9
        <4>2. off \in B <=> \E q \in U : Covers(q, off)
          BY <1>6, <2>4 DEF Covered
        <4>3. off \in D <=> \E p, q \in U : p # q /\ Covers(p, off) /\ Covers(q, off)
          BY <2>5 DEF Twice
        <4>4. off \in Twice(T, n) <=> \E p, q \in T : p # q /\ Covers(p, off) /\ Covers(q, off)
          BY DEF Twice
        <4>5. QED
          BY <2>2, <4>1, <4>2, <4>3, <4>4
      <3>2. Twice(T, n) \subseteq 0 .. n - 1
        BY DEF Twice
      <3>3. QED
        BY <2>7, <3>1, <3>2
    <2>12. D \cap (A \cap B) = {}
      <3>1. SUFFICES ASSUME NEW off \in 0 .. n - 1, off \in D, off \in A PROVE FALSE
        BY <2>7
      <3>2. PICK p \in U, q \in U : p # q /\ Covers(p, off) /\ Covers(q, off)
        BY <3>1, <2>5 DEF Twice
      <3>3. Covers(r, off)
        BY <2>9, <3>1
      <3>4. p \in S /\ q \in S /\ r \in S /\ p # r /\ q # r
        BY <2>2
      <3>5. QED
        BY <3>2, <3>3, <3>4 DEF NoneThrice
    <2>13. PICK I : I = A \cap B
      OBVIOUS
    <2>14. /\ IsFiniteSet(A) /\ IsFiniteSet(B) /\ IsFiniteSet(D) /\ IsFiniteSet(I)
           /\ Cardinality(B) \in Nat /\ Cardinality(D) \in Nat /\ Cardinality(I) \in Nat
      <3>1. I \subseteq 0 .. n - 1
        BY <2>7, <2>13
      <3>2. QED
        BY <1>6, <2>7, <3>1, PartsAreFinite
    <2>15. Cardinality(A \cup B) = Cardinality(A) + Cardinality(B) - Cardinality(I)
      BY <2>13, <2>14, FS_Union
    <2>16. Cardinality(D \cup I) = Cardinality(D) + Cardinality(I)
      <3>1. Cardinality(D \cup I) = Cardinality(D) + Cardinality(I) - Cardinality(D \cap I)
        BY <2>14, FS_Union
      <3>2. Cardinality(D \cap I) = 0
        BY <2>12, <2>13, FS_EmptySet
      <3>3. QED
        BY <2>14, <3>1, <3>2
    <2>17. g[T] = (hi - lo) + g[U]
      BY <1>1, <1>7, <2>1, <2>2, <2>6 DEF Summing
    <2>18. g[U] = Cardinality(B) + Cardinality(D)
      BY <1>7, <2>1, <2>2, <2>4, <2>5
    <2>19. g[T] = Cardinality(Covered(T, 0, n)) + Cardinality(Twice(T, n))
      <3>1. PICK b \in Nat, d \in Nat, i \in Nat :
                b = Cardinality(B) /\ d = Cardinality(D) /\ i = Cardinality(I)
        BY <2>14
      <3>2. Cardinality(Covered(T, 0, n)) = (hi - lo) + b - i
        BY <2>8, <2>10, <2>15, <3>1
      <3>3. Cardinality(Twice(T, n)) = d + i
        BY <2>11, <2>13, <2>16, <3>1
      <3>4. g[T] = (hi - lo) + (b + d)
        BY <2>17, <2>18, <3>1
      <3>5. QED
        BY <2>6, <3>1, <3>2, <3>3, <3>4
    <2>20. QED
      BY <2>19
  <1>8. S \in Good
    <2> HIDE DEF Good
    <2>1. QED
      BY <1>4, <1>5, <1>7, FoldHas DEF Ranges
  <1>9. QED
    BY <1>8

\* Two of a set that has at most two elements are all of it.
LEMMA AtMostTwo ==
    ASSUME NEW H, IsFiniteSet(H), Cardinality(H) <= 2
    PROVE  /\ \A p, q, r \in H : p = q \/ q = r \/ p = r
           /\ Cardinality(H) = 2 <=> \E p, q \in H : p # q
  <1>1. Cardinality(H) \in Nat
    BY FS_CardinalityType
  <1>2. ASSUME NEW p \in H, NEW q \in H, p # q
        PROVE  Cardinality(H) = 2 /\ \A r \in H : r = p \/ r = q
    <2>1. PICK K : K = H \ {p}
      OBVIOUS
    <2>2. IsFiniteSet(K) /\ Cardinality(K) = Cardinality(H) - 1 /\ q \in K
      BY <1>2, <2>1, FS_RemoveElement, FS_Subset
    <2>3. PICK J : J = K \ {q}
      OBVIOUS
    <2>4. IsFiniteSet(J) /\ Cardinality(J) = Cardinality(K) - 1
      BY <2>2, <2>3, FS_RemoveElement, FS_Subset
    <2>5. Cardinality(J) \in Nat
      BY <2>4, FS_CardinalityType
    <2>6. Cardinality(H) = 2 /\ Cardinality(J) = 0
      BY <1>1, <2>2, <2>4, <2>5
    <2>7. J = {}
      BY <2>4, <2>6, FS_EmptySet
    <2>8. QED
      BY <2>1, <2>3, <2>6, <2>7
  <1>3. ASSUME Cardinality(H) = 2 PROVE \E p, q \in H : p # q
    <2>1. H # {}
      BY <1>3, FS_EmptySet
    <2>2. PICK p \in H : TRUE
      BY <2>1
    <2>3. Cardinality(H \ {p}) = 1
      BY <1>3, FS_RemoveElement
    <2>4. H \ {p} # {}
      BY <2>3, FS_EmptySet
    <2>5. QED
      BY <2>4
  <1>4. QED
    BY <1>2, <1>3

\* The sum that DoubleMappedBytes takes the resident bytes from.
LEMMA TotalIs ==
    ASSUME object \in Object, NoneThrice(R, object.fileLen)
    PROVE  FX!MapThenSumSet(LAMBDA r : r.end - r.start, R)
             = Cardinality(Covered(R, 0, object.fileLen)) + Cardinality(Twice(R, object.fileLen))
  <1> DEFINE a == [r \in R |-> r.end - r.start]
             next(g, s) == IF s = {} THEN 0
                           ELSE ((CHOOSE y \in s : TRUE).end - (CHOOSE y \in s : TRUE).start)
                                    + g[s \ {CHOOSE y \in s : TRUE}]
             iter == CHOOSE g : g = [s \in SUBSET R |-> next(g, s)]
  <1>1. FX!MapThenSumSet(LAMBDA r : r.end - r.start, R) = iter[R]
    BY Zenon DEF FX!MapThenSumSet, FX!MapThenFoldSet
  <1>2. ASSUME NEW g
        PROVE  [s \in SUBSET R |-> next(g, s)] = [s \in SUBSET R |-> Summing(a, g, s)]
    <2>1. ASSUME NEW s \in SUBSET R PROVE next(g, s) = Summing(a, g, s)
      BY DEF Summing, AnyOf
    <2> HIDE DEF next, a
    <2>2. QED
      BY <2>1
  <1>3. Ranges(R, object.fileLen)
    BY ResidentsAreRanges
  <1>4. \A r \in R : a[r] \in Nat
    BY <1>3 DEF Ranges
  <1>5. PICK b : b = a /\ b = [r \in R |-> r.end - r.start]
    OBVIOUS
  <1> HIDE DEF next, a
  <1>6. \E g : IsSum(g, b, R)
    BY <1>3, <1>4, <1>5, SumExists DEF Ranges
  <1>7. iter = [s \in SUBSET R |-> next(iter, s)]
    BY <1>2, <1>5, <1>6 DEF IsSum
  <1> HIDE DEF iter
  <1>8. IsSum(iter, b, R)
    BY <1>2, <1>5, <1>7 DEF IsSum
  <1>9. QED
    BY <1>1, <1>3, <1>5, <1>8, SumOfLengths

\* resident_bytes, double_mapped_bytes: the counts shown to the user are those of
\* the bytes that have an address, and of those that have two.
LEMMA CountsAreRight ==
    ASSUME object \in Object
    PROVE  CountsAreExact
  <1>1. PICK len \in Nat : len = object.fileLen
    BY DEF Object
  <1>2. Ranges(R, len)
    BY <1>1, ResidentsAreRanges
  <1>3. Covered(R, 0, len) = {off \in 0 .. (len - 1) : Loaded(off)}
    <2>1. \A off \in 0 .. (len - 1) : off \in Covered(R, 0, len) <=> Loaded(off)
      BY <1>1, LoadedIsCovered DEF Covered
    <2>2. Covered(R, 0, len) \subseteq 0 .. (len - 1)
      BY DEF Covered
    <2>3. QED
      BY <2>1, <2>2
  <1>4. ResidentBytes = Cardinality(Covered(R, 0, len))
    BY <1>1, ResidentsAreCounted
  <1>5. ASSUME \A off \in 0 .. (len - 1) : Cardinality(Holders(off)) <= 2
        PROVE  DoubleMappedBytes
                 = Cardinality({off \in 0 .. (len - 1) : Cardinality(Holders(off)) = 2})
    <2>1. ASSUME NEW off PROVE Holders(off) = {r \in R : Covers(r, off)}
      BY DEF Holders, Covers
    <2>2. ASSUME NEW off \in 0 .. (len - 1)
          PROVE  /\ \A p, q, r \in R :
                       Covers(p, off) /\ Covers(q, off) /\ Covers(r, off) => p = q \/ q = r \/ p = r
                 /\ Cardinality(Holders(off)) = 2 <=>
                       \E p, q \in R : p # q /\ Covers(p, off) /\ Covers(q, off)
      <3>1. PICK H : H = Holders(off)
        OBVIOUS
      <3>2. H = {r \in R : Covers(r, off)}
        BY <2>1, <3>1
      <3>3. IsFiniteSet(H)
        BY <1>2, <3>2, FS_Subset DEF Ranges
      <3>4. Cardinality(H) <= 2
        BY <1>5, <3>1
      <3>5. /\ \A p, q, r \in H : p = q \/ q = r \/ p = r
            /\ Cardinality(H) = 2 <=> \E p, q \in H : p # q
        BY <3>3, <3>4, AtMostTwo
      <3>6. QED
        BY <3>1, <3>2, <3>5
    <2>3. NoneThrice(R, len)
      BY <2>2 DEF NoneThrice
    <2>4. Twice(R, len) = {off \in 0 .. (len - 1) : Cardinality(Holders(off)) = 2}
      BY <2>2 DEF Twice
    <2>5. PICK a, b : a = Cardinality(Covered(R, 0, len)) /\ b = Cardinality(Twice(R, len))
      OBVIOUS
    <2>6. a \in Nat /\ b \in Nat
      <3>1. PICK C, D : C = Covered(R, 0, len) /\ D = Twice(R, len)
        OBVIOUS
      <3>2. C \subseteq 0 .. len - 1 /\ D \subseteq 0 .. len - 1
        BY <3>1 DEF Covered, Twice
      <3>3. QED
        BY <2>5, <3>1, <3>2, PartsAreFinite
    <2>7. FX!MapThenSumSet(LAMBDA r : r.end - r.start, R) = a + b
      BY <1>1, <2>3, <2>5, TotalIs
    <2>8. DoubleMappedBytes = Minus(a + b, a)
      BY <1>4, <2>5, <2>7 DEF DoubleMappedBytes
    <2>9. Minus(a + b, a) = b
      BY <2>6 DEF Minus
    <2>10. QED
      BY <2>4, <2>5, <2>8, <2>9
  <1>6. QED
    BY <1>1, <1>3, <1>4, <1>5 DEF CountsAreExact

\* resident_bytes, double_mapped_bytes: what the user is told of the file as a
\* whole agrees with the answers for its single bytes.
THEOREM CountsAgreeWithBytes == Spec => []CountsAreExact
  <1>1. TypeOK => CountsAreExact
    BY CountsAreRight DEF TypeOK
  <1>2. QED
    BY <1>1, LoadTypeCorrect, PTL

-----------------------------------------------------------------------------
(* The rows of a process are the vmas of the timeline.                      *)

\* The objects that RowsAreFound is about, when the program is entered.
Comparable ==
    /\ LoadInv /\ stage = "entered"
    /\ Loads(Segs) # {} /\ HaveFileBytes /\ PagesApart /\ NotCongruent = {}
    /\ \A i, j \in RelroSegments : i = j

LEMMA ComparableFacts ==
    ASSUME Comparable
    PROVE  /\ object \in Object /\ mappings \in SUBSET Mapping /\ mappings = Final
           /\ MappedAsPlanned(mappings) /\ Bounded(mappings) /\ ClaimsMoreFile = {}
  <1>1. LoadInv /\ stage # "kernel" /\ mappings = Final /\ ClaimsMoreFile = {}
    BY DEF Comparable, LoadInv, MappingsInv, PagesApart
  <1>2. QED
    BY <1>1, LoadedMemory

LEMMA SegmentBounds ==
    ASSUME Comparable, NEW i \in Loads(Segs)
    PROVE  /\ i \in DOMAIN Segs /\ Segs[i].vaddr \in Nat /\ Segs[i].offset \in Nat
           /\ Segs[i].filesz \in Nat /\ Segs[i].memsz \in Nat
           /\ Segs[i].filesz > 0 /\ Segs[i].filesz <= Segs[i].memsz
           /\ Segs[i].offset % Page = Segs[i].vaddr % Page
           /\ MemEnd(Segs[i]) \in Nat /\ Segs[i].vaddr < MemEnd(Segs[i])
           /\ PageDown(Segs[i].vaddr) \in Nat /\ PageUp(MemEnd(Segs[i])) \in Nat
  <1> DEFINE s == Segs[i]
  <1>1. i \in DOMAIN Segs /\ object \in Object
    BY ComparableFacts DEF Loads
  <1>2. s.vaddr \in Nat /\ s.offset \in Nat /\ s.filesz \in Nat /\ s.memsz \in Nat
    BY <1>1, SegmentFields DEF Segs
  <1>3. s.filesz > 0
    BY DEF Comparable, HaveFileBytes, Segs
  <1>4. ~(s.filesz > s.memsz) /\ s.offset % Page = s.vaddr % Page
    BY <1>3, ComparableFacts DEF Comparable, ClaimsMoreFile, NotCongruent
  <1>5. MemEnd(s) = s.vaddr + s.memsz
    BY DEF MemEnd
  <1> HIDE DEF s
  <1>6. MemEnd(s) \in Nat /\ s.vaddr < MemEnd(s) /\ MemEnd(s) + Page - 1 \in Nat
    BY <1>2, <1>3, <1>4, <1>5, PageAssumption
  <1>7. PageDown(s.vaddr) \in Nat /\ PageUp(MemEnd(s)) \in Nat
    BY <1>2, <1>6, PageDownFacts DEF PageUp
  <1>8. s.filesz <= s.memsz
    BY <1>2, <1>4
  <1>9. QED
    BY <1>1, <1>2, <1>3, <1>4, <1>6, <1>7, <1>8 DEF s

LEMMA PagesOfFacts ==
    ASSUME Comparable, NEW i \in Loads(Segs), NEW p
    PROVE  p \in PagesOf(i) <=>
              IsPage(p) /\ PageDown(Segs[i].vaddr) <= p /\ p < PageUp(MemEnd(Segs[i]))
  <1>1. PICK lo \in Nat, hi \in Nat : lo = PageDown(Segs[i].vaddr) /\ hi = PageUp(MemEnd(Segs[i]))
    BY SegmentBounds
  <1>2. p \in PagesOf(i) <=> p \in lo .. (hi - 1) /\ p % Page = 0
    BY <1>1 DEF PagesOf
  <1>3. p \in lo .. (hi - 1) <=> p \in Nat /\ lo <= p /\ p < hi
    BY <1>1
  <1>4. IsPage(p) <=> p \in Nat /\ p % Page = 0
    BY AlignedIsPage, PageIsItsOwn DEF IsPage
  <1>5. QED
    BY <1>1, <1>2, <1>3, <1>4

\* The pages of a segment are those of its bytes, and of the file those of its
\* bytes in the file.
LEMMA PagesOfBytes ==
    ASSUME Comparable, NEW i \in Loads(Segs), NEW p, IsPage(p)
    PROVE  /\ p \in PagesOf(i) <=>
                 \E a \in Nat : Segs[i].vaddr <= a /\ a < MemEnd(Segs[i]) /\ PageDown(a) = p
           /\ p \in PagesOf(i) =>
                 (IsOfFile(i, p) <=>
                     \E a \in Nat : /\ Segs[i].vaddr <= a /\ a < Segs[i].vaddr + Segs[i].filesz
                                    /\ PageDown(a) = p)
  <1>1. PICK lo \in Nat, hi \in Nat, mid \in Nat :
           lo = Segs[i].vaddr /\ hi = MemEnd(Segs[i]) /\ mid = Segs[i].vaddr + Segs[i].filesz
    BY SegmentBounds
  <1>2. lo < hi /\ lo < mid
    BY <1>1, SegmentBounds
  <1>3. p \in PagesOf(i) <=> PageDown(lo) <= p /\ p < PageUp(hi)
    BY <1>1, PagesOfFacts
  <1>4. PageDown(lo) <= p /\ p < PageUp(hi) <=> \E a \in Nat : lo <= a /\ a < hi /\ PageDown(a) = p
    BY <1>2, PageMeetsRange
  <1>5. PageDown(lo) <= p /\ p < PageUp(mid) <=> \E a \in Nat : lo <= a /\ a < mid /\ PageDown(a) = p
    BY <1>2, PageMeetsRange
  <1>6. IsOfFile(i, p) <=> p < PageUp(mid)
    BY <1>1 DEF IsOfFile
  <1>7. QED
    BY <1>1, <1>3, <1>4, <1>5, <1>6

LEMMA PageOfOneSegment ==
    ASSUME Comparable, NEW i \in Loads(Segs), NEW j \in Loads(Segs), NEW p,
           p \in PagesOf(i), p \in PagesOf(j)
    PROVE  i = j
  <1>1. /\ PageDown(Segs[i].vaddr) <= p /\ p < PageUp(MemEnd(Segs[i])) /\ p \in Nat
        /\ PageDown(Segs[j].vaddr) <= p /\ p < PageUp(MemEnd(Segs[j]))
    BY PagesOfFacts DEF IsPage
  <1>2. /\ PageDown(Segs[i].vaddr) \in Nat /\ PageUp(MemEnd(Segs[i])) \in Nat
        /\ PageDown(Segs[j].vaddr) \in Nat /\ PageUp(MemEnd(Segs[j])) \in Nat
    BY SegmentBounds
  <1>3. i # j => \/ PageUp(MemEnd(Segs[i])) <= PageDown(Segs[j].vaddr)
                 \/ PageUp(MemEnd(Segs[j])) <= PageDown(Segs[i].vaddr)
    BY DEF Comparable, PagesApart
  <1>4. QED
    BY <1>1, <1>2, <1>3

\* What the loader seals in the process the timeline has sealed.
LEMMA InRelroMeansSealed ==
    ASSUME Comparable, NEW a \in Nat
    PROVE  InRelro(PageDown(a)) <=> Sealed(a)
  <1>1. PICK p : p = PageDown(a)
    OBVIOUS
  <1>2. IsPage(p) /\ p \in Nat /\ PageDown(p) = p
    BY <1>1, PageDownIsPage, PageIsItsOwn DEF IsPage
  <1>3. ASSUME NEW j \in RelroSegments
        PROVE  /\ Relro = Segs[j] /\ j \in DOMAIN Segs /\ Segs[j].type = "GNU_RELRO"
               /\ Segs[j].vaddr \in Nat /\ MemEnd(Segs[j]) \in Nat
               /\ MemEnd(Segs[j]) = Relro.vaddr + Relro.memsz
    <2>1. j \in DOMAIN Segs /\ Segs[j].type = "GNU_RELRO"
      BY DEF RelroSegments, Segs
    <2>2. Segs[j].vaddr \in Nat /\ Segs[j].memsz \in Nat /\ j \in Nat
      BY <2>1, ComparableFacts, SegmentFields DEF Segs
    <2>3. \A k \in RelroSegments : k = j
      BY DEF Comparable
    <2>4. \A k \in RelroSegments : j <= k
      BY <2>2, <2>3
    <2>5. (CHOOSE i \in RelroSegments : \A k \in RelroSegments : i <= k) \in RelroSegments
      BY <2>4
    <2>6. Relro = Segs[j]
      BY <2>3, <2>5 DEF Relro, Segs
    <2>7. MemEnd(Segs[j]) = Segs[j].vaddr + Segs[j].memsz
      BY DEF MemEnd
    <2>8. QED
      BY <2>1, <2>2, <2>6, <2>7
  <1>4. CASE RelroSegments = {}
    <2>1. ~Sealed(a)
      BY <1>4 DEF Sealed
    <2>2. ~InRelro(p)
      BY <1>4 DEF InRelro, RelroSegments, Segs
    <2>3. QED
      BY <1>1, <2>1, <2>2
  <1>5. CASE RelroSegments # {}
    <2>1. PICK j \in RelroSegments : TRUE
      BY <1>5
    <2>2. PICK lo \in Nat, hi \in Nat : lo = Segs[j].vaddr /\ hi = MemEnd(Segs[j])
      BY <1>3
    <2>3. InRelro(p) <=> PageDown(lo) <= p /\ p < PageDown(hi)
      <3>1. \A k \in DOMAIN Segs : Segs[k].type = "GNU_RELRO" => k = j
        BY DEF Comparable, RelroSegments, Segs
      <3>2. QED
        BY <1>3, <2>2, <3>1 DEF InRelro
    <2>4. Sealed(a) <=> PageDown(lo) <= p /\ p + Page <= hi
      BY <1>1, <1>3, <1>5, <2>2 DEF Sealed
    <2>5. p < PageDown(hi) <=> p + Page <= hi
      BY <1>2, PageBounds
    <2>6. QED
      BY <1>1, <2>3, <2>4, <2>5
  <1>6. QED
    BY <1>4, <1>5

LEMMA PageOfProcess ==
    ASSUME Comparable, NEW p
    PROVE  p \in Pages(mappings) <=> \E i \in Loads(Segs) : p \in PagesOf(i)
  <1>1. ASSUME p \in Pages(mappings) PROVE \E i \in Loads(Segs) : p \in PagesOf(i)
    <2>1. IsPage(p) /\ OnPage(mappings, p) # {}
      BY <1>1, ComparableFacts, PagesFacts
    <2>2. PICK m \in mappings, a \in Nat : In(m, a) /\ PageDown(a) = p
      BY <2>1, ComparableFacts, OnPageFacts
    <2>3. m.segment \in Loads(Segs) /\ Segs[m.segment].vaddr <= a /\ a < MemEnd(Segs[m.segment])
      BY <2>2, ComparableFacts, MappedInSegment
    <2>4. QED
      BY <2>1, <2>2, <2>3, PagesOfBytes
  <1>2. ASSUME NEW i \in Loads(Segs), p \in PagesOf(i) PROVE p \in Pages(mappings)
    <2>1. IsPage(p)
      BY <1>2, PagesOfFacts
    <2>2. PICK a \in Nat : Segs[i].vaddr <= a /\ a < MemEnd(Segs[i]) /\ PageDown(a) = p
      BY <1>2, <2>1, PagesOfBytes
    <2>3. a \in Extent(Segs[i])
      BY <2>2, SegmentBounds DEF Extent, Higher, MemEnd
    <2>4. PICK m \in mappings : In(m, a)
      BY <2>3, ComparableFacts DEF MappedAsPlanned, Segs
    <2>5. QED
      BY <2>2, <2>4, ComparableFacts, MappedPage
  <1>3. QED
    BY <1>1, <1>2

\* Where the page is in the file.
PageShown(i, p) ==
    IF IsOfFile(i, p) THEN PageDown(Segs[i].offset) + (p - PageDown(Segs[i].vaddr)) ELSE Anonymous

\* The timeline's page is the segment's: its protection, and its place in the file.
LEMMA PageShowsSegment ==
    ASSUME Comparable, NEW i \in Loads(Segs), NEW p \in PagesOf(i)
    PROVE  /\ PageAt(mappings, p).segment = i
           /\ PageAt(mappings, p).prot = ProtOf(i, p)
           /\ PageAt(mappings, p).offset = PageShown(i, p)
           /\ IsOfFile(i, p) => PageShown(i, p) \in Nat
  <1> DEFINE s == Segs[i]
  <1>1. p \in Pages(mappings) /\ IsPage(p) /\ p \in Nat
    BY PageOfProcess, PagesOfFacts DEF IsPage
  <1>2. ASSUME NEW m \in OnPage(mappings, p)
        PROVE  m \in mappings /\ m.segment = i /\ m.prot = ProtOf(i, p)
    <2>1. PICK a \in Nat : m \in mappings /\ In(m, a) /\ PageDown(a) = p
      BY <1>1, <1>2, ComparableFacts, OnPageFacts
    <2>2. /\ m.segment \in Loads(Segs)
          /\ Segs[m.segment].vaddr <= a /\ a < MemEnd(Segs[m.segment])
      BY <2>1, ComparableFacts, MappedInSegment
    <2>3. p \in PagesOf(m.segment)
      BY <1>1, <2>1, <2>2, PagesOfBytes
    <2>4. m.segment = i
      BY <2>2, <2>3, PageOfOneSegment
    <2>5. m.prot = IF Sealed(a) THEN ReadOnly ELSE s.prot
      BY <2>1, <2>4, ComparableFacts, FinalIsSealed DEF Segs
    <2>6. InRelro(p) <=> Sealed(a)
      BY <2>1, InRelroMeansSealed
    <2>7. QED
      BY <2>1, <2>4, <2>5, <2>6 DEF ProtOf
  <1>3. IsOfFile(i, p) => FileMappings(mappings, p) # {}
    <2>1. SUFFICES ASSUME IsOfFile(i, p) PROVE FileMappings(mappings, p) # {}
      OBVIOUS
    <2>2. PICK a \in Nat : s.vaddr <= a /\ a < s.vaddr + s.filesz /\ PageDown(a) = p
      BY <1>1, <2>1, PagesOfBytes
    <2>3. a \in Extent(s)
      BY <2>2, SegmentBounds DEF Extent, Higher
    <2>4. PICK m \in mappings : In(m, a) /\ ShowsRightByte(m, s, a)
      BY <2>3, ComparableFacts DEF MappedAsPlanned, Segs
    <2>5. m.source = "file"
      BY <2>2, <2>4 DEF ShowsRightByte
    <2>6. m \in OnPage(mappings, p)
      BY <2>2, <2>4, ComparableFacts, MappedPage
    <2>7. QED
      BY <2>5, <2>6 DEF FileMappings
  <1>4. ASSUME NEW m \in FileMappings(mappings, p)
        PROVE  /\ IsOfFile(i, p) /\ m \in mappings /\ m.segment = i /\ m.source = "file"
               /\ s.vaddr <= m.vaddr
    <2>1. PICK a \in Nat : m \in mappings /\ m.source = "file" /\ In(m, a) /\ PageDown(a) = p
      BY <1>1, <1>4, ComparableFacts, OnPageFacts DEF FileMappings
    <2>2. m.segment = i
      BY <1>2, <1>4 DEF FileMappings
    <2>3. a \in Extent(s) /\ s.vaddr <= a
      BY <2>1, <2>2, ComparableFacts, MappedInSegment
    <2>4. PICK q \in mappings :
             /\ ShowsRightByte(q, s, a)
             /\ \A n \in mappings : n.segment = i /\ In(n, a) => n = q
      BY <2>3, ComparableFacts DEF MappedAsPlanned, Segs
    <2>5. a < s.vaddr + s.filesz
      BY <2>1, <2>2, <2>4 DEF ShowsRightByte
    <2>6. IsOfFile(i, p)
      BY <1>1, <2>1, <2>3, <2>5, PagesOfBytes
    <2>7. m.vaddr \in Nat /\ In(m, m.vaddr)
      BY <2>1, ComparableFacts, MappingFields DEF In, End
    <2>8. s.vaddr <= m.vaddr
      BY <2>1, <2>2, <2>7, ComparableFacts, MappedInSegment
    <2>9. QED
      BY <2>1, <2>2, <2>6, <2>8
  <1>5. PageAt(mappings, p).segment = i /\ PageAt(mappings, p).prot = ProtOf(i, p)
    BY <1>1, <1>2, ComparableFacts, PageAtFacts
  <1>6. CASE ~IsOfFile(i, p)
    <2>1. FileMappings(mappings, p) = {}
      BY <1>4, <1>6
    <2>2. PageAt(mappings, p).offset = Anonymous
      BY <1>1, <2>1, ComparableFacts, PageAtFacts
    <2>3. QED
      BY <1>5, <1>6, <2>2 DEF PageShown
  <1>7. CASE IsOfFile(i, p)
    <2>1. PICK m \in FileMappings(mappings, p) :
             /\ PageAt(mappings, p).offset = PageDown(m.offset) + (p - PageDown(m.vaddr))
             /\ PageAt(mappings, p).offset \in Nat
      BY <1>1, <1>3, <1>7, ComparableFacts, PageAtFacts
    <2>2. m \in mappings /\ m.segment = i /\ m.source = "file" /\ s.vaddr <= m.vaddr
      BY <1>4
    <2>3. m.offset - m.vaddr = s.offset - s.vaddr
      BY <2>2, ComparableFacts, FileMappingShows
    <2>4. PICK x \in Nat, y \in Nat, n \in Nat, o \in Nat :
             x = s.vaddr /\ y = s.offset /\ n = m.vaddr /\ o = m.offset
      BY <2>2, SegmentBounds, ComparableFacts, MappingFields
    <2>5. x % Page = y % Page /\ PageDown(x) <= n /\ o = n + (y - x)
      <3>1. x % Page = y % Page
        BY <2>4, SegmentBounds
      <3>2. PageDown(x) <= x /\ PageDown(x) \in Nat
        BY PageDownFacts
      <3>3. QED
        BY <2>2, <2>3, <2>4, <3>1, <3>2
    <2>6. y - x = PageDown(y) - PageDown(x) /\ PageDown(o) = PageDown(n) + (y - x)
      BY <2>5, PagesMove
    <2>7. PageDown(x) \in Nat /\ PageDown(y) \in Nat /\ PageDown(n) \in Nat /\ PageDown(o) \in Nat
      BY PageDownFacts
    <2>8. PageDown(o) + (p - PageDown(n)) = PageDown(y) + (p - PageDown(x))
      BY <1>1, <2>6, <2>7
    <2>9. PageAt(mappings, p).offset = PageShown(i, p)
      BY <1>7, <2>1, <2>4, <2>8 DEF PageShown
    <2>10. QED
      BY <1>5, <2>1, <2>9
  <1>8. QED
    BY <1>6, <1>7

\* A page follows the one before it just if that is the segment's and alike.
LEMMA ContinuesInSegment ==
    ASSUME Comparable, NEW i \in Loads(Segs), NEW p \in PagesOf(i)
    PROVE  Continues(mappings, p) <=> p - Page \in PagesOf(i) /\ Alike(i, p - Page, p)
  <1>1. PICK q : q = p - Page
    OBVIOUS
  <1>2. p \in Pages(mappings) /\ p \in Nat /\ Page \in Nat \ {0}
    BY PageOfProcess, PagesOfFacts, PageAssumption DEF IsPage
  <1>3. Continues(mappings, p) <=>
           /\ q \in Pages(mappings)
           /\ PageAt(mappings, q).prot = PageAt(mappings, p).prot
           /\ PageAt(mappings, q).segment = PageAt(mappings, p).segment
           /\ IF PageAt(mappings, q).offset = Anonymous
              THEN PageAt(mappings, p).offset = Anonymous
              ELSE PageAt(mappings, p).offset = PageAt(mappings, q).offset + Page
    BY <1>1 DEF Continues
  <1>4. q \in PagesOf(i) => q \in Pages(mappings)
    BY PageOfProcess
  <1>5. q \in Pages(mappings) /\ PageAt(mappings, q).segment = i => q \in PagesOf(i)
    <2>1. SUFFICES ASSUME q \in Pages(mappings), PageAt(mappings, q).segment = i
                   PROVE  q \in PagesOf(i)
      OBVIOUS
    <2>2. PICK j \in Loads(Segs) : q \in PagesOf(j)
      BY <2>1, PageOfProcess
    <2>3. QED
      BY <2>1, <2>2, PageShowsSegment
  <1>6. ASSUME q \in PagesOf(i)
        PROVE  Continues(mappings, p) <=> Alike(i, q, p)
    <2>1. /\ PageAt(mappings, p).segment = i /\ PageAt(mappings, q).segment = i
          /\ PageAt(mappings, p).prot = ProtOf(i, p) /\ PageAt(mappings, q).prot = ProtOf(i, q)
          /\ PageAt(mappings, p).offset = PageShown(i, p)
          /\ PageAt(mappings, q).offset = PageShown(i, q)
      BY <1>6, PageShowsSegment
    <2>2. (IF PageShown(i, q) = Anonymous THEN PageShown(i, p) = Anonymous
           ELSE PageShown(i, p) = PageShown(i, q) + Page)
          <=> (IsOfFile(i, q) <=> IsOfFile(i, p))
      <3>1. PICK d \in Nat, e \in Nat : d = PageDown(Segs[i].offset) /\ e = PageDown(Segs[i].vaddr)
        BY SegmentBounds, PageDownFacts
      <3>2. d \in Nat /\ e \in Nat
        BY <3>1
      <3>3. IsOfFile(i, p) => PageShown(i, p) = d + (p - e) /\ PageShown(i, p) \in Nat
        BY <3>1, PageShowsSegment DEF PageShown
      <3>4. IsOfFile(i, q) => PageShown(i, q) = d + (q - e) /\ PageShown(i, q) \in Nat
        BY <1>6, <3>1, PageShowsSegment DEF PageShown
      <3>5. /\ ~IsOfFile(i, p) => PageShown(i, p) = -1
            /\ ~IsOfFile(i, q) => PageShown(i, q) = -1
        BY DEF PageShown, Anonymous
      <3>6. d + (p - e) = (d + (q - e)) + Page
        BY <1>1, <1>2, <3>1, <3>2
      <3>7. QED
        BY <1>2, <3>3, <3>4, <3>5, <3>6 DEF Anonymous
    <2>3. Alike(i, q, p) <=>
             (IsOfFile(i, q) <=> IsOfFile(i, p)) /\ ProtOf(i, q) = ProtOf(i, p)
      BY DEF Alike, IsOfFile
    <2>4. QED
      BY <1>3, <1>4, <1>6, <2>1, <2>2, <2>3
  <1>7. Continues(mappings, p) => q \in PagesOf(i)
    BY <1>3, <1>5, PageShowsSegment
  <1>8. QED
    BY <1>1, <1>6, <1>7

\* So a run of pages is the same in both.
LEMMA RunsAgree ==
    ASSUME Comparable, NEW i \in Loads(Segs), NEW p \in PagesOf(i)
    PROVE  Run(mappings, p) = RunFrom(i, p)
  <1>1. /\ p \in Pages(mappings) /\ p \in Nat /\ IsPage(p) /\ Page \in Nat \ {0}
        /\ Bounded(mappings) /\ \A q \in Pages(mappings) : q \in Nat /\ IsPage(q)
    BY PageOfProcess, PagesOfFacts, ComparableFacts, PagesFacts, PageAssumption DEF IsPage
  <1>2. ASSUME NEW q \in Run(mappings, p)
        PROVE  /\ q \in PagesOf(i) /\ p <= q
               /\ ProtOf(i, q) = ProtOf(i, p) /\ (IsOfFile(i, p) <=> IsOfFile(i, q))
    <2>1. q \in Pages(mappings) /\ p <= q
      BY <1>2 DEF Run
    <2>2. PICK j \in Loads(Segs) : q \in PagesOf(j)
      BY <2>1, PageOfProcess
    <2>3. /\ PageAt(mappings, q).prot = PageAt(mappings, p).prot
          /\ PageAt(mappings, q).segment = PageAt(mappings, p).segment
          /\ FollowsIn(mappings, p, q)
      BY <1>1, <1>2, RunIsUniform
    <2>4. j = i
      BY <2>2, <2>3, PageShowsSegment
    <2>5. q \in PagesOf(i) /\ ProtOf(i, q) = ProtOf(i, p)
      BY <2>2, <2>3, <2>4, PageShowsSegment
    <2>6. /\ PageAt(mappings, p).offset = PageShown(i, p)
          /\ PageAt(mappings, q).offset = PageShown(i, q)
          /\ IsOfFile(i, p) => PageShown(i, p) \in Nat
          /\ IsOfFile(i, q) => PageShown(i, q) \in Nat
      BY <2>5, PageShowsSegment
    <2>7. /\ ~IsOfFile(i, p) => PageShown(i, p) = -1
          /\ ~IsOfFile(i, q) => PageShown(i, q) = -1
      BY DEF PageShown, Anonymous
    <2>8. q - p \in Nat
      BY <1>1, <2>1
    <2>9. IsOfFile(i, p) <=> IsOfFile(i, q)
      BY <2>3, <2>6, <2>7, <2>8 DEF FollowsIn, Anonymous
    <2>10. QED
      BY <2>1, <2>5, <2>9
  <1>3. ASSUME NEW q \in Run(mappings, p) PROVE q \in RunFrom(i, p)
    <2>1. ASSUME NEW x \in PagesOf(i), p <= x, x <= q PROVE Alike(i, p, x)
      <3>1. x \in Pages(mappings) /\ q \in Pages(mappings)
        BY <1>3, PageOfProcess DEF Run
      <3>2. ASSUME NEW y \in Pages(mappings), p < y, y <= x PROVE Continues(mappings, y)
        <4>1. y <= q
          BY <1>1, <2>1, <3>1, <3>2
        <4>2. QED
          BY <1>3, <3>2, <4>1 DEF Run
      <3>3. x \in Run(mappings, p)
        BY <2>1, <3>1, <3>2 DEF Run
      <3>4. QED
        BY <1>2, <3>3 DEF Alike, IsOfFile
    <2>2. QED
      BY <1>2, <1>3, <2>1 DEF RunFrom
  <1>4. ASSUME NEW q \in RunFrom(i, p) PROVE q \in Run(mappings, p)
    <2>1. q \in PagesOf(i) /\ p <= q /\ \A x \in PagesOf(i) : p <= x /\ x <= q => Alike(i, p, x)
      BY <1>4 DEF RunFrom
    <2>2. PICK lo \in Nat, hi \in Nat : lo = PageDown(Segs[i].vaddr) /\ hi = PageUp(MemEnd(Segs[i]))
      BY SegmentBounds
    <2>3. \A x : x \in PagesOf(i) <=> IsPage(x) /\ lo <= x /\ x < hi
      BY <2>2, PagesOfFacts
    <2>4. q \in Nat /\ q < hi /\ lo <= p
      BY <2>1, <2>3 DEF IsPage
    <2>5. ASSUME NEW x \in Pages(mappings), p < x, x <= q PROVE Continues(mappings, x)
      <3>1. x \in Nat /\ IsPage(x) /\ p + Page <= x
        BY <1>1, <2>5, PagesStep
      <3>2. x \in PagesOf(i)
        <4>1. lo <= x /\ x < hi
          BY <1>1, <2>4, <2>5, <3>1
        <4>2. QED
          BY <2>3, <3>1, <4>1
      <3>3. PICK y : y = x - Page
        OBVIOUS
      <3>4. y \in Nat /\ p <= y /\ y <= q /\ lo <= y /\ y < hi
        BY <1>1, <2>4, <2>5, <3>1, <3>3
      <3>5. IsPage(y)
        BY <3>1, <3>3, <3>4, PageBefore
      <3>6. y \in PagesOf(i)
        BY <2>3, <3>4, <3>5
      <3>7. Alike(i, p, x) /\ Alike(i, p, y)
        BY <1>1, <2>1, <2>5, <3>2, <3>4, <3>6, <3>1
      <3>8. Alike(i, y, x)
        BY <3>7 DEF Alike
      <3>9. QED
        BY <3>2, <3>3, <3>6, <3>8, ContinuesInSegment
    <2>6. q \in Pages(mappings)
      BY <2>1, PageOfProcess
    <2>7. QED
      BY <2>1, <2>5, <2>6 DEF Run
  <1>5. QED
    BY <1>3, <1>4

\* The row that the process has for a vma.
RowOf(v, base) ==
    IF v.offset = Anonymous THEN Row(base + v.start, base + v.end, v.prot, 0, "none")
    ELSE Row(base + v.start, base + v.end, v.prot, v.offset, "target")

LEMMA RowIsOfVma ==
    ASSUME Comparable, NEW i \in Loads(Segs), NEW p \in PagesOf(i), NEW base \in Nat
    PROVE  RowFrom(i, p, base) = RowOf(VmaFrom(mappings, p), base)
  <1> DEFINE last == CHOOSE q \in RunFrom(i, p) : \A x \in RunFrom(i, p) : x <= q
             v == VmaFrom(mappings, p)
  <1>1. /\ RunEnd(mappings, p) \in Nat /\ RunEnd(mappings, p) = Page + last
        /\ p \in Pages(mappings) /\ Page \in Nat
    <2>1. p \in Pages(mappings) /\ RunEnd(mappings, p) \in Nat
      BY PageOfProcess, ComparableFacts, RunEndFacts
    <2>2. RunEnd(mappings, p) = Page + last
      BY RunsAgree DEF RunEnd
    <2>3. QED
      BY <2>1, <2>2, PageAssumption
  <1>2. last \in RunFrom(i, p)
    <2>1. RunEnd(mappings, p) - Page \in Run(mappings, p) /\ \A q \in Pages(mappings) : q \in Run(mappings, p) <=> p <= q /\ q < RunEnd(mappings, p)
      BY <1>1, ComparableFacts, RunEndFacts
    <2>2. \A q \in Pages(mappings) : q \in Nat /\ IsPage(q)
      BY ComparableFacts, PagesFacts DEF IsPage, Bounded
    <2>3. \A x \in Run(mappings, p) : x <= RunEnd(mappings, p) - Page
      <3> SUFFICES ASSUME NEW x \in Run(mappings, p)
                   PROVE  x <= RunEnd(mappings, p) - Page
        OBVIOUS
      <3>1. PICK e : e = RunEnd(mappings, p) - Page /\ e \in Pages(mappings)
        BY <2>1 DEF Run
      <3>2. x \in Pages(mappings)
        BY DEF Run
      <3>3. x < RunEnd(mappings, p)
        BY <2>1, <3>2
      <3>4. e < x => e + Page <= x
        BY <2>2, <3>1, <3>2, PagesStep
      <3>5. e \in Nat /\ x \in Nat
        BY <2>2, <3>1, <3>2
      <3>6. QED
        BY <1>1, <3>1, <3>3, <3>4, <3>5
    <2>4. \E q \in RunFrom(i, p) : \A x \in RunFrom(i, p) : x <= q
      BY <2>1, <2>3, RunsAgree
    <2>5. QED
      BY <2>4
  <1>3. last \in Nat
    BY <1>2, PagesOfFacts DEF RunFrom, IsPage
  <1>4. RowFrom(i, p, base) =
           IF IsOfFile(i, p)
           THEN Row(base + p, base + last + Page, ProtOf(i, p), PageShown(i, p), "target")
           ELSE Row(base + p, base + last + Page, ProtOf(i, p), 0, "none")
    BY DEF RowFrom, PageShown
  <1> HIDE DEF last
  <1>5. base + last + Page = base + RunEnd(mappings, p)
    BY <1>1, <1>3
  <1>6. /\ v.start = p /\ v.end = RunEnd(mappings, p) /\ v.prot = ProtOf(i, p)
        /\ v.offset = PageShown(i, p)
    BY PageShowsSegment DEF VmaFrom
  <1>7. PageShown(i, p) = Anonymous <=> ~IsOfFile(i, p)
    BY PageShowsSegment DEF PageShown, Anonymous
  <1> HIDE DEF v
  <1>8. QED
    BY <1>4, <1>5, <1>6, <1>7 DEF RowOf, v

\* The target's rows are those of the vmas.
LEMMA OwnIsOfVmas ==
    ASSUME Comparable, NEW base \in Nat
    PROVE  Own(base) = {RowOf(v, base) : v \in Vmas(mappings)}
  <1>1. ASSUME NEW r \in Own(base) PROVE \E v \in Vmas(mappings) : r = RowOf(v, base)
    <2>6. PICK i \in Loads(Segs) :
             r \in {RowFrom(i, p, base) :
                      p \in {q \in PagesOf(i) : q - Page \in PagesOf(i) => ~Alike(i, q - Page, q)}}
      BY DEF Own
    <2>1. PICK p \in PagesOf(i) :
             r = RowFrom(i, p, base) /\ (p - Page \in PagesOf(i) => ~Alike(i, p - Page, p))
      BY <2>6
    <2>2. p \in Pages(mappings) /\ ~Continues(mappings, p)
      BY <2>1, PageOfProcess, ContinuesInSegment
    <2>3. VmaFrom(mappings, p) \in Vmas(mappings)
      BY <2>2, VmasFacts
    <2>4. QED
      BY <2>1, <2>3, RowIsOfVma
  <1>2. ASSUME NEW v \in Vmas(mappings) PROVE RowOf(v, base) \in Own(base)
    <2>1. PICK p \in Pages(mappings) : ~Continues(mappings, p) /\ v = VmaFrom(mappings, p)
      BY VmasFacts
    <2>2. PICK i \in Loads(Segs) : p \in PagesOf(i)
      BY PageOfProcess
    <2>3. p - Page \in PagesOf(i) => ~Alike(i, p - Page, p)
      BY <2>1, <2>2, ContinuesInSegment
    <2>4. RowFrom(i, p, base) \in Own(base)
      BY <2>2, <2>3 DEF Own
    <2>5. QED
      BY <2>1, <2>2, <2>4, RowIsOfVma
  <1>3. QED
    BY <1>1, <1>2

\* How the vmas lie: they are apart, an anonymous one continues another, and one
\* starts at the lowest page.
LEMMA VmasLie ==
    ASSUME Comparable
    PROVE  /\ IsFiniteSet(Vmas(mappings)) /\ Vmas(mappings) # {}
           /\ \A v \in Vmas(mappings) : v.start \in Nat /\ v.end \in Nat /\ v.start < v.end
           /\ \A v, w \in Vmas(mappings) : v = w \/ v.end <= w.start \/ w.end <= v.start
           /\ \A v \in Vmas(mappings) :
                 v.offset = Anonymous => \E u \in Vmas(mappings) : u.end = v.start
           /\ \E v \in Vmas(mappings) : v.start = LowestPage
  <1> DEFINE M == mappings
             S == {p \in Pages(M) : ~Continues(M, p)}
  <1>1. /\ Bounded(M) /\ Pages(M) \in SUBSET Nat /\ Page \in Nat \ {0}
        /\ \A p \in Pages(M) : p \in Nat /\ IsPage(p) /\ p \in Run(M, p)
    <2>1. Bounded(M) /\ \A p \in Pages(M) : p \in Nat /\ IsPage(p)
      BY ComparableFacts, PagesFacts DEF IsPage, Bounded
    <2>2. \A p \in Pages(M) : p \in Run(M, p)
      BY <2>1 DEF Run
    <2>3. QED
      BY <2>1, <2>2, PageAssumption
  <1>2. \A p \in Pages(M) : /\ RunEnd(M, p) \in Nat /\ p < RunEnd(M, p)
                            /\ RunEnd(M, p) - Page \in Run(M, p)
    BY <1>1, RunEndFacts
  <1>3. \A v : v \in Vmas(M) <=> \E p \in S : v = VmaFrom(M, p)
    BY VmasFacts
  <1>4. \A p : VmaFrom(M, p).start = p /\ VmaFrom(M, p).end = RunEnd(M, p)
    BY DEF VmaFrom
  <1>5. IsFiniteSet(Vmas(M))
    <2>1. PICK c \in Nat : \A p \in Pages(M) : p <= c
      BY <1>1, PagesAreBounded
    <2>2. S \in SUBSET (0 .. c)
      BY <1>1, <2>1
    <2>3. IsFiniteSet(S)
      <3>1. PICK D : D = 0 .. c /\ IsFiniteSet(D)
        BY FS_Interval
      <3>2. QED
        BY <2>2, <3>1, FS_Subset
    <2>4. PICK f : f = [p \in S |-> VmaFrom(M, p)]
      OBVIOUS
    <2>5. f \in Surjection(S, Vmas(M))
      BY <1>3, <2>4 DEF Surjection
    <2>6. QED
      BY <2>3, <2>5, FS_Surjection
  <1>6. ASSUME NEW v \in Vmas(M)
        PROVE  v.start \in Nat /\ v.end \in Nat /\ v.start < v.end
    BY <1>1, <1>2, <1>3, <1>4
  <1>7. ASSUME NEW p \in S, NEW q \in S, p < q
        PROVE  RunEnd(M, p) <= q
    <2>1. q \notin Run(M, p)
      BY <1>1, <1>7, RunIsTheOnly
    <2>2. ~(p <= q /\ q < RunEnd(M, p))
      BY <1>1, <2>1, RunEndFacts
    <2>3. QED
      BY <1>1, <1>2, <1>7, <2>2
  <1>8. ASSUME NEW v \in Vmas(M), NEW w \in Vmas(M)
        PROVE  v = w \/ v.end <= w.start \/ w.end <= v.start
    <2>1. PICK p \in S, q \in S : v = VmaFrom(M, p) /\ w = VmaFrom(M, q)
      BY <1>3
    <2>2. p \in Nat /\ q \in Nat
      BY <1>1
    <2>3. p = q \/ p < q \/ q < p
      BY <2>2
    <2>4. QED
      BY <1>4, <1>7, <2>1, <2>3
  <1>9. ASSUME NEW v \in Vmas(M), v.offset = Anonymous
        PROVE  \E u \in Vmas(M) : u.end = v.start
    <2>1. PICK p \in S : v = VmaFrom(M, p)
      BY <1>3
    <2>2. PICK i \in Loads(Segs) : p \in PagesOf(i)
      BY PageOfProcess
    <2>3. PICK q : q = p - Page
      OBVIOUS
    <2>4. ~IsOfFile(i, p)
      <3>1. PageAt(M, p).offset = Anonymous
        BY <1>9, <2>1 DEF VmaFrom
      <3>2. PageShown(i, p) = Anonymous
        BY <2>2, <3>1, PageShowsSegment
      <3>3. IsOfFile(i, p) => PageShown(i, p) \in Nat
        BY <2>2, PageShowsSegment
      <3>4. QED
        BY <3>2, <3>3 DEF Anonymous
    <2>5. q \in PagesOf(i)
      <3>1. PICK x \in Nat, lo \in Nat, hi \in Nat :
               x = Segs[i].vaddr /\ lo = PageDown(x) /\ hi = PageUp(MemEnd(Segs[i]))
        BY SegmentBounds
      <3>2. IsPage(p) /\ lo <= p /\ p < hi /\ p \in Nat
        BY <2>2, <3>1, PagesOfFacts DEF IsPage
      <3>3. IsPage(lo) /\ lo <= x
        BY <3>1, PageDownIsPage
      <3>4. p # lo
        <4>1. x < x + Segs[i].filesz /\ Segs[i].filesz \in Nat
          BY <3>1, SegmentBounds
        <4>2. p = lo => IsOfFile(i, p)
          BY <2>2, <3>1, <3>2, <4>1, PagesOfBytes
        <4>3. QED
          BY <2>4, <4>2
      <3>5. lo + Page <= p
        BY <3>2, <3>3, <3>4, PagesStep
      <3>6. q \in Nat /\ lo <= q /\ q < hi
        BY <1>1, <2>3, <3>1, <3>2, <3>5
      <3>7. IsPage(q)
        BY <2>3, <3>2, <3>6, PageBefore
      <3>8. QED
        BY <3>1, <3>6, <3>7, PagesOfFacts
    <2>6. q \in Pages(M)
      BY <2>5, PageOfProcess
    <2>7. PICK o \in Pages(M) : ~Continues(M, o) /\ q \in Run(M, o)
      BY <1>1, <2>6, RunExists
    <2>8. o \in S /\ o <= q /\ o \in Nat /\ q \in Nat /\ p \in Nat
      BY <1>1, <2>6, <2>7 DEF Run
    <2>9. o < p /\ q < RunEnd(M, o)
      <3>1. q < RunEnd(M, o)
        BY <1>1, <2>6, <2>7, RunEndFacts
      <3>2. QED
        BY <1>1, <2>3, <2>8, <3>1
    <2>10. RunEnd(M, o) <= p
      BY <1>7, <2>8, <2>9
    <2>11. p <= RunEnd(M, o)
      <3>1. PICK e : e = RunEnd(M, o) - Page
        OBVIOUS
      <3>2. e \in Pages(M) /\ o <= e
        BY <1>2, <2>8, <3>1 DEF Run
      <3>3. IsPage(e) /\ e \in Nat /\ RunEnd(M, o) = e + Page /\ IsPage(q)
        BY <1>1, <1>2, <2>6, <2>8, <3>1, <3>2
      <3>4. ~(e < q)
        <4>1. e < q => e + Page <= q
          BY <3>3, PagesStep
        <4>2. QED
          BY <1>1, <2>8, <2>9, <3>3, <4>1
      <3>5. QED
        BY <1>1, <2>3, <2>8, <3>3, <3>4
    <2>12. RunEnd(M, o) = p
      BY <1>2, <2>7, <2>8, <2>10, <2>11
    <2>13. QED
      BY <1>3, <1>4, <2>1, <2>8, <2>12
  <1>10. PICK i \in Loads(Segs) : TRUE
    BY DEF Comparable
  <1>11. Pages(M) # {}
    <2>1. PICK x \in Nat : x = Segs[i].vaddr /\ x < MemEnd(Segs[i])
      BY SegmentBounds
    <2>2. IsPage(PageDown(x)) /\ x <= x
      BY <2>1, PageDownIsPage
    <2>3. PageDown(x) \in PagesOf(i)
      BY <2>1, <2>2, PagesOfBytes
    <2>4. QED
      BY <2>3, PageOfProcess
  <1>12. LowestPage \in Pages(M) /\ \A q \in Pages(M) : LowestPage <= q
    <2>1. \E p \in Pages(M) : \A q \in Pages(M) : p <= q
      BY <1>1, <1>11, LeastOf
    <2>2. QED
      BY <2>1 DEF LowestPage
  <1>13. LowestPage \in S
    <2>1. PICK l \in Nat : l = LowestPage
      BY <1>1, <1>12
    <2>2. l - Page \notin Pages(M)
      <3>1. l - Page \in Pages(M) => l <= l - Page
        BY <1>12, <2>1
      <3>2. QED
        BY <1>1, <2>1, <3>1
    <2>3. ~Continues(M, l)
      BY <2>2 DEF Continues
    <2>4. QED
      BY <1>12, <2>1, <2>3
  <1>14. VmaFrom(M, LowestPage) \in Vmas(M) /\ VmaFrom(M, LowestPage).start = LowestPage
    BY <1>3, <1>4, <1>13
  <1>15. QED
    BY <1>5, <1>6, <1>8, <1>9, <1>14

-----------------------------------------------------------------------------
(* Which rows are taken, of the target's rows O and the rows T beside them. *)

TargetRows(O) ==
    /\ IsFiniteSet(O) /\ O # {}
    /\ \A r \in O : r.start \in Nat /\ r.end \in Nat /\ r.start < r.end /\ r.path \in {"none", "target"}
    /\ \A r, q \in O : r = q \/ r.end <= q.start \/ q.end <= r.start
    /\ \A r \in O : r.path = "none" => \E q \in O : q.end = r.start

OtherRows(T, O) ==
    /\ IsFiniteSet(T)
    /\ \A t \in T : t.start \in Int /\ ~NamedLike(t.path)
    /\ \A t \in T : (\A r \in O : t.start < r.start) \/ (\A r \in O : r.end <= t.start)
    /\ \A t \in T : t.path = "none" => \A r \in O : r.end # t.start
    /\ \A t, u \in T : t.start = u.start => t = u

LEMMA OwnLies ==
    ASSUME Comparable, NEW base \in Nat
    PROVE  TargetRows(Own(base))
  <1> DEFINE O == Own(base)
  <1>1. O = {RowOf(v, base) : v \in Vmas(mappings)}
    BY OwnIsOfVmas
  <1>2. \A v \in Vmas(mappings) : v.start \in Nat /\ v.end \in Nat /\ v.start < v.end
    BY VmasLie
  <1>3. \A v : /\ RowOf(v, base).start = base + v.start /\ RowOf(v, base).end = base + v.end
               /\ RowOf(v, base).path \in {"none", "target"}
               /\ RowOf(v, base).path = "none" => v.offset = Anonymous
    BY DEF RowOf, Row
  <1> HIDE DEF O
  <1>4. IsFiniteSet(O) /\ O # {}
    <2>1. PICK V : V = Vmas(mappings)
      OBVIOUS
    <2>2. PICK f : f = [v \in V |-> RowOf(v, base)]
      OBVIOUS
    <2>3. f \in Surjection(V, O)
      BY <1>1, <2>1, <2>2 DEF Surjection
    <2>4. IsFiniteSet(V) /\ V # {}
      BY <2>1, VmasLie
    <2>5. QED
      BY <1>1, <2>1, <2>3, <2>4, FS_Surjection
  <1>5. ASSUME NEW r \in O
        PROVE  r.start \in Nat /\ r.end \in Nat /\ r.start < r.end /\ r.path \in {"none", "target"}
    <2>1. PICK v \in Vmas(mappings) : r = RowOf(v, base)
      BY <1>1
    <2>2. PICK a \in Nat, b \in Nat : a = v.start /\ b = v.end /\ a < b
      BY <1>2
    <2>3. PICK x \in Nat, y \in Nat : x = base + a /\ y = base + b /\ x < y
      BY <2>2
    <2>4. r.start = x /\ r.end = y
      BY <1>3, <2>1, <2>2, <2>3
    <2>5. r.path \in {"none", "target"}
      BY <1>3, <2>1
    <2>6. QED
      BY <2>3, <2>4, <2>5
  <1>6. ASSUME NEW r \in O, NEW q \in O
        PROVE  r = q \/ r.end <= q.start \/ q.end <= r.start
    <2>1. PICK v \in Vmas(mappings), w \in Vmas(mappings) : r = RowOf(v, base) /\ q = RowOf(w, base)
      BY <1>1
    <2>2. v = w \/ v.end <= w.start \/ w.end <= v.start
      BY VmasLie
    <2>3. PICK a \in Nat, b \in Nat : a = v.start /\ b = v.end
      BY <1>2
    <2>4. PICK c \in Nat, d \in Nat : c = w.start /\ d = w.end
      BY <1>2
    <2>5. r.start = base + a /\ r.end = base + b /\ q.start = base + c /\ q.end = base + d
      BY <1>3, <2>1, <2>3, <2>4
    <2>6. v = w \/ b <= c \/ d <= a
      BY <2>2, <2>3, <2>4
    <2>7. b <= c => r.end <= q.start
      BY <2>3, <2>4, <2>5
    <2>8. d <= a => q.end <= r.start
      BY <2>3, <2>4, <2>5
    <2>9. QED
      BY <2>1, <2>6, <2>7, <2>8
  <1>7. ASSUME NEW r \in O, r.path = "none"
        PROVE  \E q \in O : q.end = r.start
    <2>1. PICK v \in Vmas(mappings) : r = RowOf(v, base)
      BY <1>1
    <2>2. PICK u \in Vmas(mappings) : u.end = v.start
      BY <1>3, <1>7, <2>1, VmasLie
    <2>3. QED
      BY <1>1, <1>3, <2>1, <2>2
  <1>8. QED
    BY <1>4, <1>5, <1>6, <1>7 DEF O, TargetRows

\* What is put beside the target is none of its rows, and continues none without
\* a name of its own.
LEMMA NeighboursLie ==
    ASSUME NEW O, TargetRows(O), NEW T \in Neighbours(O), \A t \in T : ~NamedLike(t.path)
    PROVE  OtherRows(T, O)
  <1> DEFINE first == CHOOSE a \in {r.start : r \in O} : \A r \in O : a <= r.start
             last == CHOOSE a \in {r.end : r \in O} : \A r \in O : r.end <= a
  <1>1. IsFiniteSet(O) /\ O # {} /\ Page \in Nat \ {0}
        /\ \A r \in O : r.start \in Nat /\ r.end \in Nat /\ r.start < r.end
    BY PageAssumption DEF TargetRows
  <1>2. first \in Nat /\ \A r \in O : first <= r.start
    <2>1. {r.start : r \in O} \in SUBSET Nat /\ {r.start : r \in O} # {}
      BY <1>1
    <2>2. \E a \in {r.start : r \in O} : \A b \in {r.start : r \in O} : a <= b
      BY <2>1, LeastOf
    <2>3. \E a \in {r.start : r \in O} : \A r \in O : a <= r.start
      BY <2>2
    <2>4. QED
      BY <2>1, <2>3
  <1>3. last \in Nat /\ \A r \in O : r.end <= last
    <2>1. PICK S : S = {r.end : r \in O}
      OBVIOUS
    <2>2. S \in SUBSET Nat /\ S # {}
      BY <1>1, <2>1
    <2>3. IsFiniteSet(S)
      <3>1. PICK f : f = [r \in O |-> r.end]
        OBVIOUS
      <3>2. f \in Surjection(O, S)
        BY <2>1, <3>1 DEF Surjection
      <3>3. QED
        BY <1>1, <3>2, FS_Surjection
    <2>4. \E a \in S : \A b \in S : b <= a
      <3>1. PICK leq : leq = {p \in Nat \X Nat : p[2] <= p[1]}
        OBVIOUS
      <3>2. \A x, y \in Nat : <<x, y>> \in leq <=> y <= x
        BY <3>1
      <3>3. IsOrder(leq, S)
        BY <2>2, <3>2 DEF IsOrder
      <3>4. \E a \in S : \A b \in S : <<a, b>> \in leq
        BY <2>2, <2>3, <3>3, FirstExists
      <3>5. QED
        BY <2>2, <3>2, <3>4
    <2>5. \E a \in {r.end : r \in O} : \A r \in O : r.end <= a
      BY <2>1, <2>4
    <2>6. QED
      BY <1>1, <2>5
  <1>4. T \in {{},
         {Row(first - Page, first, {"r"}, 0, "library")},
         {Row(first - Page, first, {"r", "w"}, 0, "none")},
         {Row(last, last + Page, {"r", "w"}, 0, "heap")},
         {Row(last + Page, last + 2 * Page, {"r", "w"}, 0, "none")},
         {Row(last, last + Page, {"r"}, 0, "library"), Row(last + Page, last + 2 * Page, {"r"}, 0, "none")}}
    <2>1. PICK x : x = Row(first - Page, first, {"r"}, 0, "libtarget")
      OBVIOUS
    <2>2. NamedLike(x.path)
      BY <2>1 DEF Row, NamedLike
    <2>3. T # {x}
      BY <2>2
    <2>4. QED
      BY <2>1, <2>3 DEF Neighbours
  <1> HIDE DEF first, last
  <1>5. \A a, b, c, d, e : Row(a, b, c, d, e).start = a /\ Row(a, b, c, d, e).path = e
    BY DEF Row
  <1>6. PICK a \in Int, b \in Nat, c \in Nat : a = first - Page /\ b = last /\ c = last + Page
    BY <1>1, <1>2, <1>3
  <1>7. a < first /\ a < b /\ b < c
    <2>1. PICK r \in O : TRUE
      BY <1>1
    <2>2. first <= r.start /\ r.end <= b
      BY <1>2, <1>3, <1>6
    <2>3. QED
      BY <1>1, <1>2, <1>6, <2>2
  <1>8. \/ T = {}
        \/ \E x : T = {x} /\ x.start = a /\ x.path \in {"library", "none"}
        \/ \E x : T = {x} /\ x.start = b /\ x.path = "heap"
        \/ \E x : T = {x} /\ x.start = c /\ x.path = "none"
        \/ \E x, y : T = {x, y} /\ x.start = b /\ x.path = "library" /\ y.start = c /\ y.path = "none"
    <2>1. PICK x : x = Row(first - Page, first, {"r"}, 0, "library")
      OBVIOUS
    <2>2. PICK y : y = Row(first - Page, first, {"r", "w"}, 0, "none")
      OBVIOUS
    <2>3. PICK h : h = Row(last, last + Page, {"r", "w"}, 0, "heap")
      OBVIOUS
    <2>4. PICK w : w = Row(last + Page, last + 2 * Page, {"r", "w"}, 0, "none")
      OBVIOUS
    <2>5. PICK u : u = Row(last, last + Page, {"r"}, 0, "library")
      OBVIOUS
    <2>6. PICK v : v = Row(last + Page, last + 2 * Page, {"r"}, 0, "none")
      OBVIOUS
    <2>7. /\ x.start = a /\ x.path = "library" /\ y.start = a /\ y.path = "none"
          /\ h.start = b /\ h.path = "heap" /\ w.start = c /\ w.path = "none"
          /\ u.start = b /\ u.path = "library" /\ v.start = c /\ v.path = "none"
      <3>1. x.start = a /\ x.path = "library"
        BY <1>5, <1>6, <2>1
      <3>2. y.start = a /\ y.path = "none"
        BY <1>6, <2>2 DEF Row
      <3>3. h.start = b /\ h.path = "heap"
        BY <1>5, <1>6, <2>3
      <3>4. w.start = c /\ w.path = "none"
        BY <1>6, <2>4 DEF Row
      <3>5. u.start = b /\ u.path = "library"
        BY <1>5, <1>6, <2>5
      <3>6. v.start = c /\ v.path = "none"
        BY <1>6, <2>6 DEF Row
      <3>7. QED
        BY <3>1, <3>2, <3>3, <3>4, <3>5, <3>6
    <2>8. T = {} \/ T = {x} \/ T = {y} \/ T = {h} \/ T = {w} \/ T = {u, v}
      BY <1>4, <2>1, <2>2, <2>3, <2>4, <2>5, <2>6
    <2>9. QED
      BY <2>7, <2>8, Zenon
  <1>9. IsFiniteSet(T) /\ \A t, u \in T : t.start = u.start => t = u
    <2>1. CASE T = {}
      BY <2>1, FS_EmptySet
    <2>2. CASE \E x : T = {x}
      BY <2>2, FS_Singleton
    <2>3. CASE \E x, y : T = {x, y} /\ x.start = b /\ y.start = c
      <3>1. PICK x, y : T = {x, y} /\ x.start = b /\ y.start = c
        BY <2>3
      <3>2. PICK D : D = {x} /\ IsFiniteSet(D)
        BY FS_Singleton
      <3>3. IsFiniteSet(D \cup {y}) /\ T = D \cup {y}
        BY <3>1, <3>2, FS_AddElement
      <3>4. x.start # y.start
        BY <1>6, <1>7, <3>1
      <3>5. QED
        BY <3>1, <3>3, <3>4
    <2>4. QED
      BY <1>8, <2>1, <2>2, <2>3
  <1>10. \A t \in T : \/ t.start = a /\ t.path \in {"library", "none"}
                      \/ t.start = b /\ t.path \in {"library", "heap"}
                      \/ t.start = c /\ t.path = "none"
    BY <1>8
  <1> DEFINE Before(x) == \A r \in O : x < r.start
             After(x) == \A r \in O : r.end <= x
             Unlike(x) == \A r \in O : r.end # x
  <1>11. Before(a) /\ Unlike(a) /\ After(b) /\ After(c) /\ Unlike(c)
    <2>1. ASSUME NEW r \in O PROVE a < r.start /\ r.end # a
      BY <1>1, <1>2, <1>6, <1>7
    <2>2. ASSUME NEW r \in O PROVE r.end <= b /\ r.end <= c /\ r.end # c
      <3>1. r.end <= b /\ r.end \in Nat
        BY <1>1, <1>3, <1>6
      <3>2. QED
        BY <1>6, <1>7, <3>1
    <2>3. QED
      BY <2>1, <2>2
  <1> HIDE DEF Before, After, Unlike
  <1>12. ASSUME NEW t \in T
         PROVE  t.start \in Int /\ ~NamedLike(t.path) /\ (Before(t.start) \/ After(t.start))
                /\ (t.path = "none" => Unlike(t.start))
    <2>1. CASE t.start = a /\ t.path \in {"library", "none"}
      BY <1>11, <2>1, Zenon
    <2>2. CASE t.start = b /\ t.path \in {"library", "heap"}
      <3>1. "library" # "none" /\ "heap" # "none"
        OBVIOUS
      <3>2. t.path # "none"
        BY <2>2, <3>1
      <3>3. b \in Int /\ t.start = b
        BY <1>6, <2>2
      <3>4. QED
        BY <1>11, <3>2, <3>3, Zenon
    <2>3. CASE t.start = c /\ t.path = "none"
      <3>1. c \in Int
        BY <1>6
      <3>2. QED
        BY <1>11, <2>3, <3>1, Zenon
    <2>4. QED
      BY <1>10, <2>1, <2>2, <2>3
  <1>13. QED
    BY <1>9, <1>12 DEF OtherRows, Before, After, Unlike

\* Ordered puts rows in the order of their addresses.
StartOrder(S) == {p \in S \X S : StartsBefore(p[1], p[2])}
Ascending(s) == \A j, k \in 1 .. Len(s) : j < k => s[j].start < s[k].start

LEMMA RowsInOrder ==
    ASSUME NEW S, IsFiniteSet(S), \A r \in S : r.start \in Int,
           \A r, q \in S : r.start = q.start => r = q
    PROVE  ListOf(Ordered(S, StartsBefore), S) /\ Ascending(Ordered(S, StartsBefore))
  <1> DEFINE next(g, T) == IF T = {} THEN <<>>
                           ELSE LET x == CHOOSE y \in T : \A z \in T : StartsBefore(y, z)
                                IN  <<x>> \o g[T \ {x}]
             iter == CHOOSE g : g = [T \in SUBSET S |-> next(g, T)]
             first(T) == CHOOSE y \in T : \A z \in T : StartsBefore(y, z)
  <1>1. Ordered(S, StartsBefore) = iter[S]
    BY Zenon DEF Ordered
  <1>2. IsOrder(StartOrder(S), S)
    <2>1. \A x, y \in S : StartsBefore(x, y) \/ StartsBefore(y, x)
      BY DEF StartsBefore
    <2>2. \A x, y, z \in S : StartsBefore(x, y) /\ StartsBefore(y, z) => StartsBefore(x, z)
      BY DEF StartsBefore
    <2>3. QED
      BY <2>1, <2>2 DEF IsOrder, StartOrder
  <1>3. ASSUME NEW T \in SUBSET S, T # {}
        PROVE  first(T) \in T /\ \A y \in T : StartsBefore(first(T), y)
    <2>1. IsFiniteSet(T) /\ IsOrder(StartOrder(S), T)
      BY <1>2, FS_Subset DEF IsOrder
    <2>2. \E x \in T : \A y \in T : <<x, y>> \in StartOrder(S)
      BY <1>3, <2>1, FirstExists
    <2>3. \E x \in T : \A y \in T : StartsBefore(x, y)
      BY <2>2 DEF StartOrder
    <2>4. QED
      BY <2>3
  <1>4. PICK c : c = [T \in SUBSET S |-> first(T)]
    OBVIOUS
  <1>5. \A T \in SUBSET S : c[T] = first(T)
    BY <1>4
  <1>6. \A g : \A T \in SUBSET S : next(g, T) = Listing(c, g, T)
    <2> SUFFICES ASSUME NEW g, NEW T \in SUBSET S
                 PROVE  next(g, T) = Listing(c, g, T)
      OBVIOUS
    <2>1. c[T] = first(T)
      BY <1>5
    <2>2. next(g, T) = IF T = {} THEN <<>> ELSE <<first(T)>> \o g[T \ {first(T)}]
      BY Zenon
    <2> HIDE DEF next, first
    <2>3. QED
      BY <2>1, <2>2 DEF Listing
  <1>7. Chooses(c, S)
    BY <1>3, <1>5 DEF Chooses
  <1>8. \A T \in SUBSET S : \A y \in T : <<c[T], y>> \in StartOrder(S)
    BY <1>3, <1>5 DEF StartOrder
  <1> HIDE DEF next, first
  <1>9. PICK g : IsListing(g, c, S)
    BY <1>7, ListingExists
  <1>10. g = [T \in SUBSET S |-> next(g, T)]
    BY <1>6, <1>9 DEF IsListing
  <1>11. iter = [T \in SUBSET S |-> next(iter, T)]
    BY <1>10, Zenon
  <1> HIDE DEF iter
  <1>12. IsListing(iter, c, S)
    BY <1>6, <1>11 DEF IsListing
  <1>13. ListOf(iter[S], S) /\ InOrder(iter[S], StartOrder(S))
    BY <1>7, <1>8, <1>12, SortFacts
  <1>14. Ascending(iter[S])
    <2>1. PICK s : s = iter[S]
      OBVIOUS
    <2>2. SUFFICES ASSUME NEW j \in 1 .. Len(s), NEW k \in 1 .. Len(s), j < k
                   PROVE  s[j].start < s[k].start
      BY <2>1 DEF Ascending
    <2>3. Len(s) \in Nat /\ s[j] \in S /\ s[k] \in S /\ s[j] # s[k]
      BY <1>13, <2>1, <2>2 DEF ListOf
    <2>4. j <= k
      BY <2>2, <2>3
    <2>5. <<s[j], s[k]>> \in StartOrder(S)
      BY <1>13, <2>1, <2>4 DEF InOrder
    <2>6. s[j].start <= s[k].start
      BY <2>5 DEF StartOrder, StartsBefore
    <2>7. s[j].start # s[k].start
      BY <2>3
    <2>8. QED
      BY <2>3, <2>6, <2>7
  <1>15. QED
    BY <1>1, <1>13, <1>14

-----------------------------------------------------------------------------
(* The rows are taken one by one.                                          *)

Taken(S) == [rows : Seq(S), taking : BOOLEAN]
Taking(Q, g, s) == IF s = {} THEN NothingTaken ELSE Take(g[s \ {SX!Max(s)}], Q[SX!Max(s)])
Takes(h, Q, n) ==
    /\ h[0] = NothingTaken
    /\ \A k \in 1 .. n : h[k] = Take(h[k - 1], Q[k])

LEMMA TakeIsTaken ==
    ASSUME NEW S, NEW st \in Taken(S), NEW r \in S
    PROVE  Take(st, r) \in Taken(S)
  <1>1. st.rows \in Seq(S) /\ Append(st.rows, r) \in Seq(S) /\ st.taking \in BOOLEAN
    BY DEF Taken
  <1>2. PICK b \in BOOLEAN : b = (st.taking /\ r.path = "none")
    OBVIOUS
  <1>3. CASE NamedLike(r.path) \/ ContinuesMine(st, r)
    <2>1. Take(st, r) = [rows |-> Append(st.rows, r), taking |-> TRUE]
      BY <1>3 DEF Take
    <2>2. QED
      BY <1>1, <2>1 DEF Taken
  <1>4. CASE ~(NamedLike(r.path) \/ ContinuesMine(st, r))
    <2>1. Take(st, r) = [rows |-> st.rows, taking |-> b]
      BY <1>2, <1>4, Zenon DEF Take
    <2>2. QED
      BY <1>1, <1>2, <2>1 DEF Taken
  <1>5. QED
    BY <1>3, <1>4

LEMMA TakenStepByStep ==
    ASSUME NEW S, NEW n \in Nat, NEW Q, DOMAIN Q = 1 .. n, \A k \in 1 .. n : Q[k] \in S
    PROVE  \E h : Takes(h, Q, n) /\ h[n] = SX!FoldLeft(Take, NothingTaken, Q)
  <1> DEFINE D == 1 .. n
             next(g, s) == IF s = {} THEN NothingTaken
                           ELSE LET x == SX!Max(s) IN Take(g[s \ {x}], Q[x])
             iter == CHOOSE g : g = [s \in SUBSET D |-> next(g, s)]
  <1>1. SX!FoldLeft(Take, NothingTaken, Q) = iter[D]
    <2>1. D = DOMAIN Q
      OBVIOUS
    <2> HIDE DEF D
    <2>2. SX!FoldLeft(Take, NothingTaken, Q)
             = (CHOOSE g : g = [s \in SUBSET (DOMAIN Q) |-> next(g, s)])[DOMAIN Q]
      BY Zenon DEF SX!FoldLeft, SX!MapThenFoldSet
    <2>3. QED
      BY <2>1, <2>2, Zenon
  <1>2. \A g, s : next(g, s) = Taking(Q, g, s)
    BY Zenon DEF Taking
  <1> HIDE DEF next
  <1>3. \E g : g = [s \in SUBSET D |-> next(g, s)]
    <2>1. PICK V, c, op : /\ V = Taken(S)
                          /\ c = [s \in SUBSET D |-> SX!Max(s)]
                          /\ op = [p \in D \X V |-> Take(p[2], Q[p[1]])]
      OBVIOUS
    <2>2. op \in [D \X V -> V]
      <3>1. ASSUME NEW st \in Taken(S), NEW k \in D
            PROVE  Take(st, Q[k]) \in Taken(S)
        BY TakeIsTaken
      <3>2. QED
        BY <2>1, <3>1
    <2>3. ASSUME NEW s \in SUBSET D, s # {}
          PROVE  SX!Max(s) \in s /\ c[s] = SX!Max(s)
      BY <2>1, <2>3, LastFacts
    <2>4. PICK g : TakesOut(g, D, V, NothingTaken, c, op)
      <3>1. PICK base : base = NothingTaken /\ base \in V
        <4>1. <<>> \in Seq(S)
          OBVIOUS
        <4>2. NothingTaken \in Taken(S)
          BY <4>1 DEF NothingTaken, Taken
        <4>3. QED
          BY <2>1, <4>2
      <3>2. Chooses(c, D)
        BY <2>3 DEF Chooses
      <3>3. PICK F : F = D /\ IsFiniteSet(F)
        BY FS_Interval
      <3>4. op \in [F \X V -> V] /\ Chooses(c, F)
        BY <2>2, <3>2, <3>3
      <3>5. PICK g : TakesOut(g, F, V, base, c, op)
        <4> HIDE DEF D
        <4>1. QED
          BY <3>1, <3>3, <3>4, FoldExists
      <3>6. QED
        BY <3>1, <3>3, <3>5
    <2>5. ASSUME NEW s \in SUBSET D
          PROVE  g[s] = next(g, s)
      <3>1. CASE s = {}
        BY <1>2, <2>4, <3>1 DEF TakesOut, TakeOut, Taking
      <3>2. CASE s # {}
        <4>1. PICK x \in D, r \in SUBSET D : x = SX!Max(s) /\ r = s \ {SX!Max(s)} /\ c[s] = x
          BY <2>3, <3>2
        <4>2. g[r] \in V
          BY <2>4 DEF TakesOut
        <4>3. op[<<x, g[r]>>] = Take(g[r], Q[x])
          BY <2>1, <4>2
        <4>4. g[s] = op[<<x, g[r]>>]
          BY <2>4, <3>2, <4>1 DEF TakesOut, TakeOut
        <4>5. next(g, s) = Take(g[r], Q[x])
          BY <1>2, <3>2, <4>1 DEF Taking
        <4>6. QED
          BY <4>3, <4>4, <4>5
      <3>3. QED
        BY <3>1, <3>2
    <2>6. g = [s \in SUBSET D |-> next(g, s)]
      BY <2>4, <2>5 DEF TakesOut
    <2>7. QED
      BY <2>6
  <1>4. iter = [s \in SUBSET D |-> next(iter, s)]
    BY <1>3, Zenon
  <1> HIDE DEF iter
  <1>5. \A s \in SUBSET D : iter[s] = Taking(Q, iter, s)
    BY <1>2, <1>4
  <1>6. PICK h : h = [k \in 0 .. n |-> iter[1 .. k]]
    OBVIOUS
  <1>7. h[0] = NothingTaken
    <2>1. 1 .. 0 = {} /\ {} \in SUBSET D
      OBVIOUS
    <2>2. iter[{}] = NothingTaken
      BY <1>5, <2>1 DEF Taking
    <2>3. QED
      BY <1>6, <2>1, <2>2
  <1>8. ASSUME NEW k \in 1 .. n
        PROVE  h[k] = Take(h[k - 1], Q[k])
    <2>1. PICK s : s = 1 .. k
      OBVIOUS
    <2>2. s \in SUBSET D /\ k \in s /\ s # {} /\ \A x \in s : x <= k
      BY <2>1
    <2>3. s \ {k} = 1 .. (k - 1)
      <3>1. \A x \in Int : x <= k /\ x # k <=> x <= k - 1
        OBVIOUS
      <3>2. QED
        BY <2>1, <3>1
    <2>4. SX!Max(s) = k
      <3>1. SX!Max(s) \in s /\ k <= SX!Max(s)
        BY <2>2, LastFacts
      <3>2. SX!Max(s) \in 1 .. k
        BY <2>1, <3>1
      <3>3. QED
        BY <3>1, <3>2
    <2>5. iter[s] = Take(iter[1 .. (k - 1)], Q[k])
      BY <1>5, <2>2, <2>3, <2>4 DEF Taking
    <2>6. h[k] = iter[s] /\ h[k - 1] = iter[1 .. (k - 1)]
      BY <1>6, <2>1
    <2>7. QED
      BY <2>5, <2>6
  <1>9. h[n] = SX!FoldLeft(Take, NothingTaken, Q)
    BY <1>1, <1>6
  <1>10. QED
    BY <1>7, <1>8, <1>9 DEF Takes


\* What has been taken when k rows of o have been read: the target's among them.
TakenSoFar(st, k, o, O) ==
    /\ st.rows \in Seq(O)
    /\ \A i \in 1 .. k : o[i] \in O => \E j \in 1 .. Len(st.rows) : st.rows[j] = o[i]
    /\ k > 0 /\ o[k] \in O =>
          st.taking /\ st.rows # <<>> /\ st.rows[Len(st.rows)] = o[k]
    /\ st.rows # <<>> =>
          \E i \in 1 .. k : st.rows[1] = o[i] /\ \A m \in 1 .. i - 1 : o[m] \notin O

\* A row of the target without a name comes right behind the one it continues.
Follows(o, k, O) == k - 1 \in 1 .. Len(o) /\ o[k - 1] \in O /\ o[k - 1].end = o[k].start

LEMMA BehindMine ==
    ASSUME NEW O, NEW T, TargetRows(O), OtherRows(T, O),
           NEW o, ListOf(o, O \cup T), Ascending(o),
           NEW k \in 1 .. Len(o), o[k] \in O, o[k].path = "none"
    PROVE  Follows(o, k, O)
  <1>1. PICK u \in O : u.end = o[k].start
    BY DEF TargetRows
  <1>2. PICK i \in 1 .. Len(o) : o[i] = u
    BY <1>1 DEF ListOf
  <1>3. PICK n \in Nat : n = Len(o) /\ \A m \in 1 .. n : o[m] \in O \cup T
    <2>1. PICK S : S = O \cup T
      OBVIOUS
    <2>2. o \in Seq(S)
      BY <2>1 DEF ListOf
    <2>3. Len(o) \in Nat /\ \A m \in 1 .. Len(o) : o[m] \in S
      BY <2>2
    <2>4. QED
      BY <2>1, <2>3
  <1>4. \A r \in O : r.start \in Nat /\ r.end \in Nat /\ r.start < r.end
    BY DEF TargetRows
  <1>5. u.start < o[k].start /\ o[k].start \in Nat /\ u.start \in Nat
    BY <1>1, <1>4
  <1>6. ~(k < i) /\ k # i
    <2>1. k < i => o[k].start < u.start
      BY <1>2 DEF Ascending
    <2>2. PICK a \in Nat, b \in Nat : a = u.start /\ b = o[k].start /\ a < b
      BY <1>5
    <2>3. ~(b < a) /\ a # b
      BY <2>2
    <2>4. k = i => b = a
      BY <1>2, <2>2
    <2>5. QED
      BY <2>1, <2>2, <2>3, <2>4, Zenon
  <1>7. i = k - 1
    <2> SUFFICES ASSUME i # k - 1 PROVE FALSE
      OBVIOUS
    <2>1. k - 1 \in 1 .. n /\ i < k - 1 /\ k - 1 < k /\ k \in 1 .. n /\ i \in 1 .. n
      <3>1. k \in 1 .. n /\ i \in 1 .. n
        BY <1>3
      <3>2. QED
        BY <1>3, <1>6, <3>1
    <2>2. PICK w : w = o[k - 1]
      OBVIOUS
    <2>3. u.start < w.start /\ w.start < o[k].start
      BY <1>2, <1>3, <2>1, <2>2 DEF Ascending
    <2>4. w \in O \cup T
      BY <1>3, <2>1, <2>2
    <2>5. CASE w \in O
      <3>1. u = w \/ u.end <= w.start \/ w.end <= u.start
        BY <2>5 DEF TargetRows
      <3>2. PICK a \in Nat, b \in Nat, c \in Nat, d \in Nat :
               /\ a = u.start /\ b = w.start /\ c = w.end /\ d = o[k].start
        BY <1>4, <1>5, <2>5
      <3>3. a < b /\ b < d /\ b < c
        BY <1>4, <2>3, <2>5, <3>2
      <3>4. u = w => a = b
        BY <3>2
      <3>5. u = w \/ d <= b \/ c <= a
        BY <1>1, <3>1, <3>2
      <3>6. QED
        BY <3>3, <3>4, <3>5
    <2>6. CASE w \in T
      <3>1. w.start \in Int /\ (w.start < u.start \/ u.end <= w.start)
        BY <2>6 DEF OtherRows
      <3>2. PICK a \in Nat, b \in Int, d \in Nat : a = u.start /\ b = w.start /\ d = o[k].start
        BY <1>5, <3>1
      <3>3. a < b /\ b < d /\ (b < a \/ d <= b)
        BY <1>1, <2>3, <3>1, <3>2
      <3>4. QED
        BY <3>3
    <2>7. QED
      BY <2>4, <2>5, <2>6
  <1>8. o[k - 1] = u /\ k - 1 \in 1 .. Len(o)
    BY <1>2, <1>7
  <1>9. QED
    BY <1>1, <1>8 DEF Follows

\* Of each row it is told rightly whose it is.
LEMMA MineIsTaken ==
    ASSUME NEW O, NEW T, TargetRows(O), OtherRows(T, O),
           NEW o, ListOf(o, O \cup T), Ascending(o),
           NEW k \in 1 .. Len(o), NEW st, TakenSoFar(st, k - 1, o, O)
    PROVE  o[k] \in O <=> (NamedLike(o[k].path) \/ ContinuesMine(st, o[k]))
  <1>1. o[k] \in O \cup T
    BY DEF ListOf
  <1>2. CASE o[k] \in O
    <2>1. o[k].path \in {"none", "target"}
      BY <1>2 DEF TargetRows
    <2>2. ASSUME o[k].path = "none" PROVE ContinuesMine(st, o[k])
      <3>1. k - 1 \in 1 .. Len(o) /\ o[k - 1] \in O /\ o[k - 1].end = o[k].start
        <4>1. Follows(o, k, O)
          BY <1>2, <2>2, BehindMine
        <4>2. QED
          BY <4>1 DEF Follows
      <3>2. k - 1 > 0
        BY <3>1
      <3>3. st.taking /\ st.rows # <<>> /\ st.rows[Len(st.rows)] = o[k - 1]
        BY <3>1, <3>2, Zenon DEF TakenSoFar
      <3>4. QED
        BY <2>2, <3>1, <3>3, Zenon DEF ContinuesMine
    <2>3. o[k].path = "target" => NamedLike(o[k].path)
      BY DEF NamedLike
    <2>4. QED
      BY <1>2, <2>1, <2>2, <2>3
  <1>3. CASE o[k] \notin O
    <2>1. o[k] \in T
      BY <1>1, <1>3
    <2>2. ~NamedLike(o[k].path)
      BY <2>1 DEF OtherRows
    <2>3. ASSUME ContinuesMine(st, o[k]) PROVE FALSE
      <3>1. o[k].path = "none" /\ st.rows # <<>> /\ st.rows[Len(st.rows)].end = o[k].start
        BY <2>3, Zenon DEF ContinuesMine
      <3>2. st.rows \in Seq(O)
        BY DEF TakenSoFar
      <3>3. st.rows[Len(st.rows)] \in O
        <4>1. PICK s \in Seq(O) : s = st.rows
          BY <3>2
        <4>2. s[Len(s)] \in O
          BY <3>1, <4>1
        <4>3. QED
          BY <4>1, <4>2
      <3>4. \A r \in O : r.end # o[k].start
        BY <2>1, <3>1 DEF OtherRows
      <3>5. QED
        BY <3>1, <3>3, <3>4, Zenon
    <2>4. QED
      BY <1>3, <2>2, <2>3
  <1>4. QED
    BY <1>2, <1>3

LEMMA TakeKeeps ==
    ASSUME NEW O, NEW o, NEW k \in Nat \ {0}, NEW st, TakenSoFar(st, k - 1, o, O),
           o[k] \in O <=> (NamedLike(o[k].path) \/ ContinuesMine(st, o[k]))
    PROVE  TakenSoFar(Take(st, o[k]), k, o, O)
  <1>1. /\ st.rows \in Seq(O)
        /\ \A i \in 1 .. k - 1 : o[i] \in O => \E j \in 1 .. Len(st.rows) : st.rows[j] = o[i]
        /\ st.rows # <<>> =>
              \E i \in 1 .. k - 1 : st.rows[1] = o[i] /\ \A m \in 1 .. i - 1 : o[m] \notin O
    BY DEF TakenSoFar
  <1>2. \A i \in 1 .. k : i = k \/ i \in 1 .. k - 1
    OBVIOUS
  <1>3. \A i \in 1 .. k - 1 : i \in 1 .. k
    OBVIOUS
  <1>4. CASE o[k] \in O
    <2>1. PICK s : s = Append(st.rows, o[k])
      OBVIOUS
    <2>2. Take(st, o[k]).rows = s /\ Take(st, o[k]).taking = TRUE
      BY <1>4, <2>1 DEF Take
    <2>3. PICK n \in Nat : n = Len(st.rows)
      BY <1>1
    <2>4. s \in Seq(O) /\ Len(s) = n + 1 /\ s # <<>> /\ s[n + 1] = o[k]
          /\ \A j \in 1 .. n : s[j] = st.rows[j]
      <3>1. PICK q \in Seq(O), x \in O : q = st.rows /\ x = o[k]
        BY <1>1, <1>4
      <3>2. s = Append(q, x) /\ n = Len(q)
        BY <2>1, <2>3, <3>1
      <3>3. s \in Seq(O) /\ Len(s) = n + 1 /\ s # <<>> /\ s[n + 1] = x
            /\ \A j \in 1 .. n : s[j] = q[j]
        BY <3>2
      <3>4. QED
        BY <3>1, <3>3
    <2>5. n + 1 \in 1 .. n + 1 /\ \A j \in 1 .. n : j \in 1 .. n + 1
      BY <2>3
    <2>6. \A i \in 1 .. k : o[i] \in O => \E j \in 1 .. n + 1 : s[j] = o[i]
      BY <1>1, <1>2, <2>3, <2>4, <2>5
    <2>7. \E i \in 1 .. k : s[1] = o[i] /\ \A m \in 1 .. i - 1 : o[m] \notin O
      <3>1. CASE st.rows = <<>>
        <4>1. n = 0
          BY <2>3, <3>1
        <4>2. \A i \in 1 .. k - 1 : o[i] \notin O
          BY <1>1, <2>3, <4>1
        <4>3. k \in 1 .. k /\ s[1] = o[k]
          BY <2>4, <4>1
        <4>4. QED
          BY <4>2, <4>3
      <3>2. CASE st.rows # <<>>
        <4>1. 1 \in 1 .. n
          BY <1>1, <2>3, <3>2
        <4>2. s[1] = st.rows[1]
          BY <2>4, <4>1
        <4>3. QED
          BY <1>1, <1>3, <3>2, <4>2
      <3>3. QED
        BY <3>1, <3>2
    <2>8. QED
      BY <2>2, <2>4, <2>6, <2>7 DEF TakenSoFar
  <1>5. CASE o[k] \notin O
    <2>1. Take(st, o[k]).rows = st.rows
      BY <1>5 DEF Take
    <2>2. \A i \in 1 .. k : o[i] \in O => \E j \in 1 .. Len(st.rows) : st.rows[j] = o[i]
      BY <1>1, <1>2, <1>5
    <2>3. st.rows # <<>> => \E i \in 1 .. k : st.rows[1] = o[i] /\ \A m \in 1 .. i - 1 : o[m] \notin O
      BY <1>1, <1>3
    <2>4. QED
      BY <1>1, <1>5, <2>1, <2>2, <2>3 DEF TakenSoFar
  <1>6. QED
    BY <1>4, <1>5

\* So the target's rows are found, the lowest first.
RowsTaken(s, O) ==
    /\ s \in Seq(O) /\ s # <<>>
    /\ \A r \in O : \E j \in 1 .. Len(s) : s[j] = r
    /\ \A r \in O : s[1].start <= r.start

LEMMA RowsAreTaken ==
    ASSUME NEW O, NEW T, TargetRows(O), OtherRows(T, O)
    PROVE  RowsTaken(Rows(Ordered(O \cup T, StartsBefore)), O)
  <1>1. PICK S : S = O \cup T
    OBVIOUS
  <1>2. IsFiniteSet(S)
    BY <1>1, FS_Union DEF TargetRows, OtherRows
  <1>3. \A r \in S : r.start \in Int
    <2>1. \A r \in O : r.start \in Int
      BY DEF TargetRows
    <2>2. \A r \in T : r.start \in Int
      BY DEF OtherRows
    <2>3. QED
      BY <1>1, <2>1, <2>2
  <1>4. \A r, q \in S : r.start = q.start => r = q
    <2>1. ASSUME NEW r \in O, NEW q \in O, r.start = q.start PROVE r = q
      <3>1. r = q \/ r.end <= q.start \/ q.end <= r.start
        BY DEF TargetRows
      <3>2. r.start \in Nat /\ r.end \in Nat /\ r.start < r.end /\ q.end \in Nat /\ q.start < q.end
        BY DEF TargetRows
      <3>3. QED
        BY <2>1, <3>1, <3>2
    <2>2. ASSUME NEW r \in O, NEW t \in T PROVE r.start # t.start
      <3>1. t.start < r.start \/ r.end <= t.start
        BY DEF OtherRows
      <3>2. r.start \in Nat /\ r.end \in Nat /\ r.start < r.end
        BY DEF TargetRows
      <3>3. QED
        BY <3>1, <3>2
    <2>3. \A t, u \in T : t.start = u.start => t = u
      BY DEF OtherRows
    <2>4. QED
      BY <1>1, <2>1, <2>2, <2>3
  <1>5. PICK o : o = Ordered(S, StartsBefore)
    OBVIOUS
  <1>6. ListOf(o, S) /\ Ascending(o)
    BY <1>2, <1>3, <1>4, <1>5, RowsInOrder
  <1>7. PICK n \in Nat : n = Len(o) /\ DOMAIN o = 1 .. n /\ \A k \in 1 .. n : o[k] \in S
    BY <1>6 DEF ListOf
  <1>8. PICK h : Takes(h, o, n) /\ h[n] = SX!FoldLeft(Take, NothingTaken, o)
    BY <1>7, TakenStepByStep
  <1> DEFINE bad == {k \in Nat : k <= n /\ ~TakenSoFar(h[k], k, o, O)}
  <1>9. TakenSoFar(h[0], 0, o, O)
    <2>1. h[0].rows = <<>> /\ <<>> \in Seq(O)
      BY <1>8 DEF Takes, NothingTaken
    <2>2. QED
      BY <2>1 DEF TakenSoFar
  <1>10. ASSUME NEW k \in 1 .. n, TakenSoFar(h[k - 1], k - 1, o, O)
         PROVE  TakenSoFar(h[k], k, o, O)
    <2>1. PICK st : st = h[k - 1]
      OBVIOUS
    <2>2. h[k] = Take(st, o[k])
      BY <1>8, <2>1 DEF Takes
    <2>3. k \in Nat \ {0} /\ k \in 1 .. Len(o)
      BY <1>7
    <2>4. TakenSoFar(st, k - 1, o, O)
      BY <1>10, <2>1
    <2>5. o[k] \in O <=> (NamedLike(o[k].path) \/ ContinuesMine(st, o[k]))
      BY <1>1, <1>6, <2>3, <2>4, MineIsTaken
    <2>6. QED
      BY <2>2, <2>3, <2>4, <2>5, TakeKeeps
  <1>11. bad = {}
    <2> SUFFICES ASSUME bad # {} PROVE FALSE
      OBVIOUS
    <2>1. bad \in SUBSET Nat /\ \A k \in bad : k <= n /\ ~TakenSoFar(h[k], k, o, O)
      OBVIOUS
    <2>2. \A k \in Nat : k <= n /\ k \notin bad => TakenSoFar(h[k], k, o, O)
      OBVIOUS
    <2> HIDE DEF bad
    <2>3. PICK k \in bad : \A m \in bad : k <= m
      BY <2>1, LeastOf
    <2>4. k \in Nat /\ k <= n /\ k # 0
      BY <1>9, <2>1, <2>3
    <2>5. k \in 1 .. n /\ k - 1 \in Nat /\ k - 1 <= n /\ ~(k <= k - 1)
      BY <1>7, <2>4
    <2>6. TakenSoFar(h[k - 1], k - 1, o, O)
      BY <2>2, <2>3, <2>5
    <2>7. QED
      BY <1>10, <2>1, <2>3, <2>5, <2>6
  <1>12. PICK s : s = h[n].rows
    OBVIOUS
  <1>13. s = Rows(o)
    BY <1>8, <1>12 DEF Rows
  <1>14. /\ s \in Seq(O)
         /\ \A i \in 1 .. n : o[i] \in O => \E j \in 1 .. Len(s) : s[j] = o[i]
         /\ s # <<>> => \E i \in 1 .. n : s[1] = o[i] /\ \A m \in 1 .. i - 1 : o[m] \notin O
    <2>1. TakenSoFar(h[n], n, o, O)
      BY <1>11
    <2>2. QED
      BY <1>12, <2>1 DEF TakenSoFar
  <1>15. \A r \in O : \E i \in 1 .. n : o[i] = r
    BY <1>1, <1>6, <1>7 DEF ListOf
  <1>16. \A r \in O : \E j \in 1 .. Len(s) : s[j] = r
    BY <1>14, <1>15
  <1>17. s # <<>>
    <2>1. PICK r \in O : TRUE
      BY DEF TargetRows
    <2>2. PICK j \in 1 .. Len(s) : s[j] = r
      BY <1>16
    <2>3. QED
      BY <1>14, <2>2
  <1>18. \A r \in O : s[1].start <= r.start
    <2>1. PICK i \in 1 .. n : s[1] = o[i] /\ \A m \in 1 .. i - 1 : o[m] \notin O
      BY <1>14, <1>17
    <2>2. SUFFICES ASSUME NEW r \in O PROVE o[i].start <= r.start
      BY <2>1
    <2>3. PICK j \in 1 .. n : o[j] = r
      BY <1>15
    <2>4. ~(j < i)
      BY <2>1, <2>3
    <2>5. o[i].start \in Int /\ o[j].start \in Int
      BY <1>3, <1>7
    <2>6. i < j => o[i].start < o[j].start
      BY <1>6, <1>7 DEF Ascending
    <2>7. i = j \/ i < j
      BY <2>4
    <2>8. QED
      BY <2>3, <2>5, <2>6, <2>7
  <1>19. QED
    BY <1>1, <1>5, <1>13, <1>14, <1>16, <1>17, <1>18 DEF RowsTaken

-----------------------------------------------------------------------------
(* They say what the memory says.                                          *)

SeenRow(r, base) ==
    [start |-> Minus(r.start, base), end |-> Minus(r.end, base), prot |-> r.prot,
     offset |-> IF r.path = "none" THEN Anonymous ELSE r.offset]
PredictedRow(v) == [start |-> v.start, end |-> v.end, prot |-> v.prot, offset |-> v.offset]

LEMMA RowShowsVma ==
    ASSUME Comparable, NEW base \in Nat, NEW v \in Vmas(mappings)
    PROVE  SeenRow(RowOf(v, base), base) = PredictedRow(v)
  <1>1. PICK a \in Nat, b \in Nat : a = v.start /\ b = v.end
    BY VmasLie
  <1>2. PICK x \in Nat, y \in Nat : x = base + a /\ y = base + b
    OBVIOUS
  <1>3. Minus(x, base) = a /\ Minus(y, base) = b
    BY <1>2 DEF Minus
  <1>4. PICK r : r = RowOf(v, base)
    OBVIOUS
  <1>5. r.start = x /\ r.end = y /\ r.prot = v.prot
    BY <1>1, <1>2, <1>4 DEF RowOf, Row
  <1>6. (IF r.path = "none" THEN Anonymous ELSE r.offset) = v.offset
    <2>1. CASE v.offset = Anonymous
      BY <1>4, <2>1 DEF RowOf, Row
    <2>2. CASE v.offset # Anonymous
      BY <1>4, <2>2 DEF RowOf, Row
    <2>3. QED
      BY <2>1, <2>2
  <1>7. SeenRow(r, base) = [start |-> a, end |-> b, prot |-> v.prot, offset |-> v.offset]
    BY <1>3, <1>5, <1>6 DEF SeenRow
  <1>8. QED
    BY <1>1, <1>4, <1>7 DEF PredictedRow

LEMMA SeenIsPredicted ==
    ASSUME Comparable, NEW base \in Nat, NEW s, RowsTaken(s, Own(base)),
           NEW pie, Base(s, pie) = base
    PROVE  Seen(s, pie) = Predicted
  <1>1. Seen(s, pie) = {SeenRow(r, base) : r \in SX!ToSet(s)}
    BY Zenon DEF Seen, SeenRow
  <1>2. Predicted = {PredictedRow(v) : v \in Vmas(mappings)}
    BY Zenon DEF Predicted, PredictedRow
  <1>3. SX!ToSet(s) = Own(base)
    <2>1. PICK O : O = Own(base)
      OBVIOUS
    <2>2. s \in Seq(O) /\ \A r \in O : \E j \in 1 .. Len(s) : s[j] = r
      BY <2>1 DEF RowsTaken
    <2>3. SX!ToSet(s) = {s[j] : j \in DOMAIN s}
      BY DEF SX!ToSet
    <2>4. DOMAIN s = 1 .. Len(s) /\ \A j \in 1 .. Len(s) : s[j] \in O
      BY <2>2
    <2>5. {s[j] : j \in DOMAIN s} = O
      BY <2>2, <2>4
    <2>6. QED
      BY <2>1, <2>3, <2>5
  <1>4. Own(base) = {RowOf(v, base) : v \in Vmas(mappings)}
    BY OwnIsOfVmas
  <1>5. \A v \in Vmas(mappings) : SeenRow(RowOf(v, base), base) = PredictedRow(v)
    BY RowShowsVma
  <1>6. QED
    <2>1. PICK V : V = Vmas(mappings)
      OBVIOUS
    <2>2. {SeenRow(r, base) : r \in {RowOf(v, base) : v \in V}} = {SeenRow(RowOf(v, base), base) : v \in V}
      OBVIOUS
    <2>3. {SeenRow(RowOf(v, base), base) : v \in V} = {PredictedRow(v) : v \in V}
      BY <1>5, <2>1
    <2>4. QED
      BY <1>1, <1>2, <1>3, <1>4, <2>1, <2>2, <2>3, Zenon

\* The base is where the program's page 0 is found.
LEMMA FoundAtItsBase ==
    ASSUME Comparable, NEW base \in Nat, NEW s, RowsTaken(s, Own(base)),
           NEW pie \in BOOLEAN, IF pie THEN LowestPage = 0 ELSE base = 0
    PROVE  Base(s, pie) = base
  <1>1. CASE ~pie
    BY <1>1 DEF Base
  <1>2. CASE pie
    <2>1. PICK O : O = Own(base)
      OBVIOUS
    <2>2. s \in Seq(O) /\ s # <<>> /\ \A r \in O : s[1].start <= r.start
      BY <2>1 DEF RowsTaken
    <2>3. O = {RowOf(v, base) : v \in Vmas(mappings)}
      BY <2>1, OwnIsOfVmas
    <2>4. \A v : RowOf(v, base).start = base + v.start
      BY DEF RowOf, Row
    <2>5. PICK v \in Vmas(mappings) : s[1] = RowOf(v, base)
      <3>1. s[1] \in O
        BY <2>2
      <3>2. QED
        BY <2>3, <3>1
    <2>6. PICK w \in Vmas(mappings) : w.start = 0
      BY <1>2, VmasLie
    <2>7. RowOf(w, base) \in O /\ RowOf(w, base).start = base
      BY <2>3, <2>4, <2>6
    <2>8. PICK a \in Nat : a = v.start
      BY VmasLie
    <2>9. s[1].start = base + a /\ s[1].start <= base
      BY <2>2, <2>4, <2>5, <2>7, <2>8
    <2>10. s[1].start = base
      BY <2>9
    <2>11. QED
      BY <1>2, <2>2, <2>10 DEF Base
  <1>3. QED
    BY <1>1, <1>2

LEMMA VerdictIsMatch ==
    ASSUME Comparable, NEW base \in Nat, NEW T, OtherRows(T, Own(base)),
           NEW pie \in BOOLEAN, IF pie THEN LowestPage = 0 ELSE base = 0
    PROVE  MappingsVerdict(Ordered(Own(base) \cup T, StartsBefore), pie) = "match"
  <1>1. PICK o : o = Ordered(Own(base) \cup T, StartsBefore)
    OBVIOUS
  <1>2. RowsTaken(Rows(o), Own(base))
    BY <1>1, OwnLies, RowsAreTaken
  <1>3. PICK s : s = Rows(o)
    OBVIOUS
  <1>4. RowsTaken(s, Own(base)) /\ s # <<>>
    BY <1>2, <1>3 DEF RowsTaken
  <1>5. Base(s, pie) = base
    BY <1>4, FoundAtItsBase
  <1>6. Seen(s, pie) = Predicted
    BY <1>4, <1>5, SeenIsPredicted
  <1>7. QED
    BY <1>1, <1>3, <1>4, <1>6, Zenon DEF MappingsVerdict

\* compare finds the rows of a target that is loaded as the timeline loads it, by
\* name or by where they lie, wherever it is put and whatever lies beside it but for
\* a file whose path ends in the target's name, and its verdict is that they match
\* (cmd_compare).
THEOREM MemoryIsRecognized == Spec => []RowsAreFound
  <1>1. LoadInv => RowsAreFound
    <2> SUFFICES ASSUME Comparable
                 PROVE  /\ MappingsVerdict(Observed(0, {}), FALSE) = "match"
                        /\ LowestPage = 0 => \A others \in Neighbours(Own(4 * Page)) :
                              NoNamesake(others) =>
                                  MappingsVerdict(Observed(4 * Page, others), TRUE) = "match"
      BY DEF Comparable, RowsAreFound
    <2>1. MappingsVerdict(Observed(0, {}), FALSE) = "match"
      <3>1. Observed(0, {}) = Ordered(Own(0) \cup {}, StartsBefore)
        BY DEF Observed
      <3>2. OtherRows({}, Own(0))
        BY FS_EmptySet DEF OtherRows
      <3>3. QED
        BY <3>1, <3>2, VerdictIsMatch
    <2>2. ASSUME LowestPage = 0, NEW others \in Neighbours(Own(4 * Page)), NoNamesake(others)
          PROVE  MappingsVerdict(Observed(4 * Page, others), TRUE) = "match"
      <3>1. PICK base \in Nat : base = 4 * Page
        BY PageAssumption
      <3>2. others \in Neighbours(Own(base)) /\ \A t \in others : ~NamedLike(t.path)
        BY <2>2, <3>1 DEF NoNamesake
      <3>3. OtherRows(others, Own(base))
        BY <3>2, OwnLies, NeighboursLie
      <3>4. Observed(base, others) = Ordered(Own(base) \cup others, StartsBefore)
        BY DEF Observed
      <3>5. QED
        BY <2>2, <3>1, <3>3, <3>4, VerdictIsMatch
    <2>3. QED
      BY <2>1, <2>2
  <1>2. QED
    BY <1>1, InitLoadInv, NextLoadInv, PTL DEF Spec
===============================================================================
