------------------------- MODULE IntervalIndexProofs -------------------------
(***************************************************************************)
(* The queries of the interval index are exact for every input.            *)
(***************************************************************************)
EXTENDS IntervalIndex, FiniteProofs

LEMMA SpanFacts ==
    ASSUME NEW s \in IndexedSpan
    PROVE  /\ s.start \in Nat /\ SpanEnd(s) \in U64 /\ SpanEnd(s) \in Nat
           /\ s.start \in U64 /\ s.len \in Nat /\ s.file = 0
  BY MaxU64Assumption DEF IndexedSpan, SpanEnd, SatAdd, U64

LEMMA EntryFacts ==
    ASSUME TypeOK, NEW k \in DOMAIN entries
    PROVE  /\ entries[k] \in EntryType
           /\ entries[k].start \in Nat /\ entries[k].end \in Nat
           /\ entries[k].end \in U64 /\ entries[k].maxEnd \in Nat
           /\ entries[k].id \in Nat
           /\ DOMAIN entries = 1 .. Len(entries) /\ Len(entries) \in Nat
  <1>1. entries[k] \in EntryType
    BY DEF TypeOK
  <1>2. QED
    BY <1>1, MaxU64Assumption DEF TypeOK, EntryType, U64

\* In a sorted list the entries that begin early enough are the first ones,
\* which is what partition_point asks of its caller.
LEMMA PartitionPoint ==
    ASSUME TypeOK, Sorted, NEW k \in {"at", "overlapping"}, NEW q \in IndexedSpan
    PROVE  \E n \in 0 .. Len(entries) : EarlyEnough(k, q) = 1 .. n
  <1> DEFINE E == EarlyEnough(k, q)
             N == Len(entries)
             T == {n \in Nat : n + 1 \notin E}
  <1>1. N \in Nat /\ DOMAIN entries = 1 .. N /\ E \subseteq 1 .. N
    BY DEF TypeOK, EarlyEnough
  <1>2. ASSUME NEW m \in E, NEW n \in 1 .. N, n < m PROVE n \in E
    <2>1. /\ entries[n].start \in Nat /\ entries[m].start \in Nat
          /\ entries[n].start <= entries[m].start
      BY <1>1, <1>2, EntryFacts DEF Sorted
    <2>2. q.start \in Nat /\ SpanEnd(q) \in Nat
      BY SpanFacts
    <2>3. QED
      BY <1>1, <2>1, <2>2 DEF EarlyEnough
  <1> HIDE DEF E, N
  <1>3. N \in T
    BY <1>1
  <1>4. PICK n \in T : \A m \in T : n <= m
    BY <1>3, LeastOf
  <1>5. n \in 0 .. N
    BY <1>1, <1>3, <1>4
  <1>6. 1 .. n \subseteq E
    <2> SUFFICES ASSUME NEW m \in 1 .. n PROVE m \in E
      OBVIOUS
    <2>1. m - 1 \in Nat /\ m - 1 < n /\ (m - 1) + 1 = m
      BY <1>5
    <2>2. QED
      BY <1>4, <2>1
  <1>7. E \subseteq 1 .. n
    <2> SUFFICES ASSUME NEW m \in E, m > n PROVE FALSE
      BY <1>1, <1>5
    <2>1. n + 1 \in E
      BY <1>1, <1>2, <1>5
    <2>2. QED
      BY <1>4, <2>1
  <1>8. QED
    BY <1>5, <1>6, <1>7 DEF E, N

-----------------------------------------------------------------------------
LEMMA TypeInit == Init => TypeOK
  <1> SUFFICES ASSUME Init PROVE TypeOK
    OBVIOUS
  <1>1. spans \in Seq(IndexedSpan)
    BY InputsAssumption DEF Init
  <1>2. 0 \in U64
    BY MaxU64Assumption DEF U64
  <1>3. NoProbe \in IndexedSpan
    BY <1>2 DEF NoProbe, IndexedSpan
  <1>4. entries \in Seq(EntryType) /\ Len(entries) = 0
    BY DEF Init
  <1>5. QED
    BY <1>1, <1>2, <1>3, <1>4 DEF Init, TypeOK

LEMMA TypeNext == TypeOK /\ [Next]_vars => TypeOK'
  <1> SUFFICES ASSUME TypeOK, [Next]_vars PROVE TypeOK'
    OBVIOUS
  <1> USE DEF buildVars, queryVars
  <1>1. CASE Collect
    <2>1. spans[scan] \in IndexedSpan
      BY <1>1 DEF Collect, TypeOK
    <2>2. Entry(spans[scan], scan) \in EntryType
      BY <2>1, SpanFacts, MaxU64Assumption DEF TypeOK, Entry, EntryType, U64
    <2>3. entries' \in Seq(EntryType) /\ Len(entries') >= Len(entries)
      BY <1>1, <2>2 DEF Collect, TypeOK
    <2>4. QED
      BY <1>1, <2>3 DEF Collect, TypeOK
  <1>2. CASE SortEntries
    <2> PICK p \in Permutations : entries' = [k \in 1 .. Len(entries) |-> entries[p[k]]]
      BY <1>2 DEF SortEntries
    <2>1. \A k \in 1 .. Len(entries) : entries[p[k]] \in EntryType
      BY DEF Permutations, TypeOK
    <2>2. entries' \in Seq(EntryType) /\ Len(entries') = Len(entries)
      BY <2>1 DEF TypeOK
    <2>3. QED
      BY <1>2, <2>2 DEF SortEntries, TypeOK
  <1>3. CASE RunningMaximum
    <2>1. scan \in DOMAIN entries /\ Max2(running, entries[scan].end) \in U64
      BY <1>3, EntryFacts DEF RunningMaximum, TypeOK, Max2
    <2>2. [entries[scan] EXCEPT !.maxEnd = Max2(running, entries[scan].end)] \in EntryType
      BY <2>1, EntryFacts DEF EntryType
    <2>3. entries' \in Seq(EntryType) /\ Len(entries') = Len(entries)
      BY <1>3, <2>1, <2>2 DEF RunningMaximum, TypeOK
    <2>4. QED
      BY <1>3, <2>1, <2>3 DEF RunningMaximum, TypeOK
  <1>4. CASE Built
    BY <1>4 DEF Built, TypeOK
  <1>5. ASSUME NEW k \in {"at", "overlapping"}, NEW q \in Probes, Ask(k, q)
        PROVE  TypeOK'
    BY <1>5, ProbesAssumption DEF Ask, TypeOK
  <1>6. CASE WalkEntry
    <2>1. i \in DOMAIN entries
      BY <1>6 DEF WalkEntry, TypeOK
    <2>2. hits' \subseteq Nat
      BY <1>6, <2>1, EntryFacts DEF WalkEntry, TypeOK
    <2>3. QED
      BY <1>6, <2>1, <2>2 DEF WalkEntry, TypeOK
  <1>7. CASE WalkEnds
    BY <1>7 DEF WalkEnds, TypeOK
  <1>8. CASE Return
    BY <1>8, MaxU64Assumption DEF Return, TypeOK, NoProbe, IndexedSpan, U64
  <1>9. CASE UNCHANGED vars
    BY <1>9 DEF vars, TypeOK
  <1>10. QED
    BY <1>1, <1>2, <1>3, <1>4, <1>5, <1>6, <1>7, <1>8, <1>9 DEF Next

\* Every variable of the index keeps its type: in particular no end passes
\* u64::MAX, however long the spans are.
THEOREM IndexTypeCorrect == Spec => []TypeOK
  BY TypeInit, TypeNext, PTL DEF Spec

-----------------------------------------------------------------------------
(* A listed span is found where it is wanted.                              *)

\* For an entry of the list, being wanted is beginning early and ending late.
LEMMA WantedEntry ==
    ASSUME TypeOK, NEW n, Lists(n), NEW k \in DOMAIN entries, n <= Len(spans), n \in Nat,
           kind = "overlapping" => ~IsEmpty(probe)
    PROVE  /\ entries[k].id \in DOMAIN spans
           /\ Wanted(entries[k].id)
                <=> k \in EarlyEnough(kind, probe) /\ entries[k].end > probe.start
  <1> DEFINE s == spans[entries[k].id]
  <1>1. entries[k].id \in 1 .. n /\ ~IsEmpty(s) /\ entries[k].start = s.start
        /\ entries[k].end = SpanEnd(s)
    BY DEF Lists, Describes
  <1>2. entries[k].id \in DOMAIN spans /\ s \in IndexedSpan
    BY <1>1 DEF TypeOK
  <1>3. /\ s.start \in Nat /\ SpanEnd(s) \in Nat /\ s.file = 0
        /\ probe.start \in Nat /\ SpanEnd(probe) \in Nat /\ probe.file = 0
    BY <1>2, SpanFacts DEF TypeOK
  <1>4. Wanted(entries[k].id) <=> k \in EarlyEnough(kind, probe) /\ entries[k].end > probe.start
    BY <1>1, <1>3 DEF Wanted, Contains, Overlaps, EarlyEnough, TypeOK
  <1>5. QED
    BY <1>2, <1>4

\* The same after the step that begins a query.
LEMMA WantedEarly ==
    ASSUME TypeOK, Lists(Len(spans)), NEW k \in DOMAIN entries,
           UNCHANGED <<spans, entries>>, probe' \in IndexedSpan,
           kind' \in {"at", "overlapping"}
    PROVE  Wanted(entries[k].id)' => k \in EarlyEnough(kind, probe)'
  <1> DEFINE s == spans[entries[k].id]
  <1>1. entries[k].id \in 1 .. Len(spans) /\ entries[k].start = s.start
    BY DEF Lists, Describes
  <1>2. s \in IndexedSpan
    BY <1>1 DEF TypeOK
  <1>3. QED
    BY <1>1, <1>2, SpanFacts DEF Wanted, Contains, Overlaps, EarlyEnough

\* An id that is wanted names a span that is not empty.
LEMMA WantedNotEmpty ==
    ASSUME TypeOK, NEW id \in DOMAIN spans, Wanted(id)
    PROVE  ~IsEmpty(spans[id])
  <1>1. spans[id] \in IndexedSpan /\ spans[id].start \in U64 /\ probe.start \in Nat
    BY SpanFacts DEF TypeOK
  <1>2. IsEmpty(spans[id]) => SpanEnd(spans[id]) = spans[id].start
    BY <1>1, MaxU64Assumption DEF IsEmpty, SpanEnd, SatAdd, U64
  <1>3. QED
    BY <1>1, <1>2, MaxU64Assumption DEF Wanted, Contains, Overlaps, U64

LEMMA CollectLists ==
    ASSUME TypeOK, IndexInv, Collect
    PROVE  IndexInv'
  <1> DEFINE e == Entry(spans[scan], scan)
  <1>1. /\ scan \in 1 .. Len(spans) /\ Lists(scan - 1) /\ scan' = scan + 1
        /\ spans' = spans /\ stage = "collect" /\ stage' = "collect"
    BY DEF Collect, IndexInv, TypeOK, queryVars
  <1>2. \A k \in DOMAIN entries : entries[k].id \in 1 .. scan
    BY <1>1 DEF Lists
  <1>3. CASE IsEmpty(spans[scan])
    <2>1. entries' = entries
      BY <1>3 DEF Collect
    <2>2. ASSUME NEW id \in 1 .. scan, ~IsEmpty(spans[id])
          PROVE  \E k \in DOMAIN entries : entries[k].id = id
      BY <1>1, <1>3, <2>2 DEF Lists
    <2>3. Lists(scan - 1)'
      <3>1. scan' - 1 = scan
        BY <1>1
      <3>2. \A k \in DOMAIN entries : Describes(entries[k], spans[entries[k].id])
        BY <1>1 DEF Lists
      <3>3. QED
        BY <1>1, <1>2, <2>1, <2>2, <3>1, <3>2 DEF Lists, Describes
    <2>4. QED
      BY <1>1, <2>3 DEF IndexInv, AnswerIsExact
  <1>4. CASE ~IsEmpty(spans[scan])
    <2> DEFINE n == Len(entries)
    <2>1. entries' = Append(entries, e) /\ n \in Nat /\ DOMAIN entries = 1 .. n
      BY <1>4 DEF Collect, TypeOK
    <2>2. e.id = scan /\ e.start = spans[scan].start /\ e.end = SpanEnd(spans[scan])
      BY DEF Entry
    <2> HIDE DEF e
    <2>3. /\ DOMAIN entries' = 1 .. (n + 1)
          /\ \A k \in 1 .. n : entries'[k] = entries[k]
          /\ entries'[n + 1] = e
      BY <2>1 DEF TypeOK
    <2>4. ASSUME NEW k \in DOMAIN entries'
          PROVE  entries'[k].id \in 1 .. scan /\ Describes(entries'[k], spans[entries'[k].id])
      <3>1. CASE k = n + 1
        BY <1>1, <1>4, <2>2, <2>3, <3>1 DEF Describes
      <3>2. CASE k \in 1 .. n
        BY <1>1, <1>2, <2>1, <2>3, <3>2 DEF Lists
      <3>3. QED
        BY <2>1, <2>3, <3>1, <3>2
    <2>5. \A id \in 1 .. scan : ~IsEmpty(spans[id]) => \E k \in DOMAIN entries' : entries'[k].id = id
      <3> SUFFICES ASSUME NEW id \in 1 .. scan, ~IsEmpty(spans[id])
                   PROVE  \E k \in DOMAIN entries' : entries'[k].id = id
        OBVIOUS
      <3>1. CASE id = scan
        BY <2>1, <2>2, <2>3, <3>1
      <3>2. CASE id \in 1 .. (scan - 1)
        BY <1>1, <2>1, <2>3, <3>2 DEF Lists
      <3>3. QED
        BY <1>1, <3>1, <3>2
    <2>6. Lists(scan - 1)'
      <3>1. scan' - 1 = scan
        BY <1>1
      <3>2. QED
        BY <1>1, <2>4, <2>5, <3>1 DEF Lists, Describes
    <2>7. QED
      BY <1>1, <2>6 DEF IndexInv, AnswerIsExact
  <1>5. QED
    BY <1>3, <1>4

LEMMA SortKeepsLists ==
    ASSUME TypeOK, IndexInv, SortEntries
    PROVE  IndexInv'
  <1> DEFINE n == Len(entries)
  <1>1. n \in Nat /\ DOMAIN entries = 1 .. n
    BY DEF TypeOK
  <1>2. PICK p \in Permutations :
           /\ \A k, m \in 1 .. n : k < m => KeyLeq(entries[p[k]], entries[p[m]])
           /\ entries' = [k \in 1 .. n |-> entries[p[k]]]
    BY <1>1 DEF SortEntries
  <1>3. /\ \A k \in 1 .. n : p[k] \in 1 .. n /\ entries'[k] = entries[p[k]]
        /\ \A m \in 1 .. n : \E k \in 1 .. n : p[k] = m
        /\ DOMAIN entries' = 1 .. n
    BY <1>1, <1>2 DEF Permutations
  <1>4. /\ scan = Len(spans) + 1 /\ spans' = spans /\ scan' = 1
        /\ stage' = "maximum" /\ Len(entries') = n
    BY <1>1, <1>2 DEF SortEntries, IndexInv, TypeOK, queryVars
  <1>5. Lists(Len(spans))
    BY <1>4 DEF IndexInv, SortEntries, TypeOK
  <1>6. Lists(Len(spans))'
    <2>1. ASSUME NEW id \in 1 .. Len(spans), ~IsEmpty(spans[id])
          PROVE  \E k \in 1 .. n : entries'[k].id = id
      <3>1. PICK m \in 1 .. n : entries[m].id = id
        BY <1>1, <1>5, <2>1 DEF Lists
      <3>2. PICK k \in 1 .. n : p[k] = m
        BY <1>3
      <3>3. QED
        BY <1>3, <3>1, <3>2
    <2>2. ASSUME NEW k \in 1 .. n
          PROVE  entries'[k].id \in 1 .. Len(spans)
                 /\ Describes(entries'[k], spans[entries'[k].id])
      BY <1>1, <1>3, <1>5 DEF Lists
    <2>3. QED
      BY <1>3, <1>4, <2>1, <2>2 DEF Lists, Describes
  <1>7. Sorted'
    <2> SUFFICES ASSUME NEW k \in 1 .. n, NEW m \in 1 .. n, k < m
                 PROVE  entries'[k].start <= entries'[m].start
      BY <1>3 DEF Sorted
    <2>1. KeyLeq(entries[p[k]], entries[p[m]])
      BY <1>2
    <2> HIDE DEF n
    <2>2. p[k] \in DOMAIN entries /\ p[m] \in DOMAIN entries
      BY <1>1, <1>3
    <2>3. entries[p[k]].start \in Nat /\ entries[p[m]].start \in Nat
      BY <2>2, EntryFacts
    <2>4. entries[p[k]].start <= entries[p[m]].start
      BY <2>1, <2>3 DEF KeyLeq
    <2>5. QED
      BY <1>3, <2>4
  <1>8. QED
    BY <1>1, <1>4, <1>6, <1>7 DEF IndexInv, AnswerIsExact, Bounded

LEMMA MaximumBounds ==
    ASSUME TypeOK, IndexInv, RunningMaximum
    PROVE  IndexInv'
  <1> DEFINE n == Len(entries)
             top == Max2(running, entries[scan].end)
  <1>1. /\ n \in Nat /\ DOMAIN entries = 1 .. n /\ scan \in 1 .. n
        /\ scan' = scan + 1 /\ spans' = spans /\ stage = "maximum" /\ stage' = "maximum"
        /\ running' = top
        /\ Lists(Len(spans)) /\ Sorted /\ Bounded(scan - 1)
        /\ \A k \in 1 .. (scan - 1) : entries[k].end <= running
    BY DEF RunningMaximum, IndexInv, TypeOK, queryVars
  <1>2. running \in Nat /\ \A k \in 1 .. n : entries[k].end \in Nat /\ entries[k].maxEnd \in Nat
    BY <1>1, EntryFacts, MaxU64Assumption DEF TypeOK, U64
  <1>3. top \in Nat /\ running <= top /\ entries[scan].end <= top
    BY <1>1, <1>2 DEF Max2
  <1>4. entries' = [entries EXCEPT ![scan].maxEnd = top]
    BY DEF RunningMaximum
  <1>5. \A k \in 1 .. n : entries[k] \in EntryType
    BY <1>1, EntryFacts
  <1> HIDE DEF top
  <1>6. /\ DOMAIN entries' = 1 .. n /\ Len(entries') = n
        /\ \A k \in 1 .. n : /\ entries'[k].id = entries[k].id
                             /\ entries'[k].start = entries[k].start
                             /\ entries'[k].end = entries[k].end
                             /\ entries'[k].maxEnd = IF k = scan THEN top ELSE entries[k].maxEnd
    <2>1. DOMAIN entries' = 1 .. n /\ Len(entries') = n
      BY <1>1, <1>4 DEF TypeOK
    <2>2. \A k \in 1 .. n : k # scan => entries'[k] = entries[k]
      BY <1>1, <1>4
    <2>3. entries'[scan] = [entries[scan] EXCEPT !.maxEnd = top]
      BY <1>1, <1>4
    <2>4. QED
      BY <1>1, <1>5, <2>1, <2>2, <2>3 DEF EntryType
  <1>7. Lists(Len(spans))'
    <2>1. \A k \in 1 .. n : entries[k].id \in 1 .. Len(spans)
                          /\ Describes(entries[k], spans[entries[k].id])
      BY <1>1 DEF Lists
    <2>2. \A k \in 1 .. n : entries'[k].id \in 1 .. Len(spans)
                          /\ Describes(entries'[k], spans[entries'[k].id])
      BY <1>6, <2>1 DEF Describes
    <2>3. \A id \in 1 .. Len(spans) : ~IsEmpty(spans[id]) =>
             \E k \in 1 .. n : entries'[k].id = id
      BY <1>1, <1>6 DEF Lists
    <2>4. QED
      BY <1>1, <1>6, <2>2, <2>3 DEF Lists, Describes
  <1>8. Sorted'
    BY <1>1, <1>6 DEF Sorted
  <1>9. \A k \in 1 .. scan : entries'[k].end <= top
    <2> SUFFICES ASSUME NEW k \in 1 .. scan PROVE entries[k].end <= top
      BY <1>1, <1>6
    <2>1. CASE k = scan
      BY <1>3, <2>1
    <2>2. CASE k \in 1 .. (scan - 1)
      <3>1. entries[k].end <= running /\ entries[k].end \in Nat
        BY <1>1, <1>2, <2>2
      <3>2. QED
        BY <1>2, <1>3, <3>1
    <2>3. QED
      BY <1>1, <2>1, <2>2
  <1>10. ASSUME NEW m \in 1 .. scan, NEW k \in 1 .. m
         PROVE  entries'[k].end <= entries'[m].maxEnd
    <2>1. CASE m = scan
      BY <1>1, <1>6, <1>9, <2>1
    <2>2. CASE m \in 1 .. (scan - 1)
      BY <1>1, <1>6, <2>2 DEF Bounded
    <2>3. QED
      BY <1>1, <2>1, <2>2
  <1>11. scan' - 1 = scan
    BY <1>1
  <1>12. Bounded(scan - 1)'
    BY <1>10, <1>11 DEF Bounded
  <1>13. QED
    BY <1>1, <1>6, <1>7, <1>8, <1>9, <1>11, <1>12 DEF IndexInv, AnswerIsExact

\* The build is over and a query begins.
LEMMA AskStarts ==
    ASSUME TypeOK, IndexInv, NEW k \in {"at", "overlapping"}, NEW q \in Probes, Ask(k, q)
    PROVE  IndexInv'
  <1>1. /\ q \in IndexedSpan /\ kind' = k /\ probe' = q /\ hits' = {}
        /\ UNCHANGED <<spans, entries, scan, running>>
        /\ Lists(Len(spans)) /\ Sorted /\ Bounded(Len(entries))
    BY ProbesAssumption DEF Ask, IndexInv, buildVars
  <1>2. Lists(Len(spans))' /\ Sorted' /\ Bounded(Len(entries))'
    BY <1>1 DEF Lists, Sorted, Bounded
  <1>3. CASE k = "overlapping" /\ IsEmpty(q)
    <2>1. stage' = "answer"
      BY <1>3 DEF Ask
    <2>2. \A id \in DOMAIN spans' : ~Wanted(id)'
      BY <1>1, <1>3 DEF Wanted, Overlaps
    <2>3. QED
      BY <1>1, <1>2, <2>1, <2>2 DEF IndexInv, AnswerIsExact
  <1>4. CASE ~(k = "overlapping" /\ IsEmpty(q))
    <2>1. PICK n \in 0 .. Len(entries) : EarlyEnough(k, q) = 1 .. n
      BY <1>1, PartitionPoint
    <2>2. stage' = "walk" /\ i' = n
      BY <1>4, <2>1 DEF Ask
    <2>3. EarlyEnough(kind, probe)' = 1 .. n
      BY <1>1, <2>1 DEF EarlyEnough
    <2>5. ASSUME NEW m \in (n + 1) .. Len(entries)
          PROVE  ~Wanted(entries[m].id)'
      <3>1. m \in DOMAIN entries' /\ m \notin 1 .. n
        BY <1>1, <2>1, <2>5 DEF TypeOK
      <3>2. Wanted(entries[m].id)' => m \in EarlyEnough(kind, probe)'
        BY <1>1, <3>1, WantedEarly
      <3>3. QED
        BY <1>1, <2>3, <3>1, <3>2
    <2>6. \A m \in (i' + 1) .. Len(entries') : ~Wanted(entries[m].id)'
      BY <1>1, <2>2, <2>5
    <2>7. 1 .. i' \subseteq EarlyEnough(kind, probe)'
      BY <2>2, <2>3
    <2>8. (kind = "overlapping" => ~IsEmpty(probe))'
      BY <1>1, <1>4
    <2>9. QED
      BY <1>1, <1>2, <2>2, <2>6, <2>7, <2>8 DEF IndexInv, AnswerIsExact
  <1>5. QED
    BY <1>3, <1>4

LEMMA WalkKeeps ==
    ASSUME TypeOK, IndexInv, WalkEntry
    PROVE  IndexInv'
  <1>1. /\ UNCHANGED <<spans, entries, scan, running, stage, kind, probe>>
        /\ stage = "walk" /\ i \in 1 .. Len(entries) /\ i' = i - 1
        /\ hits' = IF entries[i].end > probe.start THEN hits \cup {entries[i].id} ELSE hits
    BY DEF WalkEntry, buildVars, TypeOK
  <1>2. /\ Lists(Len(spans)) /\ Sorted /\ Bounded(Len(entries))
        /\ kind = "overlapping" => ~IsEmpty(probe)
        /\ 1 .. i \subseteq EarlyEnough(kind, probe)
        /\ hits \subseteq {id \in DOMAIN spans : Wanted(id)}
        /\ \A k \in (i + 1) .. Len(entries) : Wanted(entries[k].id) => entries[k].id \in hits
    BY <1>1 DEF IndexInv
  <1>3. /\ entries[i].id \in DOMAIN spans
        /\ Wanted(entries[i].id) <=> entries[i].end > probe.start
    BY <1>1, <1>2, WantedEntry DEF TypeOK
  <1>4. hits' \subseteq {id \in DOMAIN spans : Wanted(id)}
    BY <1>1, <1>2, <1>3
  <1>5. \A k \in i .. Len(entries) : Wanted(entries[k].id) => entries[k].id \in hits'
    <2> SUFFICES ASSUME NEW k \in i .. Len(entries), Wanted(entries[k].id)
                 PROVE  entries[k].id \in hits'
      OBVIOUS
    <2>1. CASE k = i
      BY <1>1, <1>3, <2>1
    <2>2. CASE k \in (i + 1) .. Len(entries)
      BY <1>1, <1>2, <2>2
    <2>3. QED
      BY <1>1, <2>1, <2>2
  <1>6. /\ Lists(Len(spans))' /\ Sorted' /\ Bounded(Len(entries))'
        /\ EarlyEnough(kind, probe)' = EarlyEnough(kind, probe)
        /\ (kind = "overlapping" => ~IsEmpty(probe))'
        /\ 1 .. i' \subseteq 1 .. i
    <2>1. Lists(Len(spans))' /\ Sorted' /\ Bounded(Len(entries))'
      BY <1>1, <1>2 DEF Lists, Sorted, Bounded
    <2>2. EarlyEnough(kind, probe)' = EarlyEnough(kind, probe)
      BY <1>1 DEF EarlyEnough
    <2>3. i \in Nat /\ 1 .. i' \subseteq 1 .. i
      BY <1>1 DEF TypeOK
    <2>4. QED
      BY <1>1, <1>2, <2>1, <2>2, <2>3
  <1>7. \A id : Wanted(id)' <=> Wanted(id)
    BY <1>1 DEF Wanted
  <1>8. hits' \subseteq {id \in DOMAIN spans' : Wanted(id)'}
    BY <1>1, <1>4, <1>7
  <1>9. \A k \in (i' + 1) .. Len(entries') : Wanted(entries[k].id)' => entries'[k].id \in hits'
    <2>1. (i' + 1) = i /\ entries' = entries
      BY <1>1
    <2>2. ASSUME NEW k \in i .. Len(entries), Wanted(entries[k].id)'
          PROVE  entries[k].id \in hits'
      BY <1>1, <1>5, <2>2 DEF Wanted
    <2>3. QED
      BY <2>1, <2>2
  <1>10. QED
    BY <1>1, <1>2, <1>6, <1>8, <1>9 DEF IndexInv, AnswerIsExact

\* The early exit loses nothing: what is still to be looked at ends too early.
LEMMA WalkIsDone ==
    ASSUME TypeOK, IndexInv, WalkEnds
    PROVE  IndexInv'
  <1>1. /\ UNCHANGED <<spans, entries, scan, running, kind, probe, i, hits>>
        /\ stage = "walk" /\ stage' = "answer"
        /\ i > 0 => entries[i].maxEnd <= probe.start
    BY DEF WalkEnds, buildVars, queryVars
  <1>2. /\ Lists(Len(spans)) /\ Sorted /\ Bounded(Len(entries))
        /\ kind = "overlapping" => ~IsEmpty(probe)
        /\ hits \subseteq {id \in DOMAIN spans : Wanted(id)}
        /\ \A k \in (i + 1) .. Len(entries) : Wanted(entries[k].id) => entries[k].id \in hits
    BY <1>1 DEF IndexInv
  <1>3. ASSUME NEW k \in 1 .. i PROVE ~Wanted(entries[k].id)
    <2>1. i \in DOMAIN entries /\ k \in DOMAIN entries /\ i > 0 /\ i \in 1 .. Len(entries)
      BY DEF TypeOK
    <2>2. entries[k].end <= entries[i].maxEnd
      BY <1>2, <2>1 DEF Bounded
    <2>3. entries[k].end \in Nat /\ entries[i].maxEnd \in Nat /\ probe.start \in Nat
      BY <2>1, EntryFacts, SpanFacts DEF TypeOK
    <2>4. ~(entries[k].end > probe.start)
      BY <1>1, <2>1, <2>2, <2>3
    <2>5. Len(spans) \in Nat
      BY DEF TypeOK
    <2>6. QED
      BY <1>2, <2>1, <2>4, <2>5, WantedEntry
  <1>4. {id \in DOMAIN spans : Wanted(id)} \subseteq hits
    <2> SUFFICES ASSUME NEW id \in DOMAIN spans, Wanted(id) PROVE id \in hits
      OBVIOUS
    <2>1. id \in 1 .. Len(spans) /\ ~IsEmpty(spans[id])
      BY WantedNotEmpty DEF TypeOK
    <2>2. PICK k \in DOMAIN entries : entries[k].id = id
      BY <1>2, <2>1 DEF Lists
    <2>3. k \in (i + 1) .. Len(entries) \/ k \in 1 .. i
      BY DEF TypeOK
    <2>4. QED
      BY <1>2, <1>3, <2>2, <2>3
  <1>5. hits = {id \in DOMAIN spans : Wanted(id)}
    BY <1>2, <1>4
  <1>6. AnswerIsExact'
    BY <1>1, <1>5 DEF AnswerIsExact, Wanted
  <1>7. Lists(Len(spans))' /\ Sorted' /\ Bounded(Len(entries))'
    BY <1>1, <1>2 DEF Lists, Sorted, Bounded
  <1>8. QED
    BY <1>1, <1>6, <1>7 DEF IndexInv

\* Steps after the build that leave the list alone and no query under way.
LEMMA NoQuery ==
    ASSUME UNCHANGED <<spans, entries>>, stage' = "ready",
           Lists(Len(spans)), Sorted, Bounded(Len(entries))
    PROVE  IndexInv'
  BY DEF Lists, Sorted, Bounded, IndexInv, AnswerIsExact

LEMMA IndexInvInit == TypeOK /\ Init => IndexInv
  <1> SUFFICES ASSUME TypeOK, Init PROVE IndexInv
    OBVIOUS
  <1>1. entries = <<>> /\ scan = 1 /\ stage = "collect" /\ Len(spans) \in Nat
    BY DEF Init, TypeOK
  <1>2. DOMAIN entries = {}
    BY <1>1
  <1>3. Lists(scan - 1)
    BY <1>1, <1>2 DEF Lists
  <1>4. QED
    BY <1>1, <1>3 DEF IndexInv, AnswerIsExact

LEMMA IndexInvNext == TypeOK /\ IndexInv /\ [Next]_vars => IndexInv'
  <1> SUFFICES ASSUME TypeOK, IndexInv, [Next]_vars PROVE IndexInv'
    OBVIOUS
  <1>1. CASE Built
    <2>1. scan - 1 = Len(entries)
      BY <1>1 DEF Built, IndexInv, TypeOK
    <2>2. Lists(Len(spans)) /\ Sorted /\ Bounded(Len(entries))
      BY <1>1, <2>1 DEF Built, IndexInv
    <2>3. QED
      BY <1>1, <2>2, NoQuery DEF Built, buildVars
  <1>2. CASE Return
    BY <1>2, NoQuery DEF Return, IndexInv, buildVars
  <1>3. CASE UNCHANGED vars
    <2>1. UNCHANGED <<spans, entries, stage, scan, running, kind, probe, i, hits>>
      BY <1>3 DEF vars
    <2>2. \A n : (Lists(n)' <=> Lists(n)) /\ (Bounded(n)' <=> Bounded(n))
      BY <2>1 DEF Lists, Bounded
    <2>3. (Sorted' <=> Sorted) /\ EarlyEnough(kind, probe)' = EarlyEnough(kind, probe)
      BY <2>1 DEF Sorted, EarlyEnough
    <2>4. \A id : Wanted(id)' <=> Wanted(id)
      BY <2>1 DEF Wanted
    <2>5. QED
      BY <2>1, <2>2, <2>3, <2>4 DEF IndexInv, AnswerIsExact
  <1>4. QED
    BY <1>1, <1>2, <1>3, CollectLists, SortKeepsLists, MaximumBounds, AskStarts, WalkKeeps,
       WalkIsDone
    DEF Next

\* at and overlapping (index.rs) return exactly the claims asked for, whatever
\* spans the index was built from: the early exit never loses one.
THEOREM AnswersAreExact == Spec => []AnswerIsExact
  <1>1. Spec => []IndexInv
    BY IndexInvInit, IndexInvNext, IndexTypeCorrect, PTL DEF Spec
  <1>2. IndexInv => AnswerIsExact
    BY DEF IndexInv
  <1>3. QED
    BY <1>1, <1>2, PTL
=============================================================================
