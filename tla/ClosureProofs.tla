---------------------------- MODULE ClosureProofs ----------------------------
(***************************************************************************)
(* What is proved of the dependency closure, for every set of names, every *)
(* disk and every program.                                                 *)
(***************************************************************************)
EXTENDS Closure, SequenceTheorems, TLAPS

LEMMA FileFacts ==
    ASSUME NEW f \in Files \cup Programs
    PROVE  /\ f \in File
           /\ f.needed \in Seq(Names) /\ Len(f.needed) \in Nat
           /\ f.lo \in Nat /\ f.hi \in Nat /\ f.lo <= f.hi
  BY FilesAssumption DEF File, Needed

LEMMA RoundDownFacts ==
    ASSUME NEW n \in Nat
    PROVE  RoundDown(n) \in Nat /\ RoundDown(n) <= n /\ n < RoundDown(n) + Page
  <1>1. Page \in Nat \ {0} /\ n % Page \in 0 .. (Page - 1) /\ n = Page * (n \div Page) + (n % Page)
        /\ n \div Page \in Nat
    BY LayoutAssumption
  <1>2. Page * (n \div Page) \in Nat
    BY <1>1
  <1>3. QED
    BY <1>1, <1>2 DEF RoundDown

\* The next object starts behind this one, if this one starts at 0.
LEMMA AdvanceFacts ==
    ASSUME NEW f \in Files \cup Programs, NEW base \in Nat
    PROVE  Advance(base, f) \in Nat /\ base + (f.hi - f.lo) <= Advance(base, f)
  <1> DEFINE n == base + (f.hi - f.lo) + Gap
  <1>1. n \in Nat /\ base + (f.hi - f.lo) \in Nat /\ Gap \in Nat /\ Page \in Nat /\ Page <= Gap
    BY FileFacts, LayoutAssumption
  <1>2. RoundDown(n) \in Nat /\ n < RoundDown(n) + Page
    BY <1>1, RoundDownFacts
  <1>3. QED
    BY <1>1, <1>2 DEF Advance

\* What read_object and the push that follows do to the list of objects.
LEMMA PlaceFacts ==
    ASSUME TypeOK, NEW f \in Files \cup Programs, NEW r \in Names \cup {Elsewhere},
           NEW p \in 0 .. Len(objects), Place(f, r, p)
    PROVE  /\ objects' \in Seq(Object)
           /\ Len(objects) \in Nat /\ Len(objects') = Len(objects) + 1
           /\ Ids' = Ids \cup {Len(objects) + 1} /\ Len(objects) + 1 \notin Ids
           /\ \A o \in Ids : objects'[o] = objects[o]
           /\ objects'[Len(objects) + 1].requested = r
           /\ objects'[Len(objects) + 1].neededBy = p
           /\ objects'[Len(objects) + 1].needed = f.needed
           /\ objects'[Len(objects) + 1].lo = f.lo
           /\ objects'[Len(objects) + 1].hi = f.hi
           /\ objects'[Len(objects) + 1].base = nextBase
           /\ nextBase' = Advance(nextBase, f) /\ nextBase' \in Nat
  <1> DEFINE obj == [requested |-> r, neededBy |-> p, needed |-> f.needed,
                     lo |-> f.lo, hi |-> f.hi, base |-> nextBase]
  <1>1. objects \in Seq(Object) /\ Len(objects) \in Nat /\ nextBase \in Nat
    BY DEF TypeOK
  <1>2. obj \in Object
    BY <1>1, FileFacts DEF Object, Needed
  <1>3. objects' = Append(objects, obj)
    BY DEF Place
  <1> HIDE DEF obj
  <1>4. /\ objects' \in Seq(Object) /\ Len(objects') = Len(objects) + 1
        /\ \A o \in Ids : objects'[o] = objects[o]
        /\ objects'[Len(objects) + 1] = obj
    BY <1>1, <1>2, <1>3 DEF Ids
  <1>5. Ids' = Ids \cup {Len(objects) + 1} /\ Len(objects) + 1 \notin Ids
    BY <1>1, <1>4 DEF Ids
  <1>6. nextBase' = Advance(nextBase, f) /\ nextBase' \in Nat
    BY <1>1, AdvanceFacts DEF Place
  <1>7. QED
    BY <1>1, <1>4, <1>5, <1>6 DEF obj

LEMMA RequestsFacts ==
    ASSUME NEW f \in Files \cup Programs, NEW id \in Nat \ {0}
    PROVE  /\ Requests(f, id) \in Seq(Request)
           /\ Len(Requests(f, id)) = Len(f.needed)
           /\ \A k \in 1 .. Len(f.needed) :
                 /\ Requests(f, id)[k].name = f.needed[k]
                 /\ Requests(f, id)[k].asker = id
  <1>1. \A k \in 1 .. Len(f.needed) : [name |-> f.needed[k], asker |-> id] \in Request
    BY FileFacts DEF Request
  <1>2. QED
    BY <1>1, FileFacts DEF Requests

\* The queue after its head was taken off and an object's needs were added.
LEMMA QueueFacts ==
    ASSUME TypeOK, queue # <<>>, NEW R \in Seq(Request), queue' = Tail(queue) \o R
    PROVE  /\ queue' \in Seq(Request)
           /\ Len(queue) \in Nat \ {0} /\ Len(R) \in Nat
           /\ Len(queue') = (Len(queue) - 1) + Len(R)
           /\ \A k \in 1 .. (Len(queue) - 1) : queue'[k] = queue[k + 1]
           /\ \A k \in 1 .. Len(R) : queue'[(Len(queue) - 1) + k] = R[k]
  <1> DEFINE T == Tail(queue)
  <1>1. queue \in Seq(Request) /\ Len(queue) \in Nat \ {0}
    BY DEF TypeOK
  <1>2. /\ T \in Seq(Request) /\ Len(T) = Len(queue) - 1
        /\ \A k \in 1 .. (Len(queue) - 1) : T[k] = queue[k + 1]
    BY <1>1
  <1> HIDE DEF T
  <1>3. queue' = T \o R
    BY DEF T
  <1>4. queue' \in Seq(Request) /\ Len(queue') = Len(T) + Len(R) /\ Len(R) \in Nat
    <2>1. Len(R) \in Nat
      OBVIOUS
    <2>2. T \o R \in Seq(Request) /\ Len(T \o R) = Len(T) + Len(R)
      BY <1>2, ConcatProperties
    <2>3. QED
      BY <1>3, <2>1, <2>2
  <1>5. \A k \in 1 .. Len(T) : queue'[k] = T[k]
    BY <1>2, <1>3, <1>4, ConcatProperties
  <1>6. \A k \in 1 .. Len(R) : queue'[Len(T) + k] = R[k]
    BY <1>2, <1>3, <1>4, ConcatProperties
  <1>7. QED
    BY <1>1, <1>2, <1>4, <1>5, <1>6

LEMMA TailFacts ==
    ASSUME TypeOK, queue # <<>>, queue' = Tail(queue)
    PROVE  /\ queue' \in Seq(Request)
           /\ Len(queue) \in Nat \ {0} /\ Len(queue') = Len(queue) - 1
           /\ \A k \in 1 .. (Len(queue) - 1) : queue'[k] = queue[k + 1]
  BY DEF TypeOK

LEMMA HeadFacts ==
    ASSUME TypeOK, queue # <<>>
    PROVE  /\ Head(queue) = queue[1] /\ 1 \in 1 .. Len(queue)
           /\ Head(queue).name \in Names
           /\ Head(queue).asker \in Ids
           /\ disk[Head(queue).name] \in Files
  <1>1. queue \in Seq(Request) /\ Len(queue) \in Nat \ {0} /\ Head(queue) = queue[1]
    BY DEF TypeOK
  <1>2. queue[1] \in Request
    BY <1>1
  <1>3. QED
    BY <1>1, <1>2 DEF TypeOK, Request

-----------------------------------------------------------------------------
LEMMA TypeInit == Init => TypeOK
  BY PathsAssumption DEF Init, TypeOK, NoError, Ids, Finished

LEMMA TypeNext == TypeOK /\ [Next]_vars => TypeOK'
  <1> SUFFICES ASSUME TypeOK, [Next]_vars PROVE TypeOK'
    OBVIOUS
  <1> USE DEF inputs, Finished
  <1>1. CASE ReadProgram
    <2>1. objects = <<>> \/ Len(objects) \in Nat
      BY DEF TypeOK
    <2>2. program \in Programs /\ Place(program, path, 0) /\ path \in Names \cup {Elsewhere}
          /\ 0 \in 0 .. Len(objects) /\ queue' = Requests(program, 1)
      BY <1>1 DEF ReadProgram, TypeOK
    <2>3. /\ objects' \in Seq(Object) /\ nextBase' \in Nat
          /\ Ids' = Ids \cup {Len(objects) + 1} /\ Len(objects) \in Nat
          /\ \A o \in Ids : objects'[o] = objects[o]
          /\ objects'[Len(objects) + 1].neededBy = 0
      BY <2>2, PlaceFacts
    <2>4. \A o \in Ids' : objects'[o].neededBy \in 0 .. (o - 1)
      <3>1. \A o \in Ids : objects[o].neededBy \in 0 .. (o - 1)
        BY DEF TypeOK
      <3>2. 0 \in 0 .. ((Len(objects) + 1) - 1)
        BY <2>3
      <3>3. QED
        BY <2>3, <3>1, <3>2
    <2>5. queue' \in Seq(Request) /\ \A k \in 1 .. Len(queue') : queue'[k].asker = 1
      BY <2>2, RequestsFacts
    <2>6. 1 \in Ids'
      BY <2>3 DEF Ids
    <2>7. QED
      BY <1>1, <2>3, <2>4, <2>5, <2>6 DEF ReadProgram, TypeOK
  <1>2. CASE LoadObject
    <2> DEFINE n == Len(objects)
    <2> PICK f : f = disk[Head(queue).name]
      OBVIOUS
    <2> PICK R : R = Requests(f, n + 1)
      OBVIOUS
    <2>1. /\ f \in Files /\ Head(queue).name \in Names /\ Head(queue).asker \in Ids
          /\ n \in Nat /\ Ids = 1 .. n
      BY <1>2, HeadFacts DEF LoadObject, TypeOK, Ids
    <2>2. Place(f, Head(queue).name, Head(queue).asker) /\ queue' = Tail(queue) \o R
      BY <1>2 DEF LoadObject
    <2>3. R \in Seq(Request) /\ \A k \in 1 .. Len(R) : R[k].asker = n + 1
      BY <2>1, RequestsFacts
    <2>4. /\ objects' \in Seq(Object) /\ nextBase' \in Nat /\ Ids' = Ids \cup {n + 1}
          /\ \A o \in Ids : objects'[o] = objects[o]
          /\ objects'[n + 1].neededBy = Head(queue).asker
      BY <2>1, <2>2, PlaceFacts
    <2>5. /\ queue' \in Seq(Request) /\ Len(queue) \in Nat \ {0} /\ Len(R) \in Nat
          /\ Len(queue') = (Len(queue) - 1) + Len(R)
          /\ \A k \in 1 .. (Len(queue) - 1) : queue'[k] = queue[k + 1]
          /\ \A k \in 1 .. Len(R) : queue'[(Len(queue) - 1) + k] = R[k]
      BY <1>2, <2>2, <2>3, QueueFacts DEF LoadObject
    <2>6. \A o \in Ids' : objects'[o].neededBy \in 0 .. (o - 1)
      <3>1. \A o \in Ids : objects[o].neededBy \in 0 .. (o - 1)
        BY DEF TypeOK
      <3>2. Head(queue).asker \in 0 .. ((n + 1) - 1)
        BY <2>1
      <3>3. QED
        BY <2>4, <3>1, <3>2
    <2>7. ASSUME NEW k \in 1 .. Len(queue') PROVE queue'[k].asker \in Ids'
      <3>1. CASE k \in 1 .. (Len(queue) - 1)
        BY <2>4, <2>5, <3>1, SMTT(30) DEF TypeOK
      <3>2. CASE k \notin 1 .. (Len(queue) - 1)
        <4> DEFINE j == k - (Len(queue) - 1)
        <4>1. j \in 1 .. Len(R) /\ k = (Len(queue) - 1) + j
          BY <2>5, <3>2
        <4>2. queue'[k] = R[j]
          BY <2>5, <4>1
        <4>3. QED
          BY <2>3, <2>4, <4>1, <4>2
      <3>3. QED
        BY <3>1, <3>2
    <2>8. QED
      BY <1>2, <2>4, <2>5, <2>6, <2>7 DEF LoadObject, TypeOK
  <1>3. CASE Skip
    BY <1>3, TailFacts DEF Skip, TypeOK, Ids
  <1>4. ASSUME NEW kind \in Finished, NEW name \in Names \cup {Elsewhere}, NEW asker \in Nat,
               Fail(kind, name, asker)
        PROVE  TypeOK'
    BY <1>4 DEF Fail, TypeOK, Ids
  <1>5. CASE ProgramUnreadable
    BY <1>4, <1>5 DEF ProgramUnreadable, TypeOK
  <1>6. CASE NotFound
    BY <1>4, <1>6, HeadFacts DEF NotFound, Ids
  <1>7. CASE Unreadable
    BY <1>4, <1>7, HeadFacts DEF Unreadable, Ids
  <1>8. CASE Done
    BY <1>8 DEF Done, TypeOK, Ids
  <1>9. CASE UNCHANGED vars
    BY <1>9 DEF vars, TypeOK, Ids
  <1>10. QED
    BY <1>1, <1>2, <1>3, <1>5, <1>6, <1>7, <1>8, <1>9 DEF Next

\* Every variable keeps its type; whoever asks for a name is loaded already,
\* and was loaded before what it asked for.
THEOREM ClosureTypeCorrect == Spec => []TypeOK
  BY TypeInit, TypeNext, PTL DEF Spec

-----------------------------------------------------------------------------
(* The closure.                                                            *)

\* Taking off a head that is met, or loading it, keeps every need met.
LEMMA SkipKeeps ==
    ASSUME TypeOK, ClosureInv, Skip
    PROVE  ClosureInv'
  <1>1. /\ stage = "walk" /\ queue # <<>> /\ Satisfied(Head(queue).name)
        /\ queue' = Tail(queue)
        /\ UNCHANGED <<disk, program, path, interp, stage, objects, nextBase, error>>
    BY DEF Skip, inputs
  <1>2. /\ Len(queue) \in Nat \ {0} /\ Len(queue') = Len(queue) - 1
        /\ \A k \in 1 .. (Len(queue) - 1) : queue'[k] = queue[k + 1]
        /\ Head(queue) = queue[1]
    BY <1>1, TailFacts, HeadFacts
  <1>3. Ids' = Ids /\ \A o : Listed(o)' = Listed(o)
    BY <1>1 DEF Ids, Listed
  <1>4. \A name : Satisfied(name)' <=> Satisfied(name)
    BY <1>1, <1>3 DEF Satisfied, Loaded
  <1>5. ASSUME NEW o \in Ids, NEW name \in Listed(o) PROVE Met(name, o)'
    <2>1. CASE Satisfied(name)
      BY <1>4, <2>1 DEF Met
    <2>2. CASE ~Satisfied(name)
      <3>1. PICK k \in 1 .. Len(queue) : queue[k].name = name /\ queue[k].asker = o
        BY <2>2 DEF ClosureInv, Met, Waiting
      <3>2. k # 1
        BY <1>1, <1>2, <2>2, <3>1
      <3>3. k - 1 \in 1 .. Len(queue') /\ queue'[k - 1] = queue[k]
        BY <1>2, <3>1, <3>2
      <3>4. QED
        BY <3>1, <3>3 DEF Met, Waiting
    <2>3. QED
      BY <2>1, <2>2
  <1>6. AskedOnceByTheFirst'
    BY <1>1, <1>3 DEF ClosureInv, AskedOnceByTheFirst
  <1>7. \A k, m \in 1 .. Len(queue') : k < m => queue'[k].asker <= queue'[m].asker
    <2> SUFFICES ASSUME NEW k \in 1 .. (Len(queue) - 1), NEW m \in 1 .. (Len(queue) - 1), k < m
                 PROVE  queue'[k].asker <= queue'[m].asker
      BY <1>2
    <2>1. k + 1 \in 1 .. Len(queue) /\ m + 1 \in 1 .. Len(queue) /\ k + 1 < m + 1
      BY <1>2
    <2>2. QED
      BY <1>2, <2>1 DEF ClosureInv
  <1>8. \A k \in 1 .. Len(queue') : queue'[k].name \in Listed(queue'[k].asker)
    <2> SUFFICES ASSUME NEW k \in 1 .. (Len(queue) - 1)
                 PROVE  queue'[k].name \in Listed(queue'[k].asker)
      BY <1>2
    <2>1. k + 1 \in 1 .. Len(queue)
      BY <1>2
    <2>2. QED
      BY <1>2, <2>1 DEF ClosureInv
  <1>9. QED
    BY <1>1, <1>3, <1>5, <1>6, <1>7, <1>8 DEF ClosureInv

LEMMA LoadKeeps ==
    ASSUME TypeOK, ClosureInv, LoadObject
    PROVE  ClosureInv'
  <1> PICK n, L, head, f : n = Len(objects) /\ L = Len(queue) /\ head = Head(queue)
                           /\ f = disk[head.name]
    OBVIOUS
  <1> PICK R : R = Requests(f, n + 1)
    OBVIOUS
  <1>1. /\ f \in Files /\ head.name \in Names /\ head.asker \in Ids
        /\ n \in Nat /\ Ids = 1 .. n /\ head = queue[1]
    BY HeadFacts DEF LoadObject, TypeOK, Ids
  <1>2. /\ Place(f, head.name, head.asker) /\ queue' = Tail(queue) \o R
        /\ stage = "walk" /\ stage' = "walk" /\ queue # <<>> /\ ~Satisfied(head.name)
        /\ UNCHANGED <<disk, program, path, interp>>
    BY DEF LoadObject, inputs
  <1>3. /\ R \in Seq(Request) /\ Len(R) = Len(f.needed)
        /\ \A k \in 1 .. Len(R) : R[k].name = f.needed[k] /\ R[k].asker = n + 1
    BY <1>1, RequestsFacts
  <1>4. /\ Ids' = Ids \cup {n + 1} /\ n + 1 \notin Ids /\ Len(objects') = n + 1
        /\ \A o \in Ids : objects'[o] = objects[o]
        /\ objects'[n + 1].requested = head.name
        /\ objects'[n + 1].neededBy = head.asker
        /\ objects'[n + 1].needed = f.needed
    BY <1>1, <1>2, PlaceFacts
  <1>5. /\ L \in Nat \ {0} /\ Len(R) \in Nat /\ Len(queue') = (L - 1) + Len(R)
        /\ \A k \in 1 .. (L - 1) : queue'[k] = queue[k + 1]
        /\ \A k \in 1 .. Len(R) : queue'[(L - 1) + k] = R[k]
    <2>1. R \in Seq(Request) /\ queue # <<>> /\ queue' = Tail(queue) \o R
      BY <1>2, <1>3
    <2>2. /\ Len(queue) \in Nat \ {0} /\ Len(R) \in Nat
          /\ Len(queue') = (Len(queue) - 1) + Len(R)
          /\ \A k \in 1 .. (Len(queue) - 1) : queue'[k] = queue[k + 1]
          /\ \A k \in 1 .. Len(R) : queue'[(Len(queue) - 1) + k] = R[k]
      BY <2>1, QueueFacts
    <2>3. L = Len(queue)
      OBVIOUS
    <2>4. QED
      BY <2>2, <2>3
  <1>6. \A o \in Ids : Listed(o)' = Listed(o)
    BY <1>4 DEF Listed
  <1>7. Listed(n + 1)' = {f.needed[k] : k \in 1 .. Len(f.needed)}
    BY <1>4 DEF Listed
  <1>8. ASSUME NEW name, Satisfied(name) PROVE Satisfied(name)'
    BY <1>2, <1>4, <1>8 DEF Satisfied, Loaded
  <1>9. Satisfied(head.name)'
    BY <1>4 DEF Satisfied, Loaded
  <1>10. \A p \in 1 .. (head.asker - 1) : head.name \notin Listed(p)
    <2> SUFFICES ASSUME NEW p \in 1 .. (head.asker - 1), head.name \in Listed(p) PROVE FALSE
      OBVIOUS
    <2>1. p \in Ids /\ head.asker \in Nat
      BY <1>1
    <2>2. PICK k \in 1 .. L : queue[k].name = head.name /\ queue[k].asker = p
      BY <1>2, <2>1 DEF ClosureInv, Met, Waiting
    <2>3. CASE k = 1
      BY <1>1, <2>1, <2>2, <2>3
    <2>4. CASE k # 1
      <3>1. queue[1].asker <= queue[k].asker
        BY <1>5, <2>2, <2>4 DEF ClosureInv
      <3>2. QED
        BY <1>1, <2>1, <2>2, <3>1
    <2>5. QED
      BY <2>3, <2>4
  <1>11. head.name \in Listed(head.asker)
    BY <1>1, <1>5, SMTT(30) DEF ClosureInv
  <1>12. AskedOnceByTheFirst'
    <2>1. \A o \in Ids : objects[o].requested # head.name
      BY <1>2 DEF Satisfied, Loaded
    <2>2. \A o, p \in Ids' : objects'[o].requested = objects'[p].requested => o = p
      BY <1>4, <2>1 DEF ClosureInv, AskedOnceByTheFirst
    <2>3. ASSUME NEW o \in Ids' \ {1}
          PROVE  /\ objects'[o].neededBy # 0
                 /\ objects'[o].requested \in Listed(objects[o].neededBy)'
                 /\ \A p \in 1 .. (objects'[o].neededBy - 1) : objects'[o].requested \notin Listed(p)'
      <3>1. CASE o = n + 1
        <4>1. head.asker \in 1 .. n /\ \A p \in 1 .. (head.asker - 1) : p \in Ids
          BY <1>1
        <4>2. QED
          BY <1>4, <1>6, <1>10, <1>11, <3>1, <4>1, <1>1
      <3>2. CASE o \in Ids
        <4>1. objects[o].neededBy \in 0 .. (o - 1) /\ objects[o].neededBy # 0
          BY <2>3, <3>2 DEF TypeOK, ClosureInv, AskedOnceByTheFirst
        <4>2. objects[o].neededBy \in Ids
              /\ \A p \in 1 .. (objects[o].neededBy - 1) : p \in Ids
          BY <1>1, <3>2, <4>1
        <4>3. /\ objects[o].requested \in Listed(objects[o].neededBy)
              /\ \A p \in 1 .. (objects[o].neededBy - 1) : objects[o].requested \notin Listed(p)
          BY <2>3, <3>2 DEF ClosureInv, AskedOnceByTheFirst
        <4>4. QED
          BY <1>4, <1>6, <3>2, <4>1, <4>2, <4>3
      <3>3. QED
        BY <1>4, <3>1, <3>2
    <2>4. QED
      BY <2>2, <2>3 DEF AskedOnceByTheFirst
  <1>13. ASSUME NEW k \in 1 .. Len(queue')
         PROVE  \/ k \in 1 .. (L - 1) /\ k + 1 \in 1 .. L /\ queue'[k] = queue[k + 1]
                                      /\ queue'[k].asker \in Ids
                \/ /\ k \notin 1 .. (L - 1) /\ k - (L - 1) \in 1 .. Len(f.needed)
                   /\ queue'[k].name = f.needed[k - (L - 1)]
                   /\ queue'[k].asker = n + 1
    <2>1. CASE k \in 1 .. (L - 1)
      BY <1>5, <2>1, SMTT(30) DEF TypeOK
    <2>2. CASE k \notin 1 .. (L - 1)
      <3> DEFINE j == k - (L - 1)
      <3>1. j \in 1 .. Len(R) /\ k = (L - 1) + j
        BY <1>5, <2>2
      <3>2. queue'[k] = R[j]
        BY <1>5, <3>1
      <3>3. QED
        BY <1>3, <2>2, <3>1, <3>2, SMTT(30)
    <2>3. QED
      BY <2>1, <2>2
  <1>14. ASSUME NEW k \in 1 .. Len(queue'), NEW m \in 1 .. Len(queue'), k < m
         PROVE  queue'[k].asker <= queue'[m].asker
    <2>1. CASE k \in 1 .. (L - 1) /\ m \in 1 .. (L - 1)
      <3>1. k + 1 \in 1 .. L /\ m + 1 \in 1 .. L /\ k + 1 < m + 1
        BY <1>5, <1>14, <2>1
      <3>2. QED
        BY <1>5, <2>1, <3>1 DEF ClosureInv
    <2>2. CASE m \notin 1 .. (L - 1)
      <3>1. queue'[m].asker = n + 1
        BY <1>13, <2>2
      <3>2. queue'[k].asker \in Ids \/ queue'[k].asker = n + 1
        BY <1>13
      <3>3. QED
        BY <1>1, <3>1, <3>2
    <2>3. QED
      BY <1>5, <1>14, <2>1, <2>2
  <1>15. ASSUME NEW k \in 1 .. Len(queue')
         PROVE  queue'[k].name \in Listed(queue[k].asker)'
    <2>1. CASE k \in 1 .. (L - 1)
      <3>1. /\ k + 1 \in 1 .. L /\ queue'[k] = queue[k + 1] /\ queue[k + 1].asker \in Ids
        BY <1>13, <2>1
      <3>2. queue[k + 1].name \in Listed(queue[k + 1].asker)
        BY <3>1 DEF ClosureInv
      <3>3. QED
        BY <1>6, <3>1, <3>2
    <2>2. CASE k \notin 1 .. (L - 1)
      BY <1>7, <1>13, <2>2
    <2>3. QED
      BY <2>1, <2>2
  <1>16. ASSUME NEW o \in Ids', NEW name \in Listed(o)' PROVE Met(name, o)'
    <2>1. CASE o \in Ids
      <3>1. name \in Listed(o) /\ Met(name, o)
        BY <1>6, <2>1, <1>16 DEF ClosureInv
      <3>2. CASE Satisfied(name) \/ name = head.name
        BY <1>8, <1>9, <3>2 DEF Met
      <3>3. CASE ~Satisfied(name) /\ name # head.name
        <4>1. PICK k \in 1 .. L : queue[k].name = name /\ queue[k].asker = o
          BY <3>1, <3>3 DEF Met, Waiting
        <4>2. k # 1
          BY <1>1, <3>3, <4>1
        <4>3. k - 1 \in 1 .. (L - 1) /\ k - 1 \in 1 .. Len(queue') /\ queue'[k - 1] = queue[k]
          BY <1>5, <4>1, <4>2
        <4>4. QED
          BY <4>1, <4>3 DEF Met, Waiting
      <3>4. QED
        BY <3>2, <3>3
    <2>2. CASE o = n + 1
      <3>1. PICK j \in 1 .. Len(R) : name = f.needed[j]
        BY <1>3, <1>7, <1>16, <2>2
      <3>2. (L - 1) + j \in 1 .. Len(queue') /\ queue'[(L - 1) + j] = R[j]
        BY <1>5, <3>1
      <3>3. R[j].name = name /\ R[j].asker = o
        BY <1>3, <2>2, <3>1
      <3>4. Waiting(name, o)'
        BY <3>2, <3>3, Zenon DEF Waiting
      <3>5. QED
        BY <3>4 DEF Met
    <2>3. QED
      BY <1>4, <2>1, <2>2
  <1>17. objects' # <<>>
    BY <1>1, <1>4
  <1>18. QED
    BY <1>2, <1>12, <1>14, <1>15, <1>16, <1>17 DEF ClosureInv

LEMMA ProgramStarts ==
    ASSUME TypeOK, ClosureInv, ReadProgram
    PROVE  ClosureInv'
  <1>1. /\ stage = "start" /\ stage' = "walk" /\ objects = <<>> /\ program \in Programs
        /\ Place(program, path, 0) /\ queue' = Requests(program, 1)
        /\ path \in Names \cup {Elsewhere}
    BY DEF ReadProgram, ClosureInv, TypeOK
  <1>2. Len(objects) = 0 /\ Ids = {}
    BY <1>1 DEF Ids
  <1>3. /\ Ids' = {1} /\ Len(objects') = 1 /\ objects'[1].needed = program.needed
    BY <1>1, <1>2, PlaceFacts
  <1>4. Listed(1)' = {program.needed[k] : k \in 1 .. Len(program.needed)}
    BY <1>3 DEF Listed
  <1>5. /\ Len(queue') = Len(program.needed)
        /\ \A k \in 1 .. Len(program.needed) :
              queue'[k].name = program.needed[k] /\ queue'[k].asker = 1
    BY <1>1, RequestsFacts
  <1>6. \A o \in Ids' : \A name \in Listed(o)' : Met(name, o)'
    BY <1>3, <1>4, <1>5 DEF Met, Waiting
  <1>7. AskedOnceByTheFirst'
    BY <1>3 DEF AskedOnceByTheFirst
  <1>8. /\ \A k, m \in 1 .. Len(queue') : k < m => queue'[k].asker <= queue'[m].asker
        /\ \A k \in 1 .. Len(queue') : queue'[k].name \in Listed(queue[k].asker)'
    BY <1>4, <1>5
  <1>9. objects' # <<>>
    BY <1>3
  <1>10. QED
    BY <1>1, <1>6, <1>7, <1>8, <1>9 DEF ClosureInv

\* Steps that touch neither the objects nor the queue.
LEMMA NothingMoves ==
    ASSUME ClosureInv, UNCHANGED <<interp, objects, queue>>,
           \/ stage' \in {"notFound", "unreadable"}
           \/ stage' = "done" /\ queue = <<>>
           \/ stage' = stage
    PROVE  ClosureInv'
  <1>1. Ids' = Ids /\ \A o : Listed(o)' = Listed(o)
    BY DEF Ids, Listed
  <1>2. \A name, o : Met(name, o)' <=> Met(name, o)
    BY <1>1 DEF Met, Waiting, Satisfied, Loaded
  <1>3. AskedOnceByTheFirst'
    BY <1>1 DEF ClosureInv, AskedOnceByTheFirst
  <1>4. QED
    BY <1>1, <1>2, <1>3 DEF ClosureInv

LEMMA ClosureInvInit == Init => ClosureInv
  BY DEF Init, ClosureInv, AskedOnceByTheFirst, Ids

LEMMA ClosureInvNext == TypeOK /\ ClosureInv /\ [Next]_vars => ClosureInv'
  <1> SUFFICES ASSUME TypeOK, ClosureInv, [Next]_vars PROVE ClosureInv'
    OBVIOUS
  <1>1. ASSUME NEW kind \in {"notFound", "unreadable"}, NEW name, NEW asker,
               Fail(kind, name, asker)
        PROVE  ClosureInv'
    BY <1>1, NothingMoves DEF Fail, inputs
  <1>2. CASE Done
    BY <1>2, NothingMoves DEF Done, inputs
  <1>3. CASE UNCHANGED vars
    BY <1>3, NothingMoves DEF vars
  <1>4. QED
    BY <1>1, <1>2, <1>3, SkipKeeps, LoadKeeps, ProgramStarts
    DEF Next, ProgramUnreadable, NotFound, Unreadable

LEMMA ClosureInvariant == Spec => []ClosureInv
  BY ClosureInvInit, ClosureInvNext, ClosureTypeCorrect, PTL DEF Spec

\* load (elfa-load) loads a name once, and records the first object to need it.
THEOREM AskedOnce == Spec => []AskedOnceByTheFirst
  <1>1. ClosureInv => AskedOnceByTheFirst
    BY DEF ClosureInv
  <1>2. QED
    BY <1>1, ClosureInvariant, PTL

\* When load succeeds, every name any loaded object needs is the interpreter's
\* or is loaded.
THEOREM EveryNeedIsMet ==
    Spec => [](stage = "done" => \A o \in Ids : \A name \in Listed(o) : Satisfied(name))
  <1>1. ClosureInv => (stage = "done" => \A o \in Ids : \A name \in Listed(o) : Satisfied(name))
    BY DEF ClosureInv, Met, Waiting
  <1>2. QED
    BY <1>1, ClosureInvariant, PTL

-----------------------------------------------------------------------------
(* What is loaded, and what a failure says.                                *)

\* What is loaded is what its file says, and was there; whatever set is closed
\* under need holds all that is loaded or waits.
ReachInv ==
    /\ \A o \in Ids : objects[o].needed = FileOf(objects[o].requested).needed
    /\ objects # <<>> => objects[1].requested = path
    /\ stage = "done" => objects # <<>>
    /\ \A o \in Ids \ {1} :
          /\ objects[o].requested \in Names \ {path, interp}
          /\ disk[objects[o].requested].kind = "object"
    /\ \A T \in SUBSET Names : ClosedUnderNeed(T) =>
          /\ \A o \in Ids \ {1} : objects[o].requested \in T
          /\ \A k \in 1 .. Len(queue) : queue[k].name \in T \cup {interp}
    /\ FailureIsTrue

\* The inputs are read and never written.
LEMMA InputsStay ==
    ASSUME [Next]_vars
    PROVE  /\ UNCHANGED inputs
           /\ \A n : FileOf(n)' = FileOf(n)
           /\ \A T : ClosedUnderNeed(T)' <=> ClosedUnderNeed(T)
  <1>1. UNCHANGED <<disk, program, path, interp>>
    BY DEF Next, vars, inputs, ReadProgram, ProgramUnreadable, Skip, NotFound, Unreadable,
           LoadObject, Done, Fail
  <1>2. QED
    BY <1>1 DEF inputs, FileOf, ClosedUnderNeed

LEMMA ReachInit == Init => ReachInv
  <1> SUFFICES ASSUME Init PROVE ReachInv
    OBVIOUS
  <1>1. /\ objects = <<>> /\ queue = <<>> /\ Ids = {} /\ 1 .. Len(queue) = {}
        /\ stage = "start"
    BY DEF Init, Ids
  <1>2. QED
    BY <1>1 DEF ReachInv, FailureIsTrue

LEMMA ReachProgram ==
    ASSUME TypeOK, ClosureInv, ReadProgram
    PROVE  ReachInv'
  <1>1. /\ stage' = "walk" /\ objects = <<>> /\ program \in Programs
        /\ Place(program, path, 0) /\ queue' = Requests(program, 1)
        /\ path \in Names \cup {Elsewhere} /\ [Next]_vars
    BY DEF ReadProgram, ClosureInv, TypeOK, Next
  <1>2. Len(objects) = 0 /\ Ids = {}
    BY <1>1 DEF Ids
  <1>3. /\ Ids' = {1} /\ objects'[1].needed = program.needed /\ objects'[1].requested = path
    BY <1>1, <1>2, PlaceFacts
  <1>4. UNCHANGED <<disk, program, path, interp>>
    BY <1>1, InputsStay DEF inputs
  <1>5. FileOf(path)' = program
    BY <1>4 DEF FileOf
  <1>6. ASSUME NEW T \in SUBSET Names, ClosedUnderNeed(T)', NEW k \in 1 .. Len(queue')
        PROVE  queue'[k].name \in T \cup {interp'}
    <2>1. k \in 1 .. Len(program.needed) /\ queue'[k].name = program.needed[k]
      BY <1>1, RequestsFacts
    <2>2. QED
      BY <1>4, <1>6, <2>1 DEF ClosedUnderNeed, FileOf
  <1>7. FailureIsTrue'
    BY <1>1 DEF FailureIsTrue
  <1>8. \A o \in Ids' : objects'[o].needed = FileOf(objects[o].requested)'.needed
    BY <1>3, <1>4, <1>5 DEF FileOf
  <1>9. QED
    BY <1>1, <1>3, <1>4, <1>6, <1>7, <1>8 DEF ReachInv

LEMMA ReachLoad ==
    ASSUME TypeOK, ClosureInv, ReachInv, LoadObject
    PROVE  ReachInv'
  <1> PICK n, L, head, f : n = Len(objects) /\ L = Len(queue) /\ head = Head(queue)
                           /\ f = disk[head.name]
    OBVIOUS
  <1> PICK R : R = Requests(f, n + 1)
    OBVIOUS
  <1>1. /\ f \in Files /\ head.name \in Names /\ head.asker \in Ids
        /\ n \in Nat /\ Ids = 1 .. n /\ head = queue[1] /\ 1 \in 1 .. Len(queue)
    BY HeadFacts DEF LoadObject, TypeOK, Ids
  <1>2. /\ Place(f, head.name, head.asker) /\ queue' = Tail(queue) \o R
        /\ stage = "walk" /\ stage' = "walk" /\ queue # <<>> /\ ~Satisfied(head.name)
        /\ UNCHANGED <<disk, program, path, interp>> /\ [Next]_vars
        /\ f.kind = "object"
    BY DEF LoadObject, inputs, Next
  <1>3. /\ R \in Seq(Request) /\ Len(R) = Len(f.needed)
        /\ \A k \in 1 .. Len(R) : R[k].name = f.needed[k]
    BY <1>1, RequestsFacts
  <1>4. /\ Ids' = Ids \cup {n + 1} /\ n + 1 \notin Ids
        /\ \A o \in Ids : objects'[o] = objects[o]
        /\ objects'[n + 1].requested = head.name
        /\ objects'[n + 1].needed = f.needed
    BY <1>1, <1>2, PlaceFacts
  <1>5. /\ L \in Nat \ {0} /\ Len(R) \in Nat /\ Len(queue') = (L - 1) + Len(R)
        /\ \A k \in 1 .. (L - 1) : queue'[k] = queue[k + 1]
        /\ \A k \in 1 .. Len(R) : queue'[(L - 1) + k] = R[k]
    <2>1. R \in Seq(Request) /\ queue # <<>> /\ queue' = Tail(queue) \o R /\ Len(queue) = L
      BY <1>2, <1>3
    <2>2. /\ Len(queue) \in Nat \ {0} /\ Len(R) \in Nat
          /\ Len(queue') = (Len(queue) - 1) + Len(R)
      BY <2>1, QueueFacts
    <2>3. \A k \in 1 .. (Len(queue) - 1) : queue'[k] = queue[k + 1]
      BY <2>1, QueueFacts
    <2>4. \A k \in 1 .. Len(R) : queue'[(Len(queue) - 1) + k] = R[k]
      BY <2>1, QueueFacts
    <2>5. QED
      BY <2>1, <2>2, <2>3, <2>4
  <1>6. 1 \in Ids /\ objects[1].requested = path
    BY <1>1, <1>2 DEF ClosureInv, ReachInv
  <1>7. head.name \in Names \ {path, interp}
    BY <1>1, <1>2, <1>6 DEF Satisfied, Loaded
  <1>8. FileOf(head.name) = f
    BY <1>7 DEF FileOf
  <1>9. \A m : FileOf(m)' = FileOf(m)
    BY <1>2, InputsStay
  <1>10. ASSUME NEW o \in Ids'
         PROVE  objects'[o].needed = FileOf(objects[o].requested)'.needed
    BY <1>4, <1>8, <1>9 DEF ReachInv, FileOf
  <1>11. ASSUME NEW o \in Ids' \ {1}
         PROVE  /\ objects'[o].requested \in Names \ {path', interp'}
                /\ disk'[objects'[o].requested].kind = "object"
    BY <1>2, <1>4, <1>7 DEF ReachInv
  <1>12. ASSUME NEW T \in SUBSET Names, ClosedUnderNeed(T)'
         PROVE  /\ \A o \in Ids' \ {1} : objects'[o].requested \in T
                /\ \A k \in 1 .. Len(queue') : queue'[k].name \in T \cup {interp'}
    <2>1. ClosedUnderNeed(T)
      BY <1>2, <1>12, InputsStay
    <2>2. head.name \in T
      BY <1>1, <1>7, <2>1 DEF ReachInv
    <2>3. \A o \in Ids' \ {1} : objects'[o].requested \in T
      BY <1>4, <2>1, <2>2 DEF ReachInv
    <2>4. \A k \in 1 .. Len(f.needed) : f.needed[k] \in T \cup {interp}
      BY <1>8, <2>1, <2>2 DEF ClosedUnderNeed
    <2>5. ASSUME NEW k \in 1 .. Len(queue') PROVE queue'[k].name \in T \cup {interp'}
      <3>1. CASE k \in 1 .. (L - 1)
        <4>1. k + 1 \in 1 .. Len(queue) /\ queue'[k] = queue[k + 1]
          BY <1>5, <3>1
        <4>2. QED
          BY <1>2, <2>1, <4>1 DEF ReachInv
      <3>2. CASE k \notin 1 .. (L - 1)
        <4> DEFINE j == k - (L - 1)
        <4>1. j \in 1 .. Len(R) /\ k = (L - 1) + j
          BY <1>5, <3>2
        <4>2. queue'[k] = R[j]
          BY <1>5, <4>1
        <4>3. R[j].name = f.needed[j] /\ j \in 1 .. Len(f.needed)
          BY <1>3, <4>1
        <4>4. QED
          BY <1>2, <2>4, <4>2, <4>3
      <3>3. QED
        BY <3>1, <3>2
    <2>6. QED
      BY <2>3, <2>5
  <1>13. objects'[1].requested = path' /\ FailureIsTrue'
    BY <1>2, <1>4, <1>6 DEF FailureIsTrue
  <1>14. QED
    BY <1>2, <1>10, <1>11, <1>12, <1>13 DEF ReachInv

LEMMA ReachSkip ==
    ASSUME TypeOK, ReachInv, Skip
    PROVE  ReachInv'
  <1>1. /\ queue # <<>> /\ queue' = Tail(queue) /\ [Next]_vars
        /\ UNCHANGED <<disk, program, path, interp, stage, objects, error>>
        /\ stage = "walk"
    BY DEF Skip, inputs, Next
  <1>2. /\ Len(queue) \in Nat \ {0} /\ Len(queue') = Len(queue) - 1
        /\ \A k \in 1 .. (Len(queue) - 1) : queue'[k] = queue[k + 1]
    BY <1>1, TailFacts
  <1>3. Ids' = Ids /\ FailureIsTrue'
    BY <1>1 DEF Ids, FailureIsTrue
  <1>4. ASSUME NEW T \in SUBSET Names, ClosedUnderNeed(T)', NEW k \in 1 .. Len(queue')
        PROVE  queue'[k].name \in T \cup {interp'}
    <2>1. ClosedUnderNeed(T) /\ k + 1 \in 1 .. Len(queue) /\ queue'[k] = queue[k + 1]
      BY <1>1, <1>2, <1>4, InputsStay
    <2>2. QED
      BY <1>1, <2>1 DEF ReachInv
  <1>5. \A T : ClosedUnderNeed(T)' <=> ClosedUnderNeed(T)
    BY <1>1, InputsStay
  <1>6. \A m : FileOf(m)' = FileOf(m)
    BY <1>1, InputsStay
  <1>7. \A o \in Ids' : objects'[o].needed = FileOf(objects[o].requested)'.needed
    BY <1>1, <1>3, <1>6 DEF ReachInv, FileOf
  <1>8. QED
    BY <1>1, <1>3, <1>4, <1>5, <1>7 DEF ReachInv

\* A failure: the walk stops where it stands.
LEMMA ReachFail ==
    ASSUME TypeOK, ClosureInv, ReachInv, ProgramUnreadable \/ NotFound \/ Unreadable
    PROVE  ReachInv'
  <1>1. /\ [Next]_vars /\ UNCHANGED <<disk, program, path, interp, objects, queue>>
        /\ stage' # "done"
    BY DEF Next, ProgramUnreadable, NotFound, Unreadable, Fail, inputs
  <1>2. Ids' = Ids /\ \A o : Listed(o)' = Listed(o)
    BY <1>1 DEF Ids, Listed
  <1>3. \A name : Satisfied(name)' <=> Satisfied(name)
    BY <1>1, <1>2 DEF Satisfied, Loaded
  <1>4. FailureIsTrue'
    <2>1. CASE ProgramUnreadable
      BY <1>1, <2>1 DEF ProgramUnreadable, Fail, FailureIsTrue
    <2>2. CASE NotFound \/ Unreadable
      <3> DEFINE head == Head(queue)
      <3>1. queue # <<>> /\ ~Satisfied(head.name)
        BY <2>2 DEF NotFound, Unreadable
      <3>2. head = queue[1] /\ 1 \in 1 .. Len(queue) /\ head.asker \in Ids
        BY <3>1, HeadFacts
      <3>3. head.name \in Listed(head.asker) /\ head.asker # 0
        BY <3>2 DEF ClosureInv, Ids
      <3>4. /\ error' = [name |-> head.name, asker |-> head.asker]
            /\ \/ stage' = "notFound" /\ disk[head.name].kind = "missing"
               \/ stage' = "unreadable" /\ disk[head.name].kind = "unreadable"
        BY <2>2 DEF NotFound, Unreadable, Fail
      <3> HIDE DEF head
      <3>5. error'.name = head.name /\ error'.asker = head.asker
        BY <3>4
      <3>6. QED
        BY <1>1, <1>2, <1>3, <3>1, <3>3, <3>4, <3>5 DEF FailureIsTrue
    <2>3. QED
      BY <2>1, <2>2
  <1>5. \A T : ClosedUnderNeed(T)' <=> ClosedUnderNeed(T)
    BY <1>1, InputsStay
  <1>6. \A o \in Ids' : objects'[o].needed = FileOf(objects[o].requested)'.needed
    BY <1>1, <1>2 DEF ReachInv, FileOf
  <1>7. QED
    BY <1>1, <1>2, <1>4, <1>5, <1>6 DEF ReachInv

LEMMA ReachStill ==
    ASSUME ClosureInv, ReachInv, Done \/ UNCHANGED vars
    PROVE  ReachInv'
  <1>1. /\ [Next]_vars /\ UNCHANGED <<disk, program, path, interp, objects, queue, error>>
        /\ stage' = stage \/ stage' = "done"
        /\ stage' = "done" => objects # <<>>
    BY DEF Next, Done, inputs, vars, ClosureInv, ReachInv
  <1>2. Ids' = Ids /\ \A o : Listed(o)' = Listed(o)
    BY <1>1 DEF Ids, Listed
  <1>3. \A name : Satisfied(name)' <=> Satisfied(name)
    BY <1>1, <1>2 DEF Satisfied, Loaded
  <1>4. FailureIsTrue'
    BY <1>1, <1>2, <1>3 DEF ReachInv, FailureIsTrue
  <1>5. \A T : ClosedUnderNeed(T)' <=> ClosedUnderNeed(T)
    BY <1>1, InputsStay
  <1>6. \A o \in Ids' : objects'[o].needed = FileOf(objects[o].requested)'.needed
    BY <1>1, <1>2 DEF ReachInv, FileOf
  <1>7. QED
    BY <1>1, <1>2, <1>4, <1>5, <1>6 DEF ReachInv

LEMMA ReachInvariant == Spec => []ReachInv
  <1>1. TypeOK /\ ClosureInv /\ ReachInv /\ [Next]_vars => ReachInv'
    BY ReachProgram, ReachLoad, ReachSkip, ReachFail, ReachStill DEF Next
  <1>2. QED
    BY <1>1, ReachInit, ClosureTypeCorrect, ClosureInvariant, PTL DEF Spec

\* A load that fails (load, elfa-load) names a file that an object loaded needs,
\* that nothing loaded stands for, and that is missing or no ELF file.
THEOREM FailuresAreTrue == Spec => []FailureIsTrue
  <1>1. ReachInv => FailureIsTrue
    BY DEF ReachInv
  <1>2. QED
    BY <1>1, ReachInvariant, PTL

\* What every closed set has in common is closed, too, and so is the least one.
LEMMA ReachableIsLeast ==
    ASSUME TypeOK
    PROVE  /\ Reachable \in SUBSET Names
           /\ ClosedUnderNeed(Reachable)
           /\ \A T \in SUBSET Names : ClosedUnderNeed(T) => Reachable \subseteq T
  <1> DEFINE S == {n \in Names : \A T \in SUBSET Names : ClosedUnderNeed(T) => n \in T}
             Least(U) == ClosedUnderNeed(U)
                            /\ \A T \in SUBSET Names : ClosedUnderNeed(T) => U \subseteq T
  <1>1. \A n \in Names \cup {path} : \A k \in 1 .. Len(FileOf(n).needed) : FileOf(n).needed[k] \in Names
    <2> SUFFICES ASSUME NEW n \in Names \cup {path} PROVE FileOf(n) \in Files \cup Programs
      BY FileFacts
    <2>1. QED
      BY DEF TypeOK, FileOf
  <1>2. ClosedUnderNeed(S)
    <2> SUFFICES ASSUME NEW n \in S \cup {path}, NEW k \in 1 .. Len(FileOf(n).needed),
                        FileOf(n).needed[k] # interp
                 PROVE  FileOf(n).needed[k] \in S
      BY DEF ClosedUnderNeed
    <2>1. FileOf(n).needed[k] \in Names
      BY <1>1
    <2>2. ASSUME NEW T \in SUBSET Names, ClosedUnderNeed(T) PROVE FileOf(n).needed[k] \in T
      <3>1. n \in T \cup {path}
        BY <2>2
      <3>2. QED
        BY <2>2, <3>1 DEF ClosedUnderNeed
    <2>3. QED
      BY <2>1, <2>2
  <1>3. S \in SUBSET Names /\ Least(S)
    BY <1>2
  <1>4. Reachable = CHOOSE U \in SUBSET Names : Least(U)
    BY DEF Reachable
  <1> HIDE DEF S, Least
  <1>5. Reachable \in SUBSET Names /\ Least(Reachable)
    BY <1>3, <1>4
  <1>6. QED
    BY <1>5 DEF Least

\* A load that succeeds has loaded exactly what the program reaches through the
\* needs of its dependencies: nothing is missing, nothing is loaded for nothing.
THEOREM LoadsTheClosure == Spec => []ClosureIsReachable
  <1>1. ASSUME TypeOK, ClosureInv, ReachInv, stage = "done"
        PROVE  /\ {objects[o].requested : o \in Ids} = {path} \cup (Reachable \ {interp})
               /\ \A n \in Reachable \ {path, interp} : disk[n].kind = "object"
    <2> DEFINE Req == {objects[o].requested : o \in Ids}
    <2>1. /\ Reachable \in SUBSET Names /\ ClosedUnderNeed(Reachable)
          /\ \A T \in SUBSET Names : ClosedUnderNeed(T) => Reachable \subseteq T
      BY <1>1, ReachableIsLeast
    <2>2. queue = <<>> /\ objects # <<>>
      BY <1>1 DEF ClosureInv, ReachInv
    <2>3. 1 \in Ids /\ objects[1].requested = path
      BY <1>1, <2>2 DEF TypeOK, Ids, ReachInv
    <2>4. \A o \in Ids \ {1} : objects[o].requested \in Reachable \ {interp}
      BY <1>1, <2>1 DEF ReachInv
    <2>5. ClosedUnderNeed(Req \cap Names)
      <3> SUFFICES ASSUME NEW n \in (Req \cap Names) \cup {path},
                          NEW k \in 1 .. Len(FileOf(n).needed), FileOf(n).needed[k] # interp
                   PROVE  FileOf(n).needed[k] \in Req \cap Names
        BY DEF ClosedUnderNeed
      <3>1. PICK o \in Ids : objects[o].requested = n
        BY <2>3
      <3>2. FileOf(n).needed = objects[o].needed
        BY <1>1, <3>1 DEF ReachInv
      <3>3. FileOf(n).needed[k] \in Listed(o)
        BY <3>2 DEF Listed
      <3>4. Satisfied(FileOf(n).needed[k])
        BY <1>1, <2>2, <3>1, <3>3 DEF ClosureInv, Met, Waiting
      <3>5. FileOf(n).needed[k] \in Req
        BY <3>4 DEF Satisfied, Loaded
      <3>6. FileOf(n).needed[k] \in Names
        <4>1. objects[o] \in Object
          BY <1>1, <3>1 DEF TypeOK, Ids
        <4>2. objects[o].needed \in Seq(Names)
          BY <4>1 DEF Object, Needed
        <4>3. QED
          BY <3>2, <4>2
      <3>7. QED
        BY <3>5, <3>6
    <2>6. Reachable \subseteq Req
      BY <2>1, <2>5
    <2>7. Req = {path} \cup (Reachable \ {interp})
      BY <2>3, <2>4, <2>6
    <2>8. ASSUME NEW n \in Reachable \ {path, interp} PROVE disk[n].kind = "object"
      <3>1. PICK o \in Ids : objects[o].requested = n
        BY <2>6
      <3>2. o # 1
        BY <2>3, <3>1
      <3>3. QED
        BY <1>1, <3>1, <3>2 DEF ReachInv
    <2>9. QED
      BY <2>7, <2>8
  <1>2. TypeOK /\ ClosureInv /\ ReachInv => ClosureIsReachable
    BY <1>1 DEF ClosureIsReachable
  <1>3. QED
    BY <1>2, ClosureTypeCorrect, ClosureInvariant, ReachInvariant, PTL

-----------------------------------------------------------------------------
(* The layout.                                                             *)

FromZero == \A f \in Files \cup Programs : f.lo = 0

\* Each object ends below the next base, and starts above the ones before.
LayoutInv ==
    /\ \A o \in Ids : objects[o].lo = 0 /\ objects[o].base + objects[o].hi <= nextBase
    /\ \A o, p \in Ids : o < p => objects[o].base + objects[o].hi <= objects[p].base

LEMMA LayoutPlace ==
    ASSUME FromZero, TypeOK, LayoutInv, NEW f \in Files \cup Programs,
           NEW r \in Names \cup {Elsewhere}, NEW p \in 0 .. Len(objects), Place(f, r, p)
    PROVE  LayoutInv'
  <1> DEFINE n == Len(objects)
  <1>1. /\ n \in Nat /\ Ids' = Ids \cup {n + 1} /\ Ids = 1 .. n
        /\ \A o \in Ids : objects'[o] = objects[o]
        /\ objects'[n + 1].lo = 0 /\ objects'[n + 1].hi = f.hi
        /\ objects'[n + 1].base = nextBase
        /\ nextBase' = Advance(nextBase, f) /\ nextBase' \in Nat /\ nextBase \in Nat
    BY PlaceFacts DEF FromZero, Ids, TypeOK
  <1>2. nextBase + f.hi <= nextBase' /\ f.hi \in Nat
    BY <1>1, AdvanceFacts, FileFacts DEF FromZero
  <1>3. ASSUME NEW o \in Ids
        PROVE  objects[o].base \in Nat /\ objects[o].hi \in Nat
    <2>1. objects[o] \in Object
      BY DEF TypeOK, Ids
    <2>2. QED
      BY <2>1 DEF Object
  <1>4. ASSUME NEW o \in Ids'
        PROVE  objects'[o].lo = 0 /\ objects'[o].base + objects'[o].hi <= nextBase'
    <2>1. CASE o = n + 1
      BY <1>1, <1>2, <2>1
    <2>2. CASE o \in Ids
      <3>1. objects[o].lo = 0 /\ objects[o].base + objects[o].hi <= nextBase
        BY <2>2 DEF LayoutInv
      <3>2. QED
        BY <1>1, <1>2, <1>3, <2>2, <3>1, SMTT(30)
    <2>3. QED
      BY <1>1, <2>1, <2>2
  <1>5. ASSUME NEW o \in Ids', NEW q \in Ids', o < q
        PROVE  objects'[o].base + objects'[o].hi <= objects'[q].base
    <2>1. o \in Ids
      BY <1>1, <1>5
    <2>2. CASE q = n + 1
      BY <1>1, <2>1, <2>2 DEF LayoutInv
    <2>3. CASE q \in Ids
      BY <1>1, <1>5, <2>1, <2>3 DEF LayoutInv
    <2>4. QED
      BY <1>1, <2>2, <2>3
  <1>6. QED
    BY <1>4, <1>5 DEF LayoutInv

LEMMA LayoutNext == FromZero /\ TypeOK /\ LayoutInv /\ [Next]_vars => LayoutInv'
  <1> SUFFICES ASSUME FromZero, TypeOK, LayoutInv, [Next]_vars PROVE LayoutInv'
    OBVIOUS
  <1>1. CASE UNCHANGED <<objects, nextBase>>
    BY <1>1 DEF LayoutInv, Ids
  <1>2. CASE ReadProgram
    BY <1>2, LayoutPlace DEF ReadProgram, TypeOK
  <1>3. CASE LoadObject
    <2>1. /\ disk[Head(queue).name] \in Files /\ Head(queue).name \in Names
          /\ Head(queue).asker \in 0 .. Len(objects)
      BY <1>3, HeadFacts DEF LoadObject, Ids
    <2>2. QED
      BY <1>3, <2>1, LayoutPlace DEF LoadObject
  <1>4. QED
    BY <1>1, <1>2, <1>3
    DEF Next, vars, Skip, NotFound, Unreadable, ProgramUnreadable, Done, Fail

\* Objects whose images start at address 0, as those of shared objects and
\* position-independent programs do, are never placed over each other.
THEOREM ObjectsKeepApart == FromZero => (Spec => []ObjectsApart)
  <1> SUFFICES ASSUME FromZero PROVE Spec => []ObjectsApart
    OBVIOUS
  <1>1. Init => LayoutInv
    BY DEF Init, LayoutInv, Ids
  <1>2. TypeOK /\ LayoutInv /\ [Next]_vars => LayoutInv'
    BY LayoutNext
  <1>3. TypeOK /\ LayoutInv => ObjectsApart
    <2> SUFFICES ASSUME TypeOK, LayoutInv, NEW o \in Ids, NEW p \in Ids, o < p
                 PROVE  Occupied(o).to <= Occupied(p).from
      BY DEF ObjectsApart
    <2>1. objects[p] \in Object /\ objects[p].lo = 0
      BY DEF TypeOK, Ids, LayoutInv
    <2>2. objects[p].base \in Nat
      BY <2>1 DEF Object
    <2>3. QED
      BY <2>1, <2>2 DEF LayoutInv, Occupied
  <1>4. QED
    BY <1>1, <1>2, <1>3, ClosureTypeCorrect, PTL DEF Spec
=============================================================================
