---------------------------- MODULE LdDebugProofs ----------------------------
(***************************************************************************)
(* The log of one process is read back as it was told.  A story is told    *)
(* call by call and read line by line, so the invariant says where in the  *)
(* story the reader is: between two steps, with nothing pending and all    *)
(* that came before in steps, or in the midst of one, with what its lines  *)
(* said so far pending.  One lemma for each kind of step shows that a line *)
(* takes the reader on within it or behind it.                             *)
(*                                                                         *)
(* What is concluded from the log is true of the story.  Until control     *)
(* goes to the program nobody else tells, so what is read begins with the  *)
(* startup, whatever the program and its children tell later: each step of *)
(* it has a place there, and the places rise as the steps do.  The first   *)
(* and the last of a kind that are read are then the first and the last    *)
(* that were told.                                                         *)
(***************************************************************************)
EXTENDS Verify, FiniteProofs

-----------------------------------------------------------------------------
(* Sequences of sequences, laid end to end.                                *)

\* What is laid of the first i.
Joins(f, q, S) ==
    /\ f \in [0 .. Len(q) -> Seq(S)] /\ f[0] = <<>>
    /\ \A i \in 1 .. Len(q) : f[i] = f[i - 1] \o q[i]

LEMMA JoinsExists ==
    ASSUME NEW S, NEW q \in Seq(Seq(S))
    PROVE  \E f : Joins(f, q, S)
  <1>1. PICK n \in Nat : n = Len(q)
    OBVIOUS
  <1>2. \A i \in 1 .. n : q[i] \in Seq(S)
    BY <1>1
  <1> DEFINE Upto(f, m) == /\ f \in [0 .. n -> Seq(S)] /\ f[0] = <<>>
                           /\ \A i \in 1 .. m : f[i] = f[i - 1] \o q[i]
             bad == {m \in 0 .. n : ~ \E f : Upto(f, m)}
  <1>3. 0 \notin bad
    <2>1. PICK f : f = [i \in 0 .. n |-> <<>>]
      OBVIOUS
    <2>2. f \in [0 .. n -> Seq(S)] /\ f[0] = <<>>
      BY <2>1
    <2>3. Upto(f, 0)
      BY <2>2
    <2>4. QED
      BY <2>3
  <1>4. ASSUME NEW m \in Nat, m + 1 \in 0 .. n, m \notin bad PROVE m + 1 \notin bad
    <2>1. m \in 0 .. n /\ m + 1 \in 1 .. n
      BY <1>4
    <2>2. PICK f : Upto(f, m)
      BY <1>4, <2>1
    <2>3. PICK e \in Seq(S) : e = f[m] \o q[m + 1]
      <3>1. PICK a \in Seq(S), b \in Seq(S) : a = f[m] /\ b = q[m + 1]
        BY <1>2, <2>1, <2>2
      <3>2. a \o b \in Seq(S)
        OBVIOUS
      <3>3. QED
        BY <3>1, <3>2
    <2>4. PICK h : h = [f EXCEPT ![m + 1] = e]
      OBVIOUS
    <2>5. h \in [0 .. n -> Seq(S)] /\ h[m + 1] = e /\ \A i \in 0 .. n : i # m + 1 => h[i] = f[i]
      BY <2>1, <2>2, <2>4
    <2>6. ASSUME NEW i \in 1 .. m + 1 PROVE h[i] = h[i - 1] \o q[i]
      <3>1. CASE i = m + 1
        <4>1. i - 1 = m /\ h[m] = f[m]
          BY <2>1, <2>5, <3>1
        <4>2. QED
          BY <2>3, <2>5, <3>1, <4>1
      <3>2. CASE i # m + 1
        <4>1. i \in 1 .. m /\ i \in 0 .. n /\ i - 1 \in 0 .. n /\ i - 1 # m + 1
          BY <2>1, <3>2
        <4>2. h[i] = f[i] /\ h[i - 1] = f[i - 1]
          BY <2>5, <3>2, <4>1
        <4>3. f[i] = f[i - 1] \o q[i]
          BY <2>2, <4>1
        <4>4. QED
          BY <4>2, <4>3
      <3>3. QED
        BY <3>1, <3>2
    <2>7. h[0] = <<>>
      BY <2>1, <2>2, <2>5
    <2>8. Upto(h, m + 1)
      BY <2>5, <2>6, <2>7
    <2>9. QED
      BY <2>8
  <1>5. bad = {}
    <2> SUFFICES ASSUME bad # {} PROVE FALSE
      OBVIOUS
    <2> HIDE DEF Upto
    <2>1. bad \subseteq 0 .. n
      OBVIOUS
    <2> HIDE DEF bad
    <2>7. bad \in SUBSET Nat
      BY <2>1
    <2>2. PICK m \in bad : \A k \in bad : m <= k
      BY <2>7, LeastOf
    <2>3. m - 1 \in Nat /\ m = (m - 1) + 1
      BY <1>3, <2>1, <2>2, <2>7
    <2>4. PICK k \in Nat : m = k + 1
      BY <2>3
    <2>5. k \notin bad
      BY <2>2, <2>4
    <2>6. k + 1 \in 0 .. n
      BY <2>1, <2>4
    <2>8. QED
      BY <1>4, <2>4, <2>5, <2>6
  <1>6. PICK f : Upto(f, n)
    <2> HIDE DEF Upto
    <2>1. n \in 0 .. n
      OBVIOUS
    <2>2. QED
      BY <1>5, <2>1
  <1>7. QED
    BY <1>1, <1>6 DEF Joins

\* Two such are the same.
EndToEnd(g, q, n) == \A i \in 1 .. n : g[i] = IF i = 1 THEN q[i] ELSE g[i - 1] \o q[i]

LEMMA JoinsOnce ==
    ASSUME NEW S, NEW q, NEW f, NEW n \in Nat, n = Len(q), Joins(f, q, S), NEW g,
           EndToEnd(g, q, n), q \in Seq(Seq(S))
    PROVE  \A i \in 1 .. n : g[i] = f[i]
  <1> DEFINE bad == {i \in 1 .. n : g[i] # f[i]}
  <1>1. bad = {}
    <2> SUFFICES ASSUME bad # {} PROVE FALSE
      OBVIOUS
    <2>1. bad \in SUBSET Nat
      OBVIOUS
    <2>2. PICK m \in bad : \A k \in bad : m <= k
      <3> HIDE DEF bad
      <3>1. QED
        BY <2>1, LeastOf
    <2>3. m \in 1 .. n /\ g[m] # f[m] /\ f[m] = f[m - 1] \o q[m]
      BY DEF Joins
    <2>4. CASE m = 1
      <3>1. f[m] = <<>> \o q[m] /\ q[m] \in Seq(S)
        BY <2>3, <2>4 DEF Joins
      <3>2. f[m] = q[m]
        BY <3>1
      <3>3. QED
        BY <2>3, <2>4, <3>2 DEF EndToEnd
    <2>5. CASE m # 1
      <3>1. m - 1 \in 1 .. n /\ ~(m <= m - 1)
        BY <2>3, <2>5
      <3>2. m - 1 \notin bad
        BY <2>2, <3>1
      <3>3. g[m - 1] = f[m - 1]
        BY <3>1, <3>2
      <3>4. QED
        BY <2>3, <2>5, <3>3 DEF EndToEnd
    <2>6. QED
      BY <2>4, <2>5
  <1>2. QED
    BY <1>1

LEMMA FlattenIs ==
    ASSUME NEW S, NEW q \in Seq(Seq(S)), NEW f, Joins(f, q, S)
    PROVE  FlattenSeq(q) = f[Len(q)]
  <1>1. PICK n \in Nat : n = Len(q)
    OBVIOUS
  <1>2. CASE n = 0
    <2>1. q = <<>>
      <3>1. PICK T : T = Seq(S)
        OBVIOUS
      <3>2. q \in Seq(T) /\ Len(q) = 0
        BY <1>1, <1>2, <3>1
      <3>3. QED
        BY <3>2
    <2>2. FlattenSeq(q) = q
      BY <1>1, <1>2 DEF FlattenSeq
    <2>3. QED
      BY <1>1, <1>2, <2>1, <2>2 DEF Joins
  <1>3. CASE n # 0
    <2> DEFINE next(g) == [i \in 1 .. Len(q) |-> IF i = 1 THEN q[i] ELSE g[i - 1] \o q[i]]
               iter == CHOOSE g : g = next(g)
    <2>1. FlattenSeq(q) = iter[Len(q)]
      <3>1. Len(q) # 0
        BY <1>1, <1>3
      <3>2. QED
        BY <3>1, Zenon DEF FlattenSeq
    <2>2. PICK h : h = [i \in 1 .. n |-> f[i]]
      OBVIOUS
    <2>3. h = next(h)
      <3>1. ASSUME NEW i \in 1 .. n PROVE f[i] = IF i = 1 THEN q[i] ELSE h[i - 1] \o q[i]
        <4>1. f[i] = f[i - 1] \o q[i] /\ q[i] \in Seq(S)
          <5>1. i \in 1 .. Len(q)
            BY <1>1
          <5>2. PICK T : T = Seq(S)
            OBVIOUS
          <5>3. q[i] \in T
            BY <5>1, <5>2
          <5>4. QED
            BY <5>1, <5>2, <5>3 DEF Joins
        <4>2. CASE i = 1
          <5>1. f[i - 1] = <<>>
            BY <4>2 DEF Joins
          <5>2. QED
            BY <4>1, <4>2, <5>1
        <4>3. CASE i # 1
          <5>1. i - 1 \in 1 .. n
            BY <4>3
          <5>2. QED
            BY <2>2, <4>1, <4>3, <5>1
        <4>4. QED
          BY <4>2, <4>3
      <3>2. [i \in 1 .. n |-> f[i]] = [i \in 1 .. n |-> IF i = 1 THEN q[i] ELSE h[i - 1] \o q[i]]
        BY <3>1
      <3>3. QED
        BY <1>1, <2>2, <3>2
    <2>4. iter = next(iter)
      <3> HIDE DEF next
      <3>1. QED
        BY <2>3
    <2>5. PICK g : g = iter
      OBVIOUS
    <2>6. g = next(g)
      BY <2>4, <2>5, ZenonT(60)
    <2> HIDE DEF iter
    <2>7. EndToEnd(g, q, n)
      BY <1>1, <2>6 DEF EndToEnd
    <2> HIDE DEF next
    <2>8. \A i \in 1 .. n : g[i] = f[i]
      BY <1>1, <2>7, JoinsOnce
    <2>9. n \in 1 .. n
      BY <1>3
    <2>10. QED
      BY <1>1, <2>1, <2>5, <2>8, <2>9
  <1>4. QED
    BY <1>2, <1>3

\* The first k of them.
LEMMA FlattenPrefix ==
    ASSUME NEW S, NEW q \in Seq(Seq(S)), NEW f, Joins(f, q, S), NEW k \in 0 .. Len(q)
    PROVE  FlattenSeq(SubSeq(q, 1, k)) = f[k]
  <1>1. PICK p : p = SubSeq(q, 1, k)
    OBVIOUS
  <1>2. p \in Seq(Seq(S)) /\ Len(p) = k /\ \A i \in 1 .. k : p[i] = q[i]
    BY <1>1
  <1>3. PICK g : g = [i \in 0 .. k |-> f[i]]
    OBVIOUS
  <1>4. Joins(g, p, S)
    <2>1. f \in [0 .. Len(q) -> Seq(S)] /\ f[0] = <<>> /\ \A i \in 1 .. Len(q) : f[i] = f[i - 1] \o q[i]
      BY DEF Joins
    <2>2. g \in [0 .. k -> Seq(S)] /\ g[0] = <<>>
      <3>1. PICK T : T = Seq(S)
        OBVIOUS
      <3>2. \A i \in 0 .. k : f[i] \in T
        BY <2>1, <3>1, SMTT(30)
      <3>3. g \in [0 .. k -> T] /\ 0 \in 0 .. k
        BY <1>3, <3>2
      <3>4. QED
        BY <1>3, <2>1, <3>1, <3>3
    <2>3. ASSUME NEW i \in 1 .. k PROVE g[i] = g[i - 1] \o p[i]
      <3>1. i \in 1 .. Len(q) /\ i \in 0 .. k /\ i - 1 \in 0 .. k
        OBVIOUS
      <3>2. QED
        BY <1>2, <1>3, <2>1, <3>1
    <2>4. QED
      BY <1>2, <2>2, <2>3 DEF Joins
  <1>5. FlattenSeq(p) = g[k]
    BY <1>2, <1>4, FlattenIs
  <1>6. QED
    BY <1>1, <1>3, <1>5

\* What the first k make, laid end to end.
FirstFlat(q, k) == FlattenSeq(SubSeq(q, 1, k))

LEMMA FirstFlatFacts ==
    ASSUME NEW S, NEW q \in Seq(Seq(S))
    PROVE  /\ FirstFlat(q, 0) = <<>> /\ FirstFlat(q, Len(q)) = FlattenSeq(q)
           /\ \A k \in 0 .. Len(q) : FirstFlat(q, k) \in Seq(S)
           /\ \A k \in 0 .. Len(q) - 1 : FirstFlat(q, k + 1) = FirstFlat(q, k) \o q[k + 1]
  <1>1. PICK f : Joins(f, q, S)
    BY JoinsExists
  <1>2. \A k \in 0 .. Len(q) : FirstFlat(q, k) = f[k]
    BY <1>1, FlattenPrefix DEF FirstFlat
  <1>3. PICK n \in Nat : n = Len(q)
    OBVIOUS
  <1>4. 0 \in 0 .. n /\ n \in 0 .. n
    OBVIOUS
  <1>5. FirstFlat(q, 0) = <<>> /\ FirstFlat(q, n) = FlattenSeq(q)
    BY <1>1, <1>2, <1>3, <1>4, FlattenIs DEF Joins
  <1>6. \A k \in 0 .. n : FirstFlat(q, k) \in Seq(S)
    BY <1>1, <1>2, <1>3 DEF Joins
  <1>7. ASSUME NEW k \in 0 .. n - 1
        PROVE  FirstFlat(q, k + 1) = FirstFlat(q, k) \o q[k + 1]
    <2>1. k \in 0 .. n /\ k + 1 \in 0 .. n /\ k + 1 \in 1 .. n /\ (k + 1) - 1 = k
      BY <1>7, <1>3
    <2>2. f[k + 1] = f[(k + 1) - 1] \o q[k + 1]
      BY <1>1, <1>3, <2>1 DEF Joins
    <2>3. QED
      BY <1>2, <1>3, <2>1, <2>2
  <1>8. QED
    BY <1>3, <1>5, <1>6, <1>7

\* Where the elements of one of them are in the whole.
LEMMA FlatAt ==
    ASSUME NEW S, NEW q \in Seq(Seq(S)), NEW k \in 0 .. Len(q) - 1, NEW j \in 1 .. Len(q[k + 1])
    PROVE  /\ Len(FirstFlat(q, k)) + j <= Len(FlattenSeq(q))
           /\ FlattenSeq(q)[Len(FirstFlat(q, k)) + j] = q[k + 1][j]
  <1>1. PICK n \in Nat : n = Len(q)
    OBVIOUS
  <1>2. PICK one \in Seq(S) : one = q[k + 1]
    <2>1. k + 1 \in 1 .. Len(q)
      OBVIOUS
    <2>2. QED
      BY <2>1
  <1>3. PICK f : f = [i \in 0 .. n |-> FirstFlat(q, i)]
    OBVIOUS
  <1>4. /\ \A i \in 0 .. n : f[i] \in Seq(S)
        /\ \A i \in 0 .. n - 1 : f[i + 1] = f[i] \o q[i + 1]
        /\ f[n] = FlattenSeq(q) /\ f[k] = FirstFlat(q, k)
    <2>1. ASSUME NEW i \in 0 .. n - 1 PROVE f[i + 1] = f[i] \o q[i + 1]
      <3>1. i \in 0 .. n /\ i + 1 \in 0 .. n
        BY <2>1
      <3>2. QED
        BY <1>1, <1>3, <3>1, FirstFlatFacts
    <2>2. ASSUME NEW i \in 0 .. n PROVE f[i] \in Seq(S)
      BY <1>1, <1>3, FirstFlatFacts
    <2>3. n \in 0 .. n /\ k \in 0 .. n
      BY <1>1
    <2>4. f[n] = FlattenSeq(q) /\ f[k] = FirstFlat(q, k)
      BY <1>1, <1>3, <2>3, FirstFlatFacts
    <2>5. QED
      BY <2>1, <2>2, <2>4
  <1>5. PICK m \in Nat, l \in Nat : m = Len(f[k]) /\ l = Len(one)
    BY <1>1, <1>2, <1>4
  <1>6. j \in 1 .. l
    BY <1>2, <1>5
  <1> DEFINE There(i) == m + l <= Len(f[i]) /\ f[i][m + j] = one[j]
             bad == {i \in k + 1 .. n : ~There(i)}
  <1>7. There(k + 1)
    <2>1. f[k] \in Seq(S) /\ f[k + 1] = f[k] \o one
      <3>1. k \in 0 .. n /\ k \in 0 .. n - 1
        BY <1>1
      <3>2. QED
        BY <1>2, <1>4, <3>1
    <2>2. PICK a \in Seq(S) : a = f[k]
      BY <2>1
    <2>3. PICK b : b = a \o one
      OBVIOUS
    <2>4. m = Len(a) /\ l = Len(one)
      BY <1>5, <2>2
    <2> HIDE DEF There, bad
    <2>5. Len(b) = m + l /\ \A i \in 1 .. l : b[m + i] = one[i]
      BY <2>3, <2>4, ConcatFacts
    <2>6. f[k + 1] = b
      BY <2>1, <2>2, <2>3, Zenon
    <2>7. m + l <= Len(f[k + 1]) /\ f[k + 1][m + j] = one[j]
      <3>1. m + l <= Len(b) /\ b[m + j] = one[j]
        <4>1. j \in Nat /\ b[m + j] = one[j]
          BY <1>6, <2>5
        <4>2. m + l <= Len(b)
          <5>1. \A x : x = m + l => m + l <= x
            OBVIOUS
          <5>2. QED
            BY <2>5, <5>1
        <4>3. QED
          BY <4>1, <4>2
      <3>2. QED
        BY <2>6, <3>1, Zenon
    <2>8. QED
      BY <2>7 DEF There
  <1>8. ASSUME NEW i \in k + 1 .. n - 1, There(i) PROVE There(i + 1)
    <2>1. PICK a \in Seq(S), b \in Seq(S) : a = f[i] /\ b = q[i + 1] /\ f[i + 1] = a \o b
      <3>1. i \in 0 .. n /\ i \in 0 .. n - 1 /\ i + 1 \in 1 .. n
        BY <1>1, <1>8
      <3>2. q[i + 1] \in Seq(S)
        BY <1>1, <3>1
      <3>3. QED
        BY <1>4, <3>1, <3>2
    <2>2. PICK x \in Nat, y \in Nat : x = Len(a) /\ y = Len(b)
      OBVIOUS
    <2>3. m + j \in 1 .. x /\ m + l <= x
      BY <1>6, <1>8, <2>1, <2>2, SMTT(30)
    <2>4. Len(a \o b) = x + y /\ (a \o b)[m + j] = a[m + j]
      BY <2>2, <2>3, ConcatFacts
    <2>5. m + l <= Len(f[i + 1])
      <3>1. Len(f[i + 1]) = x + y
        BY <2>1, <2>4
      <3>2. QED
        BY <2>2, <2>3, <3>1
    <2>6. f[i + 1][m + j] = one[j]
      BY <1>8, <2>1, <2>4
    <2>7. QED
      BY <2>5, <2>6
  <1>9. bad = {}
    <2> SUFFICES ASSUME bad # {} PROVE FALSE
      OBVIOUS
    <2>1. bad \in SUBSET Nat /\ \A i \in bad : i \in k + 1 .. n /\ ~There(i)
      BY <1>1
    <2>2. \A i \in k + 1 .. n : i \notin bad => There(i)
      OBVIOUS
    <2> HIDE DEF bad, There
    <2>3. PICK i \in bad : \A x \in bad : i <= x
      BY <2>1, LeastOf
    <2>4. i # k + 1 /\ i \in k + 1 .. n
      BY <1>7, <2>1
    <2>5. PICK p : p = i - 1 /\ p \in k + 1 .. n - 1 /\ p \in k + 1 .. n /\ i = p + 1 /\ ~(i <= p)
      <3>1. i - 1 \in k + 1 .. n - 1 /\ i - 1 \in k + 1 .. n /\ i = (i - 1) + 1 /\ ~(i <= i - 1)
        BY <1>1, <2>4
      <3>2. QED
        BY <3>1
    <2>6. There(p)
      BY <2>2, <2>3, <2>5
    <2>7. There(p + 1)
      BY <1>8, <2>5, <2>6
    <2>8. QED
      BY <2>1, <2>5, <2>7
  <1>10. There(n)
    <2>1. n \in k + 1 .. n
      BY <1>1
    <2>2. QED
      BY <1>9, <2>1
  <1>11. QED
    BY <1>2, <1>4, <1>5, <1>6, <1>10

-----------------------------------------------------------------------------
(* The story that is told.                                                 *)

Called == [k \in DOMAIN Story |-> Calls(Story[k])]
Reported == [k \in DOMAIN Story |-> Kept(Story[k])]

\* The calls, and the steps to be read, of the first k steps.
ToldUpTo(k) == Len(FirstFlat(Called, k))
ReadUpTo(k) == FirstFlat(Reported, k)

LEMMA ListOfAny ==
    ASSUME NEW X, NEW s \in Seq(X)
    PROVE  IsList(s)
  <1>1. PICK n \in Nat : n = Len(s)
    OBVIOUS
  <1>2. PICK E : E = Elements(s)
    OBVIOUS
  <1>3. s = [k \in 1 .. n |-> s[k]] /\ DOMAIN s = 1 .. n
    BY <1>1
  <1>4. \A k \in 1 .. n : s[k] \in E
    BY <1>2, <1>3 DEF Elements
  <1>5. s \in [1 .. n -> E]
    BY <1>3, <1>4
  <1>6. s \in Seq(E)
    BY <1>5
  <1>7. QED
    BY <1>2, <1>6 DEF IsList

LEMMA StoryFacts ==
    ASSUME load \in Loads
    PROVE  IsList(Story) /\ \A k \in DOMAIN Story : IsStep(Story[k])
  BY LoadsAssumption DEF Story

\* Every step is told in calls.
LEMMA CallsOf ==
    ASSUME NEW s
    PROVE  /\ s.kind = "Needed" => Calls(s) = <<<<Blank, Line("needed", <<s.file, s.by>>)>>>>
           /\ s.kind = "LinkMap" =>
                 Calls(s) = <<<<Line("generating", s.file)>>,
                              <<Line("base", s.base), Line("entry", s.entry), Blank, Blank>>>>
           /\ s.kind = "Scope" =>
                 Calls(s) = <<<<Line("object", s.object)>>, <<Line("scope", s.order)>>, <<Blank>>>>
           /\ s.kind \in Plain => Calls(s) = <<<<Blank, Line("plain", s), Blank>>>>
           /\ s.kind = "Bind" => Calls(s) = <<<<Line("other", <<>>)>>, <<Line("plain", s)>>>>
           /\ s.kind = "Other" => Calls(s) = <<<<Line("other", <<>>), Blank>>>>
  <1>1. s.kind = "Needed" => Calls(s) = <<<<Blank, Line("needed", <<s.file, s.by>>)>>>>
    BY DEF Calls, Plain
  <1>2. s.kind = "LinkMap" =>
            Calls(s) = <<<<Line("generating", s.file)>>,
                         <<Line("base", s.base), Line("entry", s.entry), Blank, Blank>>>>
    BY DEF Calls, Plain
  <1>3. s.kind = "Scope" =>
            Calls(s) = <<<<Line("object", s.object)>>, <<Line("scope", s.order)>>, <<Blank>>>>
    BY DEF Calls, Plain
  <1>4. s.kind \in Plain => Calls(s) = <<<<Blank, Line("plain", s), Blank>>>>
    BY DEF Calls, Plain
  <1>5. s.kind = "Bind" => Calls(s) = <<<<Line("other", <<>>)>>, <<Line("plain", s)>>>>
    BY DEF Calls, Plain
  <1>6. s.kind = "Other" => Calls(s) = <<<<Line("other", <<>>), Blank>>>>
    BY DEF Calls, Plain
  <1>7. QED
    BY <1>1, <1>2, <1>3, <1>4, <1>5, <1>6

\* A search takes as many calls as paths are tried, and two.
LEMMA SearchCalls ==
    ASSUME NEW s, s.kind = "Search", IsList(s.tried)
    PROVE  /\ Len(s.tried) \in Nat /\ Len(Calls(s)) = Len(s.tried) + 2 /\ IsList(Calls(s))
           /\ Calls(s)[1] = <<Line("find", s.library)>>
           /\ \A k \in 1 .. Len(s.tried) : Calls(s)[k + 1] = <<Line("tried", s.tried[k])>>
           /\ Calls(s)[Len(s.tried) + 2] = <<Blank>>
  <1>1. PICK tried, X : tried = s.tried /\ tried \in Seq(X)
    BY DEF IsList
  <1>2. PICK n \in Nat : n = Len(tried) /\ DOMAIN tried = 1 .. n
    BY <1>1
  <1>3. PICK a : a = [k \in DOMAIN tried |-> <<Line("tried", tried[k])>>]
    OBVIOUS
  <1>4. PICK find, blank : find = <<Line("find", s.library)>> /\ blank = <<Blank>>
    OBVIOUS
  <1>5. PICK Y : Y = {<<Line("tried", tried[k])>> : k \in DOMAIN tried} \cup {find, blank}
    OBVIOUS
  <1>6. a \in Seq(Y) /\ Len(a) = n /\ \A k \in 1 .. n : a[k] = <<Line("tried", tried[k])>>
    <2>1. a \in [1 .. n -> Y]
      BY <1>2, <1>3, <1>5
    <2>2. QED
      BY <1>2, <1>3, <2>1
  <1>20. PICK f, g : f = <<find>> /\ g = <<blank>>
    OBVIOUS
  <1>7. f = <<find>> /\ g = <<blank>> /\ f \in Seq(Y) /\ g \in Seq(Y) /\ Len(f) = 1 /\ Len(g) = 1
    BY <1>5, <1>20
  <1>8. Calls(s) = (f \o a) \o g
    <2>1. Calls(s) = (<<<<Line("find", s.library)>>>>
                        \o [k \in DOMAIN s.tried |-> <<Line("tried", s.tried[k])>>]) \o <<<<Blank>>>>
      BY DEF Calls, Plain
    <2>2. QED
      BY <1>1, <1>3, <1>4, <1>7, <2>1, Zenon
  <1>9. PICK h : h = f \o a
    OBVIOUS
  <1>10. h \in Seq(Y) /\ Len(h) = n + 1 /\ h[1] = find
         /\ \A k \in 1 .. n : h[k + 1] = <<Line("tried", tried[k])>>
    <2>1. h \in Seq(Y) /\ Len(h) = n + 1
      BY <1>6, <1>7, <1>9
    <2>2. h[1] = find
      BY <1>6, <1>7, <1>9
    <2>3. ASSUME NEW k \in 1 .. n PROVE h[k + 1] = <<Line("tried", tried[k])>>
      <3>1. (f \o a)[1 + k] = a[k]
        BY <1>2, <1>6, <1>7, ConcatFacts
      <3>2. 1 + k = k + 1
        OBVIOUS
      <3>3. QED
        BY <1>6, <1>9, <3>1, <3>2
    <2>4. QED
      BY <2>1, <2>2, <2>3
  <1>11. PICK c : c = h \o g
    OBVIOUS
  <1>12. c \in Seq(Y) /\ Len(c) = n + 2 /\ c[n + 2] = blank
         /\ \A k \in 1 .. n + 1 : c[k] = h[k]
    <2>1. c \in Seq(Y) /\ Len(c) = n + 2
      BY <1>7, <1>10, <1>11
    <2>2. c[n + 2] = blank
      BY <1>7, <1>10, <1>11
    <2>3. \A k \in 1 .. n + 1 : c[k] = h[k]
      BY <1>7, <1>10, <1>11
    <2>4. QED
      BY <2>1, <2>2, <2>3
  <1>13. Calls(s) = c
    BY <1>8, <1>9, <1>11
  <1>14. IsList(c)
    BY <1>12, ListOfAny
  <1>15. c[1] = find /\ \A k \in 1 .. n : c[k + 1] = <<Line("tried", tried[k])>>
    <2>1. 1 \in 1 .. n + 1 /\ \A k \in 1 .. n : k + 1 \in 1 .. n + 1
      OBVIOUS
    <2>2. QED
      BY <1>10, <1>12, <2>1
  <1>16. QED
    BY <1>1, <1>2, <1>4, <1>12, <1>13, <1>14, <1>15

LEMMA ShortLists ==
    ASSUME NEW a, NEW b, NEW c
    PROVE  /\ IsList(<<a>>) /\ Len(<<a>>) = 1
           /\ IsList(<<a, b>>) /\ Len(<<a, b>>) = 2
           /\ IsList(<<a, b, c>>) /\ Len(<<a, b, c>>) = 3
  <1>1. PICK X : X = {a, b, c}
    OBVIOUS
  <1>2. PICK p, q, r : p = <<a>> /\ q = <<a, b>> /\ r = <<a, b, c>>
    OBVIOUS
  <1>3. p \in Seq(X) /\ Len(p) = 1 /\ q \in Seq(X) /\ Len(q) = 2 /\ r \in Seq(X) /\ Len(r) = 3
    BY <1>1, <1>2
  <1>4. IsList(p) /\ IsList(q) /\ IsList(r)
    BY <1>3, ListOfAny
  <1>5. QED
    BY <1>2, <1>3, <1>4

LEMMA CallsAreLists ==
    ASSUME NEW s, IsStep(s)
    PROVE  IsList(Calls(s)) /\ Len(Calls(s)) \in Nat \ {0}
  <1>1. CASE s.kind = "Search"
    BY <1>1, SearchCalls DEF IsStep, Plain
  <1>2. CASE \E a : Calls(s) = <<a>>
    <2>1. PICK a : Calls(s) = <<a>>
      BY <1>2
    <2>2. IsList(<<a>>) /\ Len(<<a>>) = 1
      BY ShortLists
    <2>3. IsList(Calls(s)) /\ Len(Calls(s)) = 1
      BY <2>1, <2>2, Zenon
    <2>4. QED
      BY <2>3
  <1>3. CASE \E a, b : Calls(s) = <<a, b>>
    <2>1. PICK a, b : Calls(s) = <<a, b>>
      BY <1>3
    <2>2. IsList(<<a, b>>) /\ Len(<<a, b>>) = 2
      BY ShortLists
    <2>3. IsList(Calls(s)) /\ Len(Calls(s)) = 2
      BY <2>1, <2>2, Zenon
    <2>4. QED
      BY <2>3
  <1>4. CASE \E a, b, c : Calls(s) = <<a, b, c>>
    <2>1. PICK a, b, c : Calls(s) = <<a, b, c>>
      BY <1>4
    <2>2. IsList(<<a, b, c>>) /\ Len(<<a, b, c>>) = 3
      BY ShortLists
    <2>3. IsList(Calls(s)) /\ Len(Calls(s)) = 3
      BY <2>1, <2>2, Zenon
    <2>4. QED
      BY <2>3
  <1>5. QED
    BY <1>1, <1>2, <1>3, <1>4, CallsOf, ZenonT(60) DEF IsStep

LEMMA KeptIsList ==
    ASSUME NEW X, NEW s \in X
    PROVE  Kept(s) \in Seq(X)
  BY DEF Kept

\* The whole script, step by step.
ScriptIs(n) ==
    /\ ToldUpTo(0) = 0 /\ ReadUpTo(0) = <<>>
    /\ Len(Script[Target]) = ToldUpTo(n) /\ FlattenSeq(Reported) = ReadUpTo(n)
    /\ \A k \in 0 .. n : ToldUpTo(k) \in Nat /\ ReadUpTo(k) \in Seq(Elements(Story))

\* What its step k + 1 adds to it.
StepIs(k, s, len) ==
    /\ ToldUpTo(k + 1) = ToldUpTo(k) + len /\ ReadUpTo(k + 1) = ReadUpTo(k) \o Kept(s)
    /\ ToldUpTo(k + 1) <= Len(Script[Target])
    /\ \A j \in 1 .. len : Script[Target][ToldUpTo(k) + j] = Calls(s)[j]

LEMMA ScriptFacts ==
    ASSUME load \in Loads, NEW n, n = Len(Story)
    PROVE  /\ n \in Nat /\ ScriptIs(n)
           /\ \A k \in 0 .. n - 1 : StepIs(k, Story[k + 1], Len(Calls(Story[k + 1])))
  <1>1. n \in Nat /\ DOMAIN Story = 1 .. n
    BY StoryFacts DEF IsList
  <1>2. PICK E : E = Elements(Story)
    OBVIOUS
  <1>3. \A k \in 1 .. n : Story[k] \in E
    BY <1>1, <1>2 DEF Elements
  <1>4. PICK X : X = UNION {Elements(Calls(Story[k])) : k \in 1 .. n}
    OBVIOUS
  <1>5. ASSUME NEW k \in 1 .. n PROVE Calls(Story[k]) \in Seq(X)
    <2>1. PICK s, c : s = Story[k] /\ c = Calls(s)
      OBVIOUS
    <2>2. IsStep(s)
      BY <1>1, <2>1, StoryFacts
    <2>3. c \in Seq(Elements(c))
      BY <2>1, <2>2, CallsAreLists DEF IsList
    <2>4. Elements(c) \subseteq X
      BY <1>4, <2>1
    <2>5. c \in Seq(X)
      BY <2>3, <2>4, SeqOfMore
    <2>6. QED
      BY <2>1, <2>5
  <1>6. PICK q, r : q = Called /\ r = Reported
    OBVIOUS
  <1>7. q \in Seq(Seq(X)) /\ Len(q) = n /\ \A k \in 1 .. n : q[k] = Calls(Story[k])
    <2>1. PICK T : T = Seq(X)
      OBVIOUS
    <2>2. q = [k \in 1 .. n |-> Calls(Story[k])]
      BY <1>1, <1>6 DEF Called
    <2>3. q \in [1 .. n -> T]
      BY <1>5, <2>1, <2>2
    <2>4. q \in Seq(T) /\ Len(q) = n
      BY <1>1, <2>2, <2>3
    <2>5. QED
      BY <2>1, <2>2, <2>4
  <1>8. r \in Seq(Seq(E)) /\ Len(r) = n /\ \A k \in 1 .. n : r[k] = Kept(Story[k])
    <2>1. PICK T : T = Seq(E)
      OBVIOUS
    <2>2. r = [k \in 1 .. n |-> Kept(Story[k])]
      BY <1>1, <1>6 DEF Reported
    <2>3. \A k \in 1 .. n : Kept(Story[k]) \in T
      BY <1>3, <2>1, KeptIsList
    <2>4. r \in [1 .. n -> T]
      BY <2>2, <2>3
    <2>5. r \in Seq(T) /\ Len(r) = n
      BY <1>1, <2>2, <2>4
    <2>6. QED
      BY <2>1, <2>2, <2>5
  <1>9. Script[Target] = FlattenSeq(q)
    BY <1>6, LoadsAssumption DEF Script, Called, Story
  <1>10. /\ FirstFlat(q, 0) = <<>> /\ FirstFlat(q, n) = FlattenSeq(q)
         /\ \A k \in 0 .. n : FirstFlat(q, k) \in Seq(X)
         /\ \A k \in 0 .. n - 1 : FirstFlat(q, k + 1) = FirstFlat(q, k) \o q[k + 1]
    BY <1>7, FirstFlatFacts
  <1>11. /\ FirstFlat(r, 0) = <<>> /\ FirstFlat(r, n) = FlattenSeq(r)
         /\ \A k \in 0 .. n : FirstFlat(r, k) \in Seq(E)
         /\ \A k \in 0 .. n - 1 : FirstFlat(r, k + 1) = FirstFlat(r, k) \o r[k + 1]
    BY <1>8, FirstFlatFacts
  <1>12. \A k \in 0 .. n : ToldUpTo(k) = Len(FirstFlat(q, k)) /\ ReadUpTo(k) = FirstFlat(r, k)
    BY <1>6 DEF ToldUpTo, ReadUpTo
  <1>13. ScriptIs(n)
    <2>1. 0 \in 0 .. n /\ n \in 0 .. n
      BY <1>1
    <2>2. ToldUpTo(0) = 0 /\ ReadUpTo(0) = <<>>
      BY <1>10, <1>11, <1>12, <2>1
    <2>3. Len(Script[Target]) = ToldUpTo(n) /\ FlattenSeq(Reported) = ReadUpTo(n)
      BY <1>6, <1>9, <1>10, <1>11, <1>12, <2>1
    <2>4. ASSUME NEW k \in 0 .. n PROVE ToldUpTo(k) \in Nat /\ ReadUpTo(k) \in Seq(Elements(Story))
      <3>1. PICK f : f = FirstFlat(q, k) /\ f \in Seq(X)
        BY <1>10
      <3>2. Len(f) \in Nat
        BY <3>1
      <3>3. QED
        BY <1>2, <1>11, <1>12, <3>1, <3>2
    <2>5. QED
      BY <2>2, <2>3, <2>4 DEF ScriptIs
  <1>14. ASSUME NEW k \in 0 .. n - 1
         PROVE  StepIs(k, Story[k + 1], Len(Calls(Story[k + 1])))
    <2>1. k \in 0 .. n /\ k + 1 \in 0 .. n /\ k + 1 \in 1 .. n
      BY <1>1
    <2>2. PICK s, c : s = Story[k + 1] /\ c = Calls(s)
      OBVIOUS
    <2>3. c \in Seq(X) /\ q[k + 1] = c /\ r[k + 1] = Kept(s)
      BY <1>5, <1>7, <1>8, <2>1, <2>2
    <2>4. PICK f, g : f = FirstFlat(q, k) /\ g = FirstFlat(q, k + 1) /\ f \in Seq(X) /\ g = f \o c
      BY <1>10, <2>1, <2>3
    <2>5. Len(g) = Len(f) + Len(c)
      BY <2>3, <2>4
    <2>6. ToldUpTo(k + 1) = ToldUpTo(k) + Len(c)
      BY <1>12, <2>1, <2>4, <2>5
    <2>7. ReadUpTo(k + 1) = ReadUpTo(k) \o Kept(s)
      BY <1>11, <1>12, <2>1, <2>3
    <2>8. ASSUME NEW j \in 1 .. Len(c)
          PROVE  /\ Script[Target][ToldUpTo(k) + j] = c[j]
                 /\ ToldUpTo(k) + j <= Len(Script[Target])
      <3>1. PICK d : d = q[k + 1]
        OBVIOUS
      <3>2. k \in 0 .. Len(q) - 1 /\ j \in 1 .. Len(q[k + 1])
        BY <1>7, <2>3, <2>8
      <3>3. /\ Len(FirstFlat(q, k)) + j <= Len(FlattenSeq(q))
            /\ FlattenSeq(q)[Len(FirstFlat(q, k)) + j] = q[k + 1][j]
        BY <1>7, <3>2, FlatAt
      <3>4. QED
        BY <1>9, <1>12, <2>1, <2>3, <3>3
    <2>9. ToldUpTo(k + 1) <= Len(Script[Target])
      <3>1. Len(c) \in Nat \ {0}
        BY <1>1, <2>1, <2>2, StoryFacts, CallsAreLists
      <3>2. Len(c) \in 1 .. Len(c)
        BY <3>1
      <3>3. QED
        BY <2>6, <2>8, <3>2
    <2>10. QED
      BY <2>2, <2>6, <2>7, <2>8, <2>9 DEF StepIs
  <1>15. QED
    BY <1>1, <1>13, <1>14

-----------------------------------------------------------------------------
(* The reader, in the midst of a step.                                     *)

Idle == pendingSearch = <<>> /\ pendingScope = <<>> /\ pendingMap = <<>>
Finished(base) == text = <<>> /\ Idle /\ steps = base

\* j calls of step s are told, and the last of them is being read, or is read but
\* is not the last one of the step; base is what was read before the step.
InNeeded(s, base, j) ==
    /\ s.kind = "Needed" /\ j = 1 /\ Idle /\ steps = base
    /\ \/ text = <<Blank, Line("needed", <<s.file, s.by>>)>>
       \/ text = <<Line("needed", <<s.file, s.by>>)>>

Tried(s, i) ==
    /\ pendingSearch = <<[library |-> s.library, tried |-> SubSeq(s.tried, 1, i)]>>
    /\ pendingScope = <<>> /\ pendingMap = <<>>
InSearch(s, base, j) ==
    /\ s.kind = "Search" /\ steps = base
    /\ \/ j = 1 /\ Idle /\ text = <<Line("find", s.library)>>
       \/ \E i \in 0 .. Len(s.tried) : j = i + 1 /\ Tried(s, i) /\ text = <<>>
       \/ \E i \in 0 .. Len(s.tried) - 1 :
             j = i + 2 /\ Tried(s, i) /\ text = <<Line("tried", s.tried[i + 1])>>
       \/ j = Len(s.tried) + 2 /\ Tried(s, Len(s.tried)) /\ text = <<Blank>>

Generated(s) == pendingSearch = <<>> /\ pendingScope = <<>> /\ pendingMap = <<s.file>>
Unfinished(s) == [kind |-> "LinkMap", file |-> s.file, base |-> s.base, entry |-> 0]
InLinkMap(s, base, j) ==
    /\ s.kind = "LinkMap"
    /\ \/ j = 1 /\ Idle /\ steps = base /\ text = <<Line("generating", s.file)>>
       \/ j = 1 /\ Generated(s) /\ steps = base /\ text = <<>>
       \/ /\ j = 2 /\ Generated(s) /\ steps = base
          /\ text = <<Line("base", s.base), Line("entry", s.entry), Blank, Blank>>
       \/ /\ j = 2 /\ Generated(s) /\ steps = base \o <<Unfinished(s)>>
          /\ text = <<Line("entry", s.entry), Blank, Blank>>
       \/ /\ j = 2 /\ Idle /\ steps = base \o <<s>>
          /\ text = <<Blank, Blank>> \/ text = <<Blank>>

Scoped(s, order) ==
    /\ pendingScope = <<[object |-> s.object, order |-> order]>>
    /\ pendingSearch = <<>> /\ pendingMap = <<>>
InScope(s, base, j) ==
    /\ s.kind = "Scope" /\ steps = base
    /\ \/ j = 1 /\ Idle /\ text = <<Line("object", s.object)>>
       \/ j = 1 /\ Scoped(s, <<>>) /\ text = <<>>
       \/ j = 2 /\ Scoped(s, <<>>) /\ text = <<Line("scope", s.order)>>
       \/ j = 2 /\ Scoped(s, s.order) /\ text = <<>>
       \/ j = 3 /\ Scoped(s, s.order) /\ text = <<Blank>>

InPlain(s, base, j) ==
    /\ s.kind \in Plain /\ j = 1 /\ Idle
    /\ \/ steps = base /\ text = <<Blank, Line("plain", s), Blank>>
       \/ steps = base /\ text = <<Line("plain", s), Blank>>
       \/ steps = base \o <<s>> /\ text = <<Blank>>

InBind(s, base, j) ==
    /\ s.kind = "Bind" /\ Idle /\ steps = base
    /\ \/ j = 1 /\ text = <<Line("other", <<>>)>>
       \/ j = 1 /\ text = <<>>
       \/ j = 2 /\ text = <<Line("plain", s)>>

InOther(s, base, j) ==
    /\ s.kind = "Other" /\ j = 1 /\ Idle /\ steps = base
    /\ text = <<Line("other", <<>>), Blank>> \/ text = <<Blank>>

Within(s, base, j) ==
    \/ InNeeded(s, base, j) \/ InSearch(s, base, j) \/ InLinkMap(s, base, j)
    \/ InScope(s, base, j) \/ InPlain(s, base, j) \/ InBind(s, base, j) \/ InOther(s, base, j)

ReadLine ==
    \/ ReadBlank \/ ReadFind \/ ReadTried \/ ReadNeeded \/ ReadGenerating \/ ReadBase \/ ReadEntry
    \/ ReadObject \/ ReadScope \/ ReadPlain \/ ReadOther

\* The line says what is done with it.
LEMMA LineDecides ==
    ASSUME ReadLine
    PROVE  /\ text # <<>> /\ text' = Tail(text) /\ load' = load /\ told' = told /\ ended' = ended
           /\ Head(text).is = "blank" => ReadBlank
           /\ Head(text).is = "find" => ReadFind
           /\ Head(text).is = "tried" => ReadTried
           /\ Head(text).is = "needed" => ReadNeeded
           /\ Head(text).is = "generating" => ReadGenerating
           /\ Head(text).is = "base" => ReadBase
           /\ Head(text).is = "entry" => ReadEntry
           /\ Head(text).is = "object" => ReadObject
           /\ Head(text).is = "scope" => ReadScope
           /\ Head(text).is = "plain" => ReadPlain
           /\ Head(text).is = "other" => ReadOther
  <1>1. Turn(Head(text).is)
    BY DEF ReadLine, ReadBlank, ReadFind, ReadTried, ReadNeeded, ReadGenerating, ReadBase, ReadEntry,
           ReadObject, ReadScope, ReadPlain, ReadOther, Turn
  <1>2. text # <<>> /\ text' = Tail(text) /\ load' = load /\ told' = told /\ ended' = ended
    BY <1>1 DEF Turn
  <1>3. ASSUME NEW k, Turn(k) PROVE Head(text).is = k
    BY <1>3 DEF Turn
  <1>4. /\ ReadBlank => Head(text).is = "blank"
        /\ ReadFind => Head(text).is = "find"
        /\ ReadTried => Head(text).is = "tried"
        /\ ReadNeeded => Head(text).is = "needed"
        /\ ReadGenerating => Head(text).is = "generating"
        /\ ReadBase => Head(text).is = "base"
        /\ ReadEntry => Head(text).is = "entry"
        /\ ReadObject => Head(text).is = "object"
        /\ ReadScope => Head(text).is = "scope"
        /\ ReadPlain => Head(text).is = "plain"
        /\ ReadOther => Head(text).is = "other"
    BY <1>3 DEF ReadBlank, ReadFind, ReadTried, ReadNeeded, ReadGenerating, ReadBase, ReadEntry,
           ReadObject, ReadScope, ReadPlain, ReadOther
  <1>5. QED
    BY <1>2, <1>4 DEF ReadLine

LEMMA LineFields ==
    ASSUME NEW is, NEW what
    PROVE  Line(is, what).is = is /\ Line(is, what).what = what /\ Blank.is = "blank"
  BY DEF Line, Blank

LEMMA HeadTail ==
    ASSUME NEW a, NEW b, NEW c, NEW d
    PROVE  /\ Head(<<a>>) = a /\ Tail(<<a>>) = <<>>
           /\ Head(<<a, b>>) = a /\ Tail(<<a, b>>) = <<b>>
           /\ Head(<<a, b, c>>) = a /\ Tail(<<a, b, c>>) = <<b, c>>
           /\ Head(<<a, b, c, d>>) = a /\ Tail(<<a, b, c, d>>) = <<b, c, d>>
  OBVIOUS

\* What is closed by a blank line.
LEMMA BlankCloses ==
    ASSUME ReadBlank, NEW X, steps \in Seq(X)
    PROVE  /\ Idle => Idle' /\ steps' = steps
           /\ \A s : /\ pendingSearch = <<s>> /\ pendingScope = <<>> /\ pendingMap = <<>>
                     => Idle' /\ steps' = steps \o <<SearchStep(s)>>
           /\ \A s : /\ pendingSearch = <<>> /\ pendingScope = <<s>> /\ pendingMap = <<>>
                     => Idle' /\ steps' = steps \o <<ScopeStep(s)>>
  <1>1. pendingSearch' = <<>> /\ pendingScope' = <<>> /\ pendingMap' = pendingMap
        /\ steps' = (steps \o ClosedSearch) \o ClosedScope
    BY DEF ReadBlank
  <1>2. pendingSearch = <<>> => ClosedSearch = <<>>
    BY DEF ClosedSearch
  <1>3. pendingScope = <<>> => ClosedScope = <<>>
    BY DEF ClosedScope
  <1>4. ASSUME NEW s, pendingSearch = <<s>> PROVE ClosedSearch = <<SearchStep(s)>>
    BY <1>4 DEF ClosedSearch
  <1>5. ASSUME NEW s, pendingScope = <<s>> PROVE ClosedScope = <<ScopeStep(s)>>
    BY <1>5 DEF ClosedScope
  <1>6. CASE Idle
    BY <1>1, <1>2, <1>3, <1>6 DEF Idle
  <1>7. ASSUME NEW s, pendingSearch = <<s>>, pendingScope = <<>>, pendingMap = <<>>
        PROVE  Idle' /\ steps' = steps \o <<SearchStep(s)>>
    <2>1. PICK t, e : t = steps /\ e = SearchStep(s)
      OBVIOUS
    <2>2. (t \o <<e>>) \o <<>> = t \o <<e>>
      <3>1. PICK Y : Y = X \cup {e}
        OBVIOUS
      <3>2. t \in Seq(Y) /\ <<e>> \in Seq(Y)
        BY <2>1, <3>1, SeqOfMore
      <3>3. QED
        BY <3>2
    <2>3. QED
      BY <1>1, <1>3, <1>4, <1>7, <2>1, <2>2 DEF Idle
  <1>8. ASSUME NEW s, pendingSearch = <<>>, pendingScope = <<s>>, pendingMap = <<>>
        PROVE  Idle' /\ steps' = steps \o <<ScopeStep(s)>>
    <2>1. steps \o <<>> = steps
      OBVIOUS
    <2>2. QED
      BY <1>1, <1>2, <1>5, <1>8, <2>1 DEF Idle
  <1>9. QED
    BY <1>6, <1>7, <1>8

\* A line later: still in the step, or behind it.
Behind(s, base, j) == j = Len(Calls(s)) /\ Finished(base \o Kept(s))'
Goes(s, base, j) == Within(s, base, j)' \/ Behind(s, base, j)

LEMMA NeededGoes ==
    ASSUME ReadLine, NEW s, IsStep(s), NEW X, NEW base \in Seq(X), NEW j, InNeeded(s, base, j)
    PROVE  Goes(s, base, j)
  <1>1. s.kind = "Needed" /\ j = 1 /\ Idle /\ steps = base
    BY DEF InNeeded
  <1>2. PICK n : n = Line("needed", <<s.file, s.by>>)
    OBVIOUS
  <1>3. n.is = "needed" /\ n.what = <<s.file, s.by>> /\ Blank.is = "blank"
    BY <1>2, LineFields
  <1>4. CASE text = <<Blank, n>>
    <2>1. Head(text) = Blank /\ Tail(text) = <<n>>
      BY <1>4
    <2>2. ReadBlank /\ text' = <<n>>
      BY <1>3, <2>1, LineDecides
    <2>3. Idle' /\ steps' = base
      BY <1>1, <2>2, BlankCloses
    <2>4. InNeeded(s, base, j)'
      BY <1>1, <1>2, <2>2, <2>3 DEF InNeeded
    <2>5. QED
      BY <2>4 DEF Goes, Within
  <1>5. CASE text = <<n>>
    <2>1. Head(text) = n /\ Tail(text) = <<>>
      BY <1>5
    <2>2. ReadNeeded /\ text' = <<>>
      BY <1>3, <2>1, LineDecides
    <2>3. s = [kind |-> "Needed", file |-> s.file, by |-> s.by]
      BY <1>1 DEF IsStep, Plain
    <2>13. PICK w : w = n.what
      OBVIOUS
    <2>4. w = n.what /\ w[1] = s.file /\ w[2] = s.by
      BY <1>3, <2>13
    <2>5. steps' = Append(steps, [kind |-> "Needed", file |-> w[1], by |-> w[2]])
      BY <2>1, <2>2, <2>4 DEF ReadNeeded, What
    <2>6. steps' = base \o <<s>>
      BY <1>1, <2>3, <2>4, <2>5
    <2>7. Idle'
      BY <1>1, <2>2 DEF ReadNeeded, Idle
    <2>8. Kept(s) = <<s>>
      BY <1>1 DEF Kept
    <2>9. Finished(base \o Kept(s))'
      BY <2>2, <2>6, <2>7, <2>8 DEF Finished
    <2>10. Calls(s) = <<<<Blank, n>>>>
      BY <1>1, <1>2, CallsOf
    <2>11. Len(Calls(s)) = 1
      BY <2>10, ShortLists
    <2>12. QED
      BY <1>1, <2>9, <2>11 DEF Goes, Behind
  <1>6. QED
    BY <1>2, <1>4, <1>5 DEF InNeeded

LEMMA SearchGoes ==
    ASSUME ReadLine, NEW s, IsStep(s), NEW X, NEW base \in Seq(X), NEW j, InSearch(s, base, j)
    PROVE  Goes(s, base, j)
  <1>1. s.kind = "Search" /\ steps = base
    BY DEF InSearch
  <1>2. IsList(s.tried) /\ s = [kind |-> "Search", library |-> s.library, tried |-> s.tried]
    BY <1>1 DEF IsStep, Plain
  <1>3. PICK tried, E : tried = s.tried /\ tried \in Seq(E)
    BY <1>2 DEF IsList
  <1>4. PICK n \in Nat : n = Len(tried)
    BY <1>3
  <1>5. CASE j = 1 /\ Idle /\ text = <<Line("find", s.library)>>
    <2>1. PICK l : l = Line("find", s.library) /\ l.is = "find" /\ l.what = s.library
      BY LineFields
    <2>2. Head(text) = l /\ Tail(text) = <<>>
      BY <1>5, <2>1
    <2>3. ReadFind /\ text' = <<>>
      BY <2>1, <2>2, LineDecides
    <2>4. SubSeq(tried, 1, 0) = <<>>
      BY <1>3
    <2>5. pendingSearch' = <<[library |-> s.library, tried |-> SubSeq(s.tried, 1, 0)]>>
      BY <1>3, <2>1, <2>2, <2>3, <2>4 DEF ReadFind, What
    <2>6. Tried(s, 0)' /\ steps' = base
      BY <1>1, <1>5, <2>3, <2>5 DEF ReadFind, Tried, Idle
    <2>7. 0 \in 0 .. Len(s.tried) /\ j = 0 + 1
      BY <1>3, <1>4, <1>5
    <2>8. InSearch(s, base, j)'
      BY <1>1, <2>3, <2>6, <2>7 DEF InSearch
    <2>9. QED
      BY <2>8 DEF Goes, Within
  <1>6. ASSUME NEW i \in 0 .. Len(s.tried) - 1, j = i + 2, Tried(s, i),
               text = <<Line("tried", s.tried[i + 1])>>
        PROVE  Goes(s, base, j)
    <2>1. PICK e : e = tried[i + 1]
      OBVIOUS
    <2>2. PICK l : l = Line("tried", e) /\ l.is = "tried" /\ l.what = e
      BY LineFields
    <2>3. Head(text) = l /\ Tail(text) = <<>>
      BY <1>3, <1>6, <2>1, <2>2
    <2>4. ReadTried /\ text' = <<>>
      BY <2>2, <2>3, LineDecides
    <2>5. PICK p : p = [library |-> s.library, tried |-> SubSeq(tried, 1, i)]
      OBVIOUS
    <2>6. pendingSearch = <<p>>
      BY <1>3, <1>6, <2>5 DEF Tried
    <2>7. pendingSearch' = [k \in DOMAIN pendingSearch |->
                               [pendingSearch[k] EXCEPT !.tried = Append(@, e)]]
      BY <2>2, <2>3, <2>4 DEF ReadTried, What
    <2>8. [p EXCEPT !.tried = Append(@, e)] = [library |-> s.library, tried |-> Append(SubSeq(tried, 1, i), e)]
      <3>1. PICK a, t : a = SubSeq(tried, 1, i) /\ t = Append(a, e)
        OBVIOUS
      <3>2. p = [library |-> s.library, tried |-> a] /\ p.tried = a
        BY <2>5, <3>1
      <3>3. [p EXCEPT !.tried = t] = [library |-> s.library, tried |-> t]
        BY <3>2
      <3>4. QED
        BY <3>1, <3>2, <3>3
    <2>9. Append(SubSeq(tried, 1, i), e) = SubSeq(tried, 1, i + 1)
      BY <1>3, <1>4, <2>1
    <2>10. pendingSearch' = <<[library |-> s.library, tried |-> SubSeq(tried, 1, i + 1)]>>
      <3>1. PICK q : q = [p EXCEPT !.tried = Append(@, e)]
        OBVIOUS
      <3>5. PICK o : o = <<p>>
        OBVIOUS
      <3>6. DOMAIN o = 1 .. 1 /\ o[1] = p
        BY <3>5
      <3>7. ASSUME NEW k \in 1 .. 1 PROVE [o[k] EXCEPT !.tried = Append(@, e)] = q
        <4>1. k = 1
          OBVIOUS
        <4>2. o[k] = p
          BY <3>6, <4>1
        <4>3. QED
          BY <3>1, <4>2, Zenon
      <3>8. [k \in DOMAIN o |-> [o[k] EXCEPT !.tried = Append(@, e)]] = [k \in 1 .. 1 |-> q]
        BY <3>6, <3>7
      <3>9. [k \in 1 .. 1 |-> q] = <<q>>
        OBVIOUS
      <3>2. [k \in DOMAIN <<p>> |-> [<<p>>[k] EXCEPT !.tried = Append(@, e)]] = <<q>>
        BY <3>5, <3>8, <3>9
      <3>3. pendingSearch' = <<q>>
        BY <2>6, <2>7, <3>2
      <3>4. QED
        BY <2>8, <2>9, <3>1, <3>3
    <2>11. Tried(s, i + 1)' /\ steps' = base
      BY <1>1, <1>3, <1>6, <2>4, <2>10 DEF ReadTried, Tried
    <2>12. PICK m \in 0 .. Len(s.tried) : m = i + 1 /\ j = m + 1
      <3>1. i + 1 \in 0 .. Len(s.tried) /\ j = (i + 1) + 1
        BY <1>3, <1>4, <1>6
      <3>2. QED
        BY <3>1
    <2>13. InSearch(s, base, j)'
      BY <1>1, <2>4, <2>11, <2>12 DEF InSearch
    <2>14. QED
      BY <2>13 DEF Goes, Within
  <1>7. CASE j = Len(s.tried) + 2 /\ Tried(s, Len(s.tried)) /\ text = <<Blank>>
    <2>1. Head(text) = Blank /\ Tail(text) = <<>>
      BY <1>7
    <2>2. ReadBlank /\ text' = <<>>
      BY <2>1, LineDecides, LineFields
    <2>3. SubSeq(tried, 1, n) = tried
      BY <1>3, <1>4
    <2>4. PICK p : p = [library |-> s.library, tried |-> s.tried]
      OBVIOUS
    <2>5. pendingSearch = <<p>> /\ pendingScope = <<>> /\ pendingMap = <<>>
      BY <1>3, <1>4, <1>7, <2>3, <2>4 DEF Tried
    <2>6. Idle' /\ steps' = base \o <<SearchStep(p)>>
      BY <1>1, <2>2, <2>5, BlankCloses
    <2>7. SearchStep(p) = s
      BY <1>2, <2>4 DEF SearchStep
    <2>8. Kept(s) = <<s>>
      BY <1>1 DEF Kept
    <2>9. Finished(base \o Kept(s))'
      BY <2>2, <2>6, <2>7, <2>8 DEF Finished
    <2>10. j = Len(Calls(s))
      BY <1>1, <1>2, <1>7, SearchCalls
    <2>11. QED
      BY <2>9, <2>10 DEF Goes, Behind
  <1>8. text # <<>>
    BY LineDecides
  <1>9. QED
    BY <1>5, <1>6, <1>7, <1>8 DEF InSearch

LEMMA ScopeGoes ==
    ASSUME ReadLine, NEW s, IsStep(s), NEW X, NEW base \in Seq(X), NEW j, InScope(s, base, j)
    PROVE  Goes(s, base, j)
  <1>1. s.kind = "Scope" /\ steps = base
    BY DEF InScope
  <1>2. IsList(s.order) /\ s = [kind |-> "Scope", object |-> s.object, order |-> s.order]
    BY <1>1 DEF IsStep, Plain
  <1>3. PICK order, E : order = s.order /\ order \in Seq(E)
    BY <1>2 DEF IsList
  <1>4. CASE j = 1 /\ Idle /\ text = <<Line("object", s.object)>>
    <2>1. PICK l : l = Line("object", s.object) /\ l.is = "object" /\ l.what = s.object
      BY LineFields
    <2>2. Head(text) = l /\ Tail(text) = <<>>
      BY <1>4, <2>1
    <2>3. ReadObject /\ text' = <<>>
      BY <2>1, <2>2, LineDecides
    <2>4. pendingScope' = <<[object |-> s.object, order |-> <<>>]>>
      BY <2>1, <2>2, <2>3 DEF ReadObject, What
    <2>5. Scoped(s, <<>>)' /\ steps' = base
      BY <1>1, <1>4, <2>3, <2>4 DEF ReadObject, Scoped, Idle
    <2>6. InScope(s, base, j)'
      BY <1>1, <1>4, <2>3, <2>5 DEF InScope
    <2>7. QED
      BY <2>6 DEF Goes, Within
  <1>5. CASE j = 2 /\ Scoped(s, <<>>) /\ text = <<Line("scope", s.order)>>
    <2>1. PICK l : l = Line("scope", order) /\ l.is = "scope" /\ l.what = order
      BY LineFields
    <2>2. Head(text) = l /\ Tail(text) = <<>>
      BY <1>3, <1>5, <2>1
    <2>3. ReadScope /\ text' = <<>>
      BY <2>1, <2>2, LineDecides
    <2>4. PICK p : p = [object |-> s.object, order |-> <<>>]
      OBVIOUS
    <2>5. pendingScope = <<p>>
      BY <1>5, <2>4 DEF Scoped
    <2>6. pendingScope' = [k \in DOMAIN pendingScope |->
                              [pendingScope[k] EXCEPT !.order = @ \o order]]
      BY <2>1, <2>2, <2>3 DEF ReadScope, What
    <2>7. [p EXCEPT !.order = @ \o order] = [object |-> s.object, order |-> <<>> \o order]
      BY <2>4
    <2>8. <<>> \o order = order
      BY <1>3
    <2>9. pendingScope' = <<[object |-> s.object, order |-> s.order]>>
      <3>1. PICK q : q = [p EXCEPT !.order = @ \o order]
        OBVIOUS
      <3>5. PICK o : o = <<p>>
        OBVIOUS
      <3>6. DOMAIN o = 1 .. 1 /\ o[1] = p
        BY <3>5
      <3>7. ASSUME NEW k \in 1 .. 1 PROVE [o[k] EXCEPT !.order = @ \o order] = q
        <4>1. k = 1
          OBVIOUS
        <4>2. o[k] = p
          BY <3>6, <4>1
        <4>3. QED
          BY <3>1, <4>2, Zenon
      <3>8. [k \in DOMAIN o |-> [o[k] EXCEPT !.order = @ \o order]] = [k \in 1 .. 1 |-> q]
        BY <3>6, <3>7
      <3>9. [k \in 1 .. 1 |-> q] = <<q>>
        OBVIOUS
      <3>2. [k \in DOMAIN <<p>> |-> [<<p>>[k] EXCEPT !.order = @ \o order]] = <<q>>
        BY <3>5, <3>8, <3>9
      <3>3. pendingScope' = <<q>>
        BY <2>5, <2>6, <3>2
      <3>4. QED
        BY <1>3, <2>7, <2>8, <3>1, <3>3
    <2>10. Scoped(s, s.order)' /\ steps' = base
      BY <1>1, <1>5, <2>3, <2>9 DEF ReadScope, Scoped
    <2>11. InScope(s, base, j)'
      BY <1>1, <1>5, <2>3, <2>10 DEF InScope
    <2>12. QED
      BY <2>11 DEF Goes, Within
  <1>6. CASE j = 3 /\ Scoped(s, s.order) /\ text = <<Blank>>
    <2>1. Head(text) = Blank /\ Tail(text) = <<>>
      BY <1>6
    <2>2. ReadBlank /\ text' = <<>>
      BY <2>1, LineDecides, LineFields
    <2>3. PICK p : p = [object |-> s.object, order |-> s.order]
      OBVIOUS
    <2>4. pendingScope = <<p>> /\ pendingSearch = <<>> /\ pendingMap = <<>>
      BY <1>6, <2>3 DEF Scoped
    <2>5. Idle' /\ steps' = base \o <<ScopeStep(p)>>
      BY <1>1, <2>2, <2>4, BlankCloses
    <2>6. ScopeStep(p) = s
      BY <1>2, <2>3 DEF ScopeStep
    <2>7. Kept(s) = <<s>>
      BY <1>1 DEF Kept
    <2>8. Finished(base \o Kept(s))'
      BY <2>2, <2>5, <2>6, <2>7 DEF Finished
    <2>9. PICK a, b, c : Calls(s) = <<a, b, c>>
      BY <1>1, CallsOf
    <2>10. j = Len(Calls(s))
      BY <1>6, <2>9, ShortLists
    <2>11. QED
      BY <2>8, <2>10 DEF Goes, Behind
  <1>7. text # <<>>
    BY LineDecides
  <1>8. QED
    BY <1>4, <1>5, <1>6, <1>7 DEF InScope

LEMMA LinkMapGoes ==
    ASSUME ReadLine, NEW s, IsStep(s), NEW X, NEW base \in Seq(X), NEW j, InLinkMap(s, base, j)
    PROVE  Goes(s, base, j)
  <1>1. s.kind = "LinkMap"
    BY DEF InLinkMap
  <1>2. s = [kind |-> "LinkMap", file |-> s.file, base |-> s.base, entry |-> s.entry]
    BY <1>1 DEF IsStep, Plain
  <1>3. PICK lb, le : /\ lb = Line("base", s.base) /\ lb.is = "base" /\ lb.what = s.base
                      /\ le = Line("entry", s.entry) /\ le.is = "entry" /\ le.what = s.entry
    BY LineFields
  <1>4. PICK u : u = Unfinished(s)
    OBVIOUS
  <1>5. PICK Y : Y = X \cup {u, s}
    OBVIOUS
  <1>6. base \in Seq(Y) /\ <<u>> \in Seq(Y) /\ <<s>> \in Seq(Y)
    BY <1>5, SeqOfMore
  <1>7. PICK bu, bs : bu = base \o <<u>> /\ bs = base \o <<s>>
    OBVIOUS
  <1>8. PICK n \in Nat : n = Len(base)
    OBVIOUS
  <1>9. /\ bu \in Seq(Y) /\ Len(bu) = n + 1 /\ bu[n + 1] = u
        /\ bs \in Seq(Y) /\ Len(bs) = n + 1 /\ bs[n + 1] = s
        /\ \A k \in 1 .. n : bu[k] = base[k] /\ bs[k] = base[k]
    BY <1>6, <1>7, <1>8
  <1>10. CASE j = 1 /\ Idle /\ steps = base /\ text = <<Line("generating", s.file)>>
    <2>1. PICK l : l = Line("generating", s.file) /\ l.is = "generating" /\ l.what = s.file
      BY LineFields
    <2>2. Head(text) = l /\ Tail(text) = <<>>
      BY <1>10, <2>1
    <2>3. ReadGenerating /\ text' = <<>>
      BY <2>1, <2>2, LineDecides
    <2>4. Generated(s)' /\ steps' = base
      BY <1>10, <2>1, <2>2, <2>3 DEF ReadGenerating, Generated, Idle, What
    <2>5. InLinkMap(s, base, j)'
      BY <1>1, <1>10, <2>3, <2>4 DEF InLinkMap
    <2>6. QED
      BY <2>5 DEF Goes, Within
  <1>11. CASE j = 2 /\ Generated(s) /\ steps = base /\ text = <<lb, le, Blank, Blank>>
    <2>1. Head(text) = lb /\ Tail(text) = <<le, Blank, Blank>>
      BY <1>11, HeadTail
    <2>2. ReadBase /\ text' = <<le, Blank, Blank>>
      BY <1>3, <2>1, LineDecides
    <2>3. steps' = steps \o [k \in DOMAIN pendingMap |->
                    [kind |-> "LinkMap", file |-> pendingMap[k], base |-> s.base, entry |-> 0]]
      BY <1>3, <2>1, <2>2 DEF ReadBase, What
    <2>4. pendingMap = <<s.file>>
      BY <1>11 DEF Generated
    <2>5. [k \in DOMAIN pendingMap |->
              [kind |-> "LinkMap", file |-> pendingMap[k], base |-> s.base, entry |-> 0]] = <<u>>
      <3>1. PICK f, o : f = s.file /\ o = <<f>>
        OBVIOUS
      <3>2. DOMAIN o = 1 .. 1 /\ o[1] = f
        BY <3>1
      <3>3. ASSUME NEW k \in 1 .. 1
            PROVE  [kind |-> "LinkMap", file |-> o[k], base |-> s.base, entry |-> 0] = u
        <4>1. o[k] = f
          BY <3>2
        <4>2. QED
          BY <1>4, <3>1, <4>1 DEF Unfinished
      <3>4. [k \in DOMAIN o |-> [kind |-> "LinkMap", file |-> o[k], base |-> s.base, entry |-> 0]]
               = [k \in 1 .. 1 |-> u]
        BY <3>2, <3>3
      <3>5. [k \in 1 .. 1 |-> u] = <<u>>
        OBVIOUS
      <3>6. pendingMap = o
        BY <2>4, <3>1
      <3>7. QED
        BY <3>4, <3>5, <3>6
    <2>6. steps' = bu
      BY <1>7, <1>11, <2>3, <2>5, Zenon
    <2>7. Generated(s)'
      BY <1>11, <2>2 DEF ReadBase, Generated
    <2>8. InLinkMap(s, base, j)'
      BY <1>1, <1>3, <1>4, <1>7, <1>11, <2>2, <2>6, <2>7 DEF InLinkMap
    <2>9. QED
      BY <2>8 DEF Goes, Within
  <1>12. CASE j = 2 /\ Generated(s) /\ steps = bu /\ text = <<le, Blank, Blank>>
    <2>1. Head(text) = le /\ Tail(text) = <<Blank, Blank>>
      BY <1>12, HeadTail
    <2>2. ReadEntry /\ text' = <<Blank, Blank>>
      BY <1>3, <2>1, LineDecides
    <2>3. Last(bu) = u /\ bu # <<>> /\ u.kind = "LinkMap"
      BY <1>4, <1>9 DEF Last, Unfinished
    <2>4. steps' = [bu EXCEPT ![Len(bu)].entry = s.entry]
      BY <1>3, <1>12, <2>1, <2>2, <2>3 DEF ReadEntry, What
    <2>5. [bu EXCEPT ![Len(bu)].entry = s.entry] = bs
      <3>1. PICK v : v = [bu[n + 1] EXCEPT !.entry = s.entry]
        OBVIOUS
      <3>2. v = s
        <4>1. u = [kind |-> "LinkMap", file |-> s.file, base |-> s.base, entry |-> 0]
          BY <1>4 DEF Unfinished
        <4>2. v = [u EXCEPT !.entry = s.entry]
          BY <1>9, <3>1, Zenon
        <4>3. v = [kind |-> "LinkMap", file |-> s.file, base |-> s.base, entry |-> s.entry]
          BY <4>1, <4>2
        <4>4. QED
          BY <1>2, <4>3, Zenon
      <3>3. [bu EXCEPT ![Len(bu)].entry = s.entry] = [bu EXCEPT ![n + 1] = s]
        BY <1>9, <3>1, <3>2
      <3>4. [bu EXCEPT ![n + 1] = s] = bs
        <4>1. bu = [k \in 1 .. n + 1 |-> bu[k]] /\ bs = [k \in 1 .. n + 1 |-> bs[k]]
          BY <1>9
        <4>2. PICK w : w = [bu EXCEPT ![n + 1] = s]
          OBVIOUS
        <4>3. w = [k \in 1 .. n + 1 |-> w[k]]
          BY <4>1, <4>2
        <4>4. \A k \in 1 .. n + 1 : w[k] = bs[k]
          <5> SUFFICES ASSUME NEW k \in 1 .. n + 1 PROVE w[k] = bs[k]
            OBVIOUS
          <5>1. CASE k = n + 1
            BY <1>9, <4>1, <4>2, <5>1
          <5>2. CASE k # n + 1
            <6>1. k \in 1 .. n
              BY <5>2
            <6>2. QED
              BY <1>9, <4>1, <4>2, <5>2, <6>1
          <5>3. QED
            BY <5>1, <5>2
        <4>5. QED
          BY <4>1, <4>2, <4>3, <4>4
      <3>5. QED
        BY <3>3, <3>4
    <2>6. Idle'
      BY <1>12, <2>2 DEF ReadEntry, Generated, Idle
    <2>7. InLinkMap(s, base, j)'
      BY <1>1, <1>7, <1>12, <2>2, <2>4, <2>5, <2>6 DEF InLinkMap
    <2>8. QED
      BY <2>7 DEF Goes, Within
  <1>13. CASE j = 2 /\ Idle /\ steps = bs /\ text = <<Blank, Blank>>
    <2>1. Head(text) = Blank /\ Tail(text) = <<Blank>>
      BY <1>13
    <2>2. ReadBlank /\ text' = <<Blank>>
      BY <2>1, LineDecides, LineFields
    <2>3. Idle' /\ steps' = bs
      BY <1>9, <1>13, <2>2, BlankCloses
    <2>4. InLinkMap(s, base, j)'
      BY <1>1, <1>7, <1>13, <2>2, <2>3 DEF InLinkMap
    <2>5. QED
      BY <2>4 DEF Goes, Within
  <1>14. CASE j = 2 /\ Idle /\ steps = bs /\ text = <<Blank>>
    <2>1. Head(text) = Blank /\ Tail(text) = <<>>
      BY <1>14
    <2>2. ReadBlank /\ text' = <<>>
      BY <2>1, LineDecides, LineFields
    <2>3. Idle' /\ steps' = bs
      BY <1>9, <1>14, <2>2, BlankCloses
    <2>4. Kept(s) = <<s>>
      BY <1>1 DEF Kept
    <2>5. Finished(base \o Kept(s))'
      BY <1>7, <2>2, <2>3, <2>4 DEF Finished
    <2>6. PICK a, b : Calls(s) = <<a, b>>
      BY <1>1, CallsOf
    <2>7. j = Len(Calls(s))
      BY <1>14, <2>6, ShortLists
    <2>8. QED
      BY <2>5, <2>7 DEF Goes, Behind
  <1>15. text # <<>>
    BY LineDecides
  <1>16. QED
    BY <1>3, <1>4, <1>7, <1>10, <1>11, <1>12, <1>13, <1>14, <1>15, Zenon DEF InLinkMap

LEMMA PlainGoes ==
    ASSUME ReadLine, NEW s, NEW X, NEW base \in Seq(X), NEW j, InPlain(s, base, j)
    PROVE  Goes(s, base, j)
  <1>1. s.kind \in Plain /\ j = 1 /\ Idle
    BY DEF InPlain
  <1>2. PICK l : l = Line("plain", s) /\ l.is = "plain" /\ l.what = s
    BY LineFields
  <1>3. CASE steps = base /\ text = <<Blank, l, Blank>>
    <2>1. Head(text) = Blank /\ Tail(text) = <<l, Blank>>
      BY <1>3, HeadTail
    <2>2. ReadBlank /\ text' = <<l, Blank>>
      BY <2>1, LineDecides, LineFields
    <2>3. Idle' /\ steps' = base
      BY <1>1, <1>3, <2>2, BlankCloses
    <2>4. InPlain(s, base, j)'
      BY <1>1, <1>2, <2>2, <2>3 DEF InPlain
    <2>5. QED
      BY <2>4 DEF Goes, Within
  <1>4. CASE steps = base /\ text = <<l, Blank>>
    <2>1. Head(text) = l /\ Tail(text) = <<Blank>>
      BY <1>4, HeadTail
    <2>2. ReadPlain /\ text' = <<Blank>>
      BY <1>2, <2>1, LineDecides
    <2>3. steps' = Append(steps, s)
      BY <1>2, <2>1, <2>2 DEF ReadPlain, What
    <2>4. steps' = base \o <<s>>
      BY <1>4, <2>3
    <2>5. Idle'
      BY <1>1, <2>2 DEF ReadPlain, Idle
    <2>6. InPlain(s, base, j)'
      BY <1>1, <2>2, <2>4, <2>5 DEF InPlain
    <2>7. QED
      BY <2>6 DEF Goes, Within
  <1>5. CASE steps = base \o <<s>> /\ text = <<Blank>>
    <2>1. Head(text) = Blank /\ Tail(text) = <<>>
      BY <1>5
    <2>2. ReadBlank /\ text' = <<>>
      BY <2>1, LineDecides, LineFields
    <2>3. PICK Y, bs : Y = X \cup {s} /\ bs = base \o <<s>>
      OBVIOUS
    <2>4. base \in Seq(Y) /\ <<s>> \in Seq(Y)
      BY <2>3, SeqOfMore
    <2>5. bs \in Seq(Y)
      BY <2>3, <2>4
    <2>6. Idle' /\ steps' = bs
      BY <1>1, <1>5, <2>2, <2>3, <2>5, BlankCloses
    <2>7. Kept(s) = <<s>>
      BY <1>1 DEF Kept, Plain
    <2>8. Finished(base \o Kept(s))'
      BY <2>2, <2>3, <2>6, <2>7 DEF Finished
    <2>9. PICK a : Calls(s) = <<a>>
      BY <1>1, CallsOf
    <2>10. j = Len(Calls(s))
      BY <1>1, <2>9, ShortLists
    <2>11. QED
      BY <2>8, <2>10 DEF Goes, Behind
  <1>6. QED
    BY <1>2, <1>3, <1>4, <1>5 DEF InPlain

LEMMA BindGoes ==
    ASSUME ReadLine, NEW s, NEW X, NEW base \in Seq(X), NEW j, InBind(s, base, j)
    PROVE  Goes(s, base, j)
  <1>1. s.kind = "Bind" /\ Idle /\ steps = base
    BY DEF InBind
  <1>2. CASE j = 1 /\ text = <<Line("other", <<>>)>>
    <2>1. PICK l : l = Line("other", <<>>) /\ l.is = "other"
      BY LineFields
    <2>2. Head(text) = l /\ Tail(text) = <<>>
      BY <1>2, <2>1
    <2>3. ReadOther /\ text' = <<>>
      BY <2>1, <2>2, LineDecides
    <2>4. Idle' /\ steps' = base
      BY <1>1, <2>3 DEF ReadOther, readerVars, Idle
    <2>5. InBind(s, base, j)'
      BY <1>1, <1>2, <2>3, <2>4 DEF InBind
    <2>6. QED
      BY <2>5 DEF Goes, Within
  <1>3. CASE j = 2 /\ text = <<Line("plain", s)>>
    <2>1. PICK l : l = Line("plain", s) /\ l.is = "plain" /\ l.what = s
      BY LineFields
    <2>2. Head(text) = l /\ Tail(text) = <<>>
      BY <1>3, <2>1
    <2>3. ReadPlain /\ text' = <<>>
      BY <2>1, <2>2, LineDecides
    <2>4. steps' = Append(steps, s)
      BY <2>1, <2>2, <2>3 DEF ReadPlain, What
    <2>5. steps' = base \o <<s>>
      BY <1>1, <2>4
    <2>6. Idle'
      BY <1>1, <2>3 DEF ReadPlain, Idle
    <2>7. Kept(s) = <<s>>
      BY <1>1 DEF Kept
    <2>8. Finished(base \o Kept(s))'
      BY <2>3, <2>5, <2>6, <2>7 DEF Finished
    <2>9. PICK a, b : Calls(s) = <<a, b>>
      BY <1>1, CallsOf
    <2>10. j = Len(Calls(s))
      BY <1>3, <2>9, ShortLists
    <2>11. QED
      BY <2>8, <2>10 DEF Goes, Behind
  <1>4. text # <<>>
    BY LineDecides
  <1>5. QED
    BY <1>2, <1>3, <1>4 DEF InBind

LEMMA OtherGoes ==
    ASSUME ReadLine, NEW s, NEW X, NEW base \in Seq(X), NEW j, InOther(s, base, j)
    PROVE  Goes(s, base, j)
  <1>1. s.kind = "Other" /\ j = 1 /\ Idle /\ steps = base
    BY DEF InOther
  <1>2. PICK l : l = Line("other", <<>>) /\ l.is = "other"
    BY LineFields
  <1>3. CASE text = <<l, Blank>>
    <2>1. Head(text) = l /\ Tail(text) = <<Blank>>
      BY <1>3, HeadTail
    <2>2. ReadOther /\ text' = <<Blank>>
      BY <1>2, <2>1, LineDecides
    <2>3. Idle' /\ steps' = base
      BY <1>1, <2>2 DEF ReadOther, readerVars, Idle
    <2>4. InOther(s, base, j)'
      BY <1>1, <2>2, <2>3 DEF InOther
    <2>5. QED
      BY <2>4 DEF Goes, Within
  <1>4. CASE text = <<Blank>>
    <2>1. Head(text) = Blank /\ Tail(text) = <<>>
      BY <1>4
    <2>2. ReadBlank /\ text' = <<>>
      BY <2>1, LineDecides, LineFields
    <2>3. Idle' /\ steps' = base
      BY <1>1, <2>2, BlankCloses
    <2>4. Kept(s) = <<>>
      BY <1>1 DEF Kept
    <2>5. base \o <<>> = base
      OBVIOUS
    <2>6. Finished(base \o Kept(s))'
      BY <2>2, <2>3, <2>4, <2>5 DEF Finished
    <2>7. PICK a : Calls(s) = <<a>>
      BY <1>1, CallsOf
    <2>8. j = Len(Calls(s))
      BY <1>1, <2>7, ShortLists
    <2>9. QED
      BY <2>6, <2>8 DEF Goes, Behind
  <1>5. QED
    BY <1>2, <1>3, <1>4 DEF InOther

\* One line takes the reader on.
LEMMA LineGoes ==
    ASSUME ReadLine, NEW s, IsStep(s), NEW X, NEW base \in Seq(X), NEW j, Within(s, base, j)
    PROVE  Goes(s, base, j)
  BY NeededGoes, SearchGoes, LinkMapGoes, ScopeGoes, PlainGoes, BindGoes, OtherGoes DEF Within

-----------------------------------------------------------------------------
(* The writer tells the next call.                                         *)

LEMMA SomeText ==
    ASSUME NEW a, NEW b, NEW c, NEW d
    PROVE  <<a>> # <<>> /\ <<a, b>> # <<>> /\ <<a, b, c>> # <<>> /\ <<a, b, c, d>> # <<>>
  OBVIOUS

\* More is to be told of a step that is not read to its end.
LEMMA MoreToTell ==
    ASSUME NEW s, IsStep(s), NEW base, NEW j, Within(s, base, j), NEW len, len = Len(Calls(s))
    PROVE  j \in 1 .. len /\ (text = <<>> => j + 1 \in 1 .. len)
  <1>1. CASE InNeeded(s, base, j)
    <2>1. PICK a : Calls(s) = <<a>>
      BY <1>1, CallsOf DEF InNeeded
    <2>2. len = 1
      BY <2>1, ShortLists
    <2>3. j = 1 /\ text # <<>>
      BY <1>1, SomeText, Zenon DEF InNeeded
    <2>4. QED
      BY <2>2, <2>3
  <1>2. CASE InSearch(s, base, j)
    <2>1. s.kind = "Search" /\ IsList(s.tried)
      BY <1>2 DEF InSearch, IsStep, Plain
    <2>2. PICK n \in Nat : n = Len(s.tried) /\ len = n + 2
      BY <2>1, SearchCalls
    <2>3. (j = 1 /\ text # <<>>) \/ (\E i \in 0 .. n : j = i + 1)
            \/ (\E i \in 0 .. n - 1 : j = i + 2 /\ text # <<>>) \/ (j = n + 2 /\ text # <<>>)
      BY <1>2, <2>2, SomeText DEF InSearch
    <2>4. QED
      BY <2>2, <2>3, SMTT(30)
  <1>3. CASE InLinkMap(s, base, j)
    <2>1. PICK a, b : Calls(s) = <<a, b>>
      BY <1>3, CallsOf DEF InLinkMap
    <2>2. len = 2
      BY <2>1, ShortLists
    <2>3. j = 1 \/ (j = 2 /\ text # <<>>)
      BY <1>3, SomeText, Zenon DEF InLinkMap
    <2>4. QED
      BY <2>2, <2>3
  <1>4. CASE InScope(s, base, j)
    <2>1. PICK a, b, c : Calls(s) = <<a, b, c>>
      BY <1>4, CallsOf DEF InScope
    <2>2. len = 3
      BY <2>1, ShortLists
    <2>3. j = 1 \/ j = 2 \/ (j = 3 /\ text # <<>>)
      BY <1>4, SomeText, Zenon DEF InScope
    <2>4. QED
      BY <2>2, <2>3
  <1>5. CASE InPlain(s, base, j)
    <2>1. PICK a : Calls(s) = <<a>>
      BY <1>5, CallsOf DEF InPlain
    <2>2. len = 1
      BY <2>1, ShortLists
    <2>3. j = 1 /\ text # <<>>
      BY <1>5, SomeText, Zenon DEF InPlain
    <2>4. QED
      BY <2>2, <2>3
  <1>6. CASE InBind(s, base, j)
    <2>1. PICK a, b : Calls(s) = <<a, b>>
      BY <1>6, CallsOf DEF InBind
    <2>2. len = 2
      BY <2>1, ShortLists
    <2>3. j = 1 \/ (j = 2 /\ text # <<>>)
      BY <1>6, SomeText, Zenon DEF InBind
    <2>4. QED
      BY <2>2, <2>3
  <1>7. CASE InOther(s, base, j)
    <2>1. PICK a : Calls(s) = <<a>>
      BY <1>7, CallsOf DEF InOther
    <2>2. len = 1
      BY <2>1, ShortLists
    <2>3. j = 1 /\ text # <<>>
      BY <1>7, SomeText, Zenon DEF InOther
    <2>4. QED
      BY <2>2, <2>3
  <1>8. QED
    BY <1>1, <1>2, <1>3, <1>4, <1>5, <1>6, <1>7 DEF Within

LEMMA TellFirst ==
    ASSUME UNCHANGED readerVars, NEW s, IsStep(s), NEW base, Finished(base), text' = Calls(s)[1]
    PROVE  Within(s, base, 1)'
  <1>1. Idle' /\ steps' = base
    BY DEF Finished, Idle, readerVars
  <1>2. CASE s.kind = "Needed"
    <2>0. Calls(s) = <<<<Blank, Line("needed", <<s.file, s.by>>)>>>>
      BY <1>2, CallsOf
    <2>1. text' = <<Blank, Line("needed", <<s.file, s.by>>)>>
      BY <2>0
    <2>2. InNeeded(s, base, 1)'
      BY <1>1, <1>2, <2>1 DEF InNeeded
    <2>3. QED
      BY <2>2 DEF Within
  <1>3. CASE s.kind = "Search"
    <2>1. text' = <<Line("find", s.library)>>
      BY <1>3, SearchCalls DEF IsStep, Plain
    <2>2. InSearch(s, base, 1)'
      BY <1>1, <1>3, <2>1 DEF InSearch
    <2>3. QED
      BY <2>2 DEF Within
  <1>4. CASE s.kind = "LinkMap"
    <2>0. Calls(s) = <<<<Line("generating", s.file)>>,
                     <<Line("base", s.base), Line("entry", s.entry), Blank, Blank>>>>
      BY <1>4, CallsOf
    <2>1. text' = <<Line("generating", s.file)>>
      BY <2>0
    <2>2. InLinkMap(s, base, 1)'
      BY <1>1, <1>4, <2>1 DEF InLinkMap
    <2>3. QED
      BY <2>2 DEF Within
  <1>5. CASE s.kind = "Scope"
    <2>0. Calls(s) = <<<<Line("object", s.object)>>, <<Line("scope", s.order)>>, <<Blank>>>>
      BY <1>5, CallsOf
    <2>1. text' = <<Line("object", s.object)>>
      BY <2>0
    <2>2. InScope(s, base, 1)'
      BY <1>1, <1>5, <2>1 DEF InScope
    <2>3. QED
      BY <2>2 DEF Within
  <1>6. CASE s.kind \in Plain
    <2>0. Calls(s) = <<<<Blank, Line("plain", s), Blank>>>>
      BY <1>6, CallsOf
    <2>1. text' = <<Blank, Line("plain", s), Blank>>
      BY <2>0
    <2>2. InPlain(s, base, 1)'
      BY <1>1, <1>6, <2>1 DEF InPlain
    <2>3. QED
      BY <2>2 DEF Within
  <1>7. CASE s.kind = "Bind"
    <2>0. Calls(s) = <<<<Line("other", <<>>)>>, <<Line("plain", s)>>>>
      BY <1>7, CallsOf
    <2>1. text' = <<Line("other", <<>>)>>
      BY <2>0
    <2>2. InBind(s, base, 1)'
      BY <1>1, <1>7, <2>1 DEF InBind
    <2>3. QED
      BY <2>2 DEF Within
  <1>8. CASE s.kind = "Other"
    <2>0. Calls(s) = <<<<Line("other", <<>>), Blank>>>>
      BY <1>8, CallsOf
    <2>1. text' = <<Line("other", <<>>), Blank>>
      BY <2>0
    <2>2. InOther(s, base, 1)'
      BY <1>1, <1>8, <2>1 DEF InOther
    <2>3. QED
      BY <2>2 DEF Within
  <1>9. QED
    BY <1>2, <1>3, <1>4, <1>5, <1>6, <1>7, <1>8 DEF IsStep

LEMMA TellMore ==
    ASSUME UNCHANGED readerVars, NEW s, IsStep(s), NEW base, NEW j, Within(s, base, j),
           text = <<>>, NEW next, next = j + 1, text' = Calls(s)[next]
    PROVE  Within(s, base, next)'
  <1>1. steps' = steps /\ (Idle => Idle')
    BY DEF Idle, readerVars
  <1>2. CASE InSearch(s, base, j)
    <2>1. s.kind = "Search" /\ IsList(s.tried) /\ steps = base
      BY <1>2 DEF InSearch, IsStep, Plain
    <2>2. PICK n \in Nat : n = Len(s.tried)
      BY <2>1, SearchCalls
    <2>3. PICK i \in 0 .. n : j = i + 1 /\ Tried(s, i)
      BY <1>2, <2>2 DEF InSearch
    <2>4. Tried(s, i)'
      BY <2>3 DEF Tried, readerVars
    <2>5. CASE i = n
      <3>1. next = n + 2
        BY <2>3, <2>5
      <3>2. text' = <<Blank>>
        BY <2>1, <2>2, <3>1, SearchCalls
      <3>3. InSearch(s, base, next)'
        BY <1>1, <2>1, <2>2, <2>4, <2>5, <3>1, <3>2 DEF InSearch
      <3>4. QED
        BY <3>3 DEF Within
    <2>6. CASE i # n
      <3>1. i \in 0 .. n - 1 /\ i + 1 \in 1 .. n /\ next = (i + 1) + 1 /\ next = i + 2
        BY <2>3, <2>6
      <3>2. Calls(s)[(i + 1) + 1] = <<Line("tried", s.tried[i + 1])>>
        BY <2>1, <2>2, <3>1, SearchCalls
      <3>3. text' = <<Line("tried", s.tried[i + 1])>>
        BY <3>1, <3>2
      <3>4. InSearch(s, base, next)'
        BY <1>1, <2>1, <2>2, <2>4, <3>1, <3>3 DEF InSearch
      <3>5. QED
        BY <3>4 DEF Within
    <2>7. QED
      BY <2>5, <2>6
  <1>3. CASE InLinkMap(s, base, j)
    <2>1. j = 1 /\ Generated(s) /\ steps = base /\ s.kind = "LinkMap"
      BY <1>3 DEF InLinkMap
    <2>2. next = 2
      BY <2>1
    <2>7. Calls(s) = <<<<Line("generating", s.file)>>,
                       <<Line("base", s.base), Line("entry", s.entry), Blank, Blank>>>>
      BY <2>1, CallsOf
    <2>3. text' = <<Line("base", s.base), Line("entry", s.entry), Blank, Blank>>
      BY <2>2, <2>7
    <2>4. Generated(s)'
      BY <2>1 DEF Generated, readerVars
    <2>5. InLinkMap(s, base, next)'
      BY <1>1, <2>1, <2>2, <2>3, <2>4 DEF InLinkMap
    <2>6. QED
      BY <2>5 DEF Within
  <1>4. CASE InScope(s, base, j)
    <2>1. s.kind = "Scope" /\ steps = base
      BY <1>4 DEF InScope
    <2>2. Calls(s) = <<<<Line("object", s.object)>>, <<Line("scope", s.order)>>, <<Blank>>>>
      BY <2>1, CallsOf
    <2>3. CASE j = 1 /\ Scoped(s, <<>>)
      <3>1. next = 2 /\ text' = <<Line("scope", s.order)>> /\ Scoped(s, <<>>)'
        BY <2>2, <2>3 DEF Scoped, readerVars
      <3>2. InScope(s, base, next)'
        BY <1>1, <2>1, <3>1 DEF InScope
      <3>3. QED
        BY <3>2 DEF Within
    <2>4. CASE j = 2 /\ Scoped(s, s.order)
      <3>1. next = 3 /\ text' = <<Blank>> /\ Scoped(s, s.order)'
        BY <2>2, <2>4 DEF Scoped, readerVars
      <3>2. InScope(s, base, next)'
        BY <1>1, <2>1, <3>1 DEF InScope
      <3>3. QED
        BY <3>2 DEF Within
    <2>5. QED
      BY <1>4, <2>3, <2>4 DEF InScope
  <1>5. CASE InBind(s, base, j)
    <2>1. j = 1 /\ s.kind = "Bind" /\ Idle /\ steps = base
      BY <1>5 DEF InBind
    <2>2. next = 2
      BY <2>1
    <2>7. Calls(s) = <<<<Line("other", <<>>)>>, <<Line("plain", s)>>>>
      BY <2>1, CallsOf
    <2>3. text' = <<Line("plain", s)>>
      BY <2>2, <2>7
    <2>4. InBind(s, base, next)'
      BY <1>1, <2>1, <2>2, <2>3 DEF InBind
    <2>5. QED
      BY <2>4 DEF Within
  <1>6. ~InNeeded(s, base, j) /\ ~InPlain(s, base, j) /\ ~InOther(s, base, j)
    BY DEF InNeeded, InPlain, InOther
  <1>7. QED
    BY <1>2, <1>3, <1>4, <1>5, <1>6 DEF Within

-----------------------------------------------------------------------------
(* The whole log.                                                          *)

Here(k) == told[Target] = ToldUpTo(k) /\ \E base \in {ReadUpTo(k)} : Finished(base)
Inside(k) ==
    /\ k + 1 \in 1 .. Len(Story)
    /\ \E s \in {Story[k + 1]}, base \in {ReadUpTo(k)} : \E j \in 1 .. Len(Calls(s)) :
          told[Target] = ToldUpTo(k) + j /\ Within(s, base, j)

\* A process that starts no other tells its story, and as much of it is read: the
\* reader is between two of its steps or in the midst of one.
LogInv ==
    /\ load \in Loads
    /\ Alone =>
          /\ told \in [Procs -> Nat] /\ \A p \in Procs \ {Target} : told[p] = 0
          /\ ended => text = <<>> /\ steps = ReadUpTo(Len(Story))
          /\ ~ended => \E k \in 0 .. Len(Story) : Here(k) \/ Inside(k)

LEMMA InitLogInv == Init => LogInv
  <1> SUFFICES ASSUME Init PROVE LogInv
    OBVIOUS
  <1>1. load \in Loads /\ told = [p \in Procs |-> 0] /\ ~ended
    BY DEF Init
  <1>2. PICK n : n = Len(Story)
    OBVIOUS
  <1>3. n \in Nat /\ ScriptIs(n)
    BY <1>1, <1>2, ScriptFacts
  <1>4. told \in [Procs -> Nat] /\ (\A p \in Procs \ {Target} : told[p] = 0) /\ told[Target] = 0
    BY <1>1, LoadsAssumption
  <1>5. Finished(<<>>)
    BY DEF Init, Finished, Idle
  <1>6. Here(0)
    BY <1>3, <1>4, <1>5, Zenon DEF Here, ScriptIs
  <1>7. 0 \in 0 .. n
    BY <1>3
  <1>8. QED
    BY <1>1, <1>2, <1>4, <1>6, <1>7 DEF LogInv

LEMMA SameStory ==
    ASSUME load' = load
    PROVE  /\ Story' = Story /\ Alone' = Alone
           /\ \A k : ToldUpTo(k)' = ToldUpTo(k) /\ ReadUpTo(k)' = ReadUpTo(k)
  BY DEF Story, Alone, ToldUpTo, ReadUpTo, Called, Reported

\* Who is silent has nothing to tell.
LEMMA OnlyTheTargetTells ==
    ASSUME Alone, NEW p \in Procs, p # Target
    PROVE  Len(Script[p]) = 0
  <1>1. PICK q : q = [k \in DOMAIN load.story[p] |-> Calls(load.story[p][k])]
    OBVIOUS
  <1>2. load.story[p] = <<>>
    BY DEF Alone
  <1>3. q = <<>> /\ Len(q) = 0
    BY <1>1, <1>2
  <1>4. Script[p] = FlattenSeq(q)
    BY <1>1 DEF Script
  <1>5. FlattenSeq(q) = q
    BY <1>3 DEF FlattenSeq
  <1>6. QED
    BY <1>3, <1>4, <1>5

\* Where the reader is, a step later.
LEMMA HereNext ==
    ASSUME load' = load, NEW k, NEW base, base = ReadUpTo(k), told'[Target] = ToldUpTo(k),
           Finished(base)'
    PROVE  Here(k)'
  <1>1. ToldUpTo(k)' = ToldUpTo(k) /\ ReadUpTo(k)' = ReadUpTo(k)
    BY SameStory
  <1>2. QED
    BY <1>1 DEF Here

LEMMA InsideNext ==
    ASSUME load' = load, NEW k, NEW n, n = Len(Story), k + 1 \in 1 .. n,
           NEW s, s = Story[k + 1], NEW base, base = ReadUpTo(k),
           NEW len, len = Len(Calls(s)), NEW j \in 1 .. len, NEW t, t = ToldUpTo(k),
           told'[Target] = t + j, Within(s, base, j)'
    PROVE  Inside(k)'
  <1>1. ToldUpTo(k)' = t /\ ReadUpTo(k)' = base /\ Story' = Story
    BY SameStory
  <1>2. s \in {Story[k + 1]}' /\ base \in {ReadUpTo(k)}' /\ k + 1 \in (1 .. Len(Story))'
    BY <1>1
  <1>3. j \in (1 .. Len(Calls(s)))'
    BY DEF Calls
  <1>4. QED
    BY <1>1, <1>2, <1>3 DEF Inside

LEMMA InsideFacts ==
    ASSUME load \in Loads, NEW k \in 0 .. Len(Story), Inside(k)
    PROVE  \E s, base, len, j :
              /\ k + 1 \in 1 .. Len(Story) /\ s = Story[k + 1] /\ IsStep(s)
              /\ base = ReadUpTo(k) /\ len = Len(Calls(s)) /\ len \in Nat \ {0} /\ j \in 1 .. len
              /\ told[Target] = ToldUpTo(k) + j /\ Within(s, base, j) /\ StepIs(k, s, len)
  <1>1. PICK n \in Nat : n = Len(Story) /\ DOMAIN Story = 1 .. n
    BY StoryFacts DEF IsList
  <1>2. k + 1 \in 1 .. n /\ k \in 0 .. n - 1
    BY <1>1 DEF Inside
  <1>3. PICK s, base, j : /\ s = Story[k + 1] /\ base = ReadUpTo(k) /\ j \in 1 .. Len(Calls(s))
                          /\ told[Target] = ToldUpTo(k) + j /\ Within(s, base, j)
    BY DEF Inside
  <1>4. IsStep(s)
    BY <1>1, <1>2, <1>3, StoryFacts
  <1>5. PICK len : len = Len(Calls(s))
    OBVIOUS
  <1>6. len \in Nat \ {0}
    BY <1>4, <1>5, CallsAreLists
  <1>7. StepIs(k, s, len)
    BY <1>1, <1>2, <1>3, <1>5, ScriptFacts
  <1>8. QED
    BY <1>1, <1>2, <1>3, <1>4, <1>5, <1>6, <1>7

\* The next call of the target is told.
LEMMA TellAtPlace ==
    ASSUME load \in Loads, load' = load, text = <<>>, UNCHANGED readerVars,
           NEW n, n = Len(Story), NEW k \in 0 .. n, Here(k) \/ Inside(k),
           NEW t \in Nat, t = told[Target], told'[Target] = t + 1,
           t < Len(Script[Target]), text' = Script[Target][t + 1]
    PROVE  Inside(k)'
  <1>1. n \in Nat /\ DOMAIN Story = 1 .. n
    BY StoryFacts DEF IsList
  <1>2. PICK u \in Nat : u = ToldUpTo(k)
    BY <1>1, ScriptFacts DEF ScriptIs
  <1>3. CASE Here(k)
    <2>1. PICK base : base = ReadUpTo(k) /\ Finished(base)
      BY <1>3 DEF Here
    <2>2. t = u
      BY <1>2, <1>3 DEF Here
    <2>3. k # n
      <3>1. Len(Script[Target]) = ToldUpTo(n)
        BY ScriptFacts DEF ScriptIs
      <3>2. k = n => t = Len(Script[Target])
        BY <1>2, <2>2, <3>1
      <3>3. QED
        BY <3>2
    <2>4. k \in 0 .. n - 1 /\ k + 1 \in 1 .. n
      BY <1>1, <2>3
    <2>5. PICK s, len : s = Story[k + 1] /\ len = Len(Calls(s))
      OBVIOUS
    <2>6. IsStep(s)
      BY <1>1, <2>4, <2>5, StoryFacts
    <2>7. len \in Nat \ {0}
      BY <2>5, <2>6, CallsAreLists
    <2>8. StepIs(k, s, len)
      BY <2>4, <2>5, ScriptFacts
    <2>9. 1 \in 1 .. len
      BY <2>7
    <2>10. text' = Calls(s)[1]
      BY <1>2, <2>2, <2>8, <2>9 DEF StepIs
    <2>11. Within(s, base, 1)'
      BY <2>1, <2>6, <2>10, TellFirst
    <2>12. QED
      BY <1>2, <2>1, <2>2, <2>4, <2>5, <2>9, <2>11, InsideNext
  <1>4. CASE Inside(k)
    <2>1. PICK s, base, len, j :
             /\ k + 1 \in 1 .. n /\ s = Story[k + 1] /\ IsStep(s)
             /\ base = ReadUpTo(k) /\ len = Len(Calls(s)) /\ len \in Nat \ {0} /\ j \in 1 .. len
             /\ told[Target] = ToldUpTo(k) + j /\ Within(s, base, j) /\ StepIs(k, s, len)
      BY <1>4, InsideFacts
    <2>2. PICK next : next = j + 1 /\ next \in 1 .. len
      BY <2>1, MoreToTell
    <2>3. t + 1 = u + next
      BY <1>2, <2>1, <2>2
    <2>4. text' = Calls(s)[next]
      BY <1>2, <2>1, <2>2, <2>3 DEF StepIs
    <2>5. Within(s, base, next)'
      BY <2>1, <2>2, <2>4, TellMore
    <2>6. told'[Target] = u + next
      BY <2>3
    <2>7. QED
      BY <1>2, <2>1, <2>2, <2>5, <2>6, InsideNext
  <1>5. QED
    BY <1>3, <1>4

\* A line is read.
LEMMA ReadAtPlace ==
    ASSUME load \in Loads, ReadLine, NEW n, n = Len(Story), NEW k \in 0 .. n, Here(k) \/ Inside(k)
    PROVE  k + 1 \in 1 .. n /\ (Inside(k)' \/ Here(k + 1)')
  <1>1. load' = load /\ text # <<>> /\ told' = told
    BY LineDecides
  <1>2. n \in Nat
    BY StoryFacts DEF IsList
  <1>3. Inside(k)
    BY <1>1 DEF Here, Finished
  <1>4. PICK s, base, len, j :
           /\ k + 1 \in 1 .. n /\ s = Story[k + 1] /\ IsStep(s)
           /\ base = ReadUpTo(k) /\ len = Len(Calls(s)) /\ len \in Nat \ {0} /\ j \in 1 .. len
           /\ told[Target] = ToldUpTo(k) + j /\ Within(s, base, j) /\ StepIs(k, s, len)
    BY <1>3, InsideFacts
  <1>5. base \in Seq(Elements(Story))
    BY <1>4, ScriptFacts DEF ScriptIs
  <1>6. Goes(s, base, j)
    BY <1>4, <1>5, LineGoes
  <1>7. CASE Within(s, base, j)'
    <2>1. PICK t : t = ToldUpTo(k)
      OBVIOUS
    <2>2. told'[Target] = t + j
      BY <1>1, <1>4, <2>1
    <2>3. QED
      BY <1>1, <1>4, <1>7, <2>1, <2>2, InsideNext
  <1>8. CASE Behind(s, base, j)
    <2>1. PICK i, after : i = k + 1 /\ after = base \o Kept(s)
      OBVIOUS
    <2>2. j = len /\ Finished(after)'
      BY <1>4, <1>8, <2>1 DEF Behind
    <2>3. after = ReadUpTo(i) /\ told'[Target] = ToldUpTo(i)
      BY <1>1, <1>4, <2>1, <2>2 DEF StepIs
    <2>4. Here(i)'
      BY <1>1, <2>2, <2>3, HereNext
    <2>5. QED
      BY <1>4, <2>1, <2>4
  <1>9. QED
    BY <1>6, <1>7, <1>8 DEF Goes

\* All is told.
LEMMA EndAtPlace ==
    ASSUME load \in Loads, text = <<>>, told[Target] = Len(Script[Target]),
           NEW n, n = Len(Story), NEW k \in 0 .. n, Here(k) \/ Inside(k)
    PROVE  k = n /\ Here(n)
  <1>1. n \in Nat /\ DOMAIN Story = 1 .. n
    BY StoryFacts DEF IsList
  <1>2. PICK u \in Nat : u = ToldUpTo(k)
    BY ScriptFacts DEF ScriptIs
  <1>3. ~Inside(k)
    <2> SUFFICES ASSUME Inside(k) PROVE FALSE
      OBVIOUS
    <2>1. PICK s, base, len, j :
           /\ k + 1 \in 1 .. n /\ s = Story[k + 1] /\ IsStep(s)
           /\ base = ReadUpTo(k) /\ len = Len(Calls(s)) /\ len \in Nat \ {0} /\ j \in 1 .. len
           /\ told[Target] = ToldUpTo(k) + j /\ Within(s, base, j) /\ StepIs(k, s, len)
      BY InsideFacts
    <2>2. j + 1 \in 1 .. len
      BY <2>1, MoreToTell
    <2>3. u + len <= told[Target] /\ told[Target] = u + j
      BY <1>2, <2>1 DEF StepIs
    <2>4. QED
      BY <1>2, <2>1, <2>2, <2>3
  <1>4. k = n
    <2> SUFFICES ASSUME k # n PROVE FALSE
      OBVIOUS
    <2>1. k \in 0 .. n - 1 /\ k + 1 \in 1 .. n
      BY <1>1
    <2>2. PICK s, len : s = Story[k + 1] /\ len = Len(Calls(s))
      OBVIOUS
    <2>3. IsStep(s)
      BY <1>1, <2>1, <2>2, StoryFacts
    <2>4. len \in Nat \ {0}
      BY <2>2, <2>3, CallsAreLists
    <2>5. StepIs(k, s, len)
      BY <2>1, <2>2, ScriptFacts
    <2>6. u + len <= u
      BY <1>2, <1>3, <2>5 DEF StepIs, Here
    <2>7. QED
      BY <1>2, <2>4, <2>6
  <1>5. QED
    BY <1>3, <1>4

\* Nothing happens.
LEMMA StutterAtPlace ==
    ASSUME load \in Loads, UNCHANGED vars, NEW n, n = Len(Story), NEW k \in 0 .. n,
           Here(k) \/ Inside(k)
    PROVE  Here(k)' \/ Inside(k)'
  <1>1. load' = load /\ told' = told /\ text' = text /\ steps' = steps
        /\ pendingSearch' = pendingSearch /\ pendingScope' = pendingScope /\ pendingMap' = pendingMap
    BY DEF vars
  <1>2. ASSUME Here(k) PROVE Here(k)'
    <2>1. PICK base : base = ReadUpTo(k) /\ Finished(base) /\ told[Target] = ToldUpTo(k)
      BY <1>2 DEF Here
    <2>2. Finished(base)'
      BY <1>1, <2>1 DEF Finished, Idle
    <2>3. QED
      BY <1>1, <2>1, <2>2, HereNext
  <1>3. ASSUME NEW s, NEW base, NEW j, Within(s, base, j) PROVE Within(s, base, j)'
    <2>1. Idle' <=> Idle
      BY <1>1 DEF Idle
    <2>2. \A i : Tried(s, i)' <=> Tried(s, i)
      BY <1>1 DEF Tried
    <2>3. \A o : Scoped(s, o)' <=> Scoped(s, o)
      BY <1>1 DEF Scoped
    <2>4. Generated(s)' <=> Generated(s)
      BY <1>1 DEF Generated
    <2>5. /\ InNeeded(s, base, j) => InNeeded(s, base, j)'
          /\ InPlain(s, base, j) => InPlain(s, base, j)'
          /\ InBind(s, base, j) => InBind(s, base, j)'
          /\ InOther(s, base, j) => InOther(s, base, j)'
      BY <1>1, <2>1, Zenon DEF InNeeded, InPlain, InBind, InOther
    <2>6. InSearch(s, base, j) => InSearch(s, base, j)'
      BY <1>1, <2>1, <2>2, Zenon DEF InSearch
    <2>7. InLinkMap(s, base, j) => InLinkMap(s, base, j)'
      BY <1>1, <2>1, <2>4, Zenon DEF InLinkMap
    <2>8. InScope(s, base, j) => InScope(s, base, j)'
      BY <1>1, <2>1, <2>3, Zenon DEF InScope
    <2>9. QED
      BY <1>3, <2>5, <2>6, <2>7, <2>8 DEF Within
  <1>4. ASSUME Inside(k) PROVE Inside(k)'
    <2>1. PICK s, base, len, j :
             /\ k + 1 \in 1 .. n /\ s = Story[k + 1] /\ IsStep(s)
             /\ base = ReadUpTo(k) /\ len = Len(Calls(s)) /\ len \in Nat \ {0} /\ j \in 1 .. len
             /\ told[Target] = ToldUpTo(k) + j /\ Within(s, base, j) /\ StepIs(k, s, len)
      BY <1>4, InsideFacts
    <2>2. PICK t : t = ToldUpTo(k) /\ told'[Target] = t + j
      BY <1>1, <2>1
    <2>3. Within(s, base, j)'
      BY <1>3, <2>1
    <2>4. QED
      BY <1>1, <2>1, <2>2, <2>3, InsideNext
  <1>5. QED
    BY <1>2, <1>4

LEMMA TellKeepsLog ==
    ASSUME LogInv, Tell
    PROVE  LogInv'
  <1>1. load \in Loads /\ load' = load /\ text = <<>> /\ ~ended /\ ended' = ended
        /\ UNCHANGED readerVars
    BY DEF LogInv, Tell
  <1>2. CASE ~Alone
    BY <1>1, <1>2, SameStory DEF LogInv
  <1>3. CASE Alone
    <2>1. PICK p \in Procs : /\ told[p] < Len(Script[p])
                             /\ text' = Script[p][told[p] + 1]
                             /\ told' = [told EXCEPT ![p] = @ + 1]
      BY DEF Tell
    <2>2. told \in [Procs -> Nat] /\ \A q \in Procs \ {Target} : told[q] = 0
      BY <1>3 DEF LogInv
    <2>3. p = Target
      <3> SUFFICES ASSUME p # Target PROVE FALSE
        OBVIOUS
      <3>1. told[p] = 0 /\ Len(Script[p]) = 0
        BY <1>3, <2>2, OnlyTheTargetTells
      <3>2. QED
        BY <2>1, <3>1
    <2>4. PICK t \in Nat : t = told[Target]
      BY <2>2, LoadsAssumption
    <2>5. /\ told'[Target] = t + 1 /\ told' \in [Procs -> Nat]
          /\ \A q \in Procs \ {Target} : told'[q] = 0
      BY <2>1, <2>2, <2>3, <2>4, LoadsAssumption
    <2>6. t < Len(Script[Target]) /\ text' = Script[Target][t + 1]
      BY <2>1, <2>3, <2>4
    <2>7. PICK n : n = Len(Story)
      OBVIOUS
    <2>8. PICK k \in 0 .. n : Here(k) \/ Inside(k)
      BY <1>1, <1>3, <2>7 DEF LogInv
    <2>9. Inside(k)'
      BY <1>1, <2>4, <2>5, <2>6, <2>7, <2>8, TellAtPlace
    <2>10. Story' = Story
      BY <1>1, SameStory
    <2>11. QED
      BY <1>1, <2>5, <2>7, <2>9, <2>10 DEF LogInv
  <1>4. QED
    BY <1>2, <1>3

LEMMA ReadKeepsLog ==
    ASSUME LogInv, ReadLine
    PROVE  LogInv'
  <1>1. load \in Loads /\ load' = load /\ text # <<>> /\ ended' = ended /\ told' = told
    BY LineDecides DEF LogInv
  <1>2. CASE ~Alone
    BY <1>1, <1>2, SameStory DEF LogInv
  <1>3. CASE Alone
    <2>1. ~ended
      BY <1>1, <1>3 DEF LogInv
    <2>2. PICK n \in Nat : n = Len(Story)
      BY <1>1, StoryFacts DEF IsList
    <2>3. PICK k \in 0 .. n : Here(k) \/ Inside(k)
      BY <1>3, <2>1, <2>2 DEF LogInv
    <2>4. k + 1 \in 1 .. n /\ (Inside(k)' \/ Here(k + 1)')
      BY <1>1, <2>2, <2>3, ReadAtPlace
    <2>5. k + 1 \in 0 .. n
      BY <2>4
    <2>6. Story' = Story /\ told \in [Procs -> Nat] /\ \A p \in Procs \ {Target} : told[p] = 0
      BY <1>1, <1>3, SameStory DEF LogInv
    <2>7. QED
      BY <1>1, <2>1, <2>2, <2>3, <2>4, <2>5, <2>6 DEF LogInv
  <1>4. QED
    BY <1>2, <1>3

LEMMA EndKeepsLog ==
    ASSUME LogInv, EndOfText
    PROVE  LogInv'
  <1>1. /\ load \in Loads /\ load' = load /\ text = <<>> /\ text' = <<>> /\ ~ended /\ ended'
        /\ told' = told /\ steps' = (steps \o ClosedSearch) \o ClosedScope
        /\ told[Target] = Len(Script[Target])
    BY LoadsAssumption DEF LogInv, EndOfText
  <1>2. CASE ~Alone
    BY <1>1, <1>2, SameStory DEF LogInv
  <1>3. CASE Alone
    <2>1. PICK n \in Nat : n = Len(Story)
      BY <1>1, StoryFacts DEF IsList
    <2>2. PICK k \in 0 .. n : Here(k) \/ Inside(k)
      BY <1>1, <1>3, <2>1 DEF LogInv
    <2>3. steps = ReadUpTo(n) /\ Idle
      BY <1>1, <2>1, <2>2, EndAtPlace DEF Here, Finished
    <2>4. PICK b : b = steps /\ b \in Seq(Elements(Story))
      BY <1>1, <2>1, <2>3, ScriptFacts DEF ScriptIs
    <2>5. ClosedSearch = <<>> /\ ClosedScope = <<>>
      BY <2>3 DEF Idle, ClosedSearch, ClosedScope
    <2>6. (b \o <<>>) \o <<>> = b
      BY <2>4
    <2>7. steps' = ReadUpTo(n)
      BY <1>1, <2>3, <2>4, <2>5, <2>6
    <2>8. /\ Story' = Story /\ told \in [Procs -> Nat] /\ \A p \in Procs \ {Target} : told[p] = 0
          /\ ReadUpTo(n)' = ReadUpTo(n)
      BY <1>1, <1>3, SameStory DEF LogInv
    <2>9. QED
      BY <1>1, <2>1, <2>7, <2>8 DEF LogInv
  <1>4. QED
    BY <1>2, <1>3

LEMMA StutterKeepsLog ==
    ASSUME LogInv, UNCHANGED vars
    PROVE  LogInv'
  <1>1. load' = load /\ told' = told /\ text' = text /\ ended' = ended /\ steps' = steps
    BY DEF vars
  <1>2. Story' = Story /\ (Alone' <=> Alone)
    BY <1>1, SameStory
  <1>3. load \in Loads
    BY DEF LogInv
  <1>4. CASE ~Alone
    BY <1>1, <1>2, <1>3, <1>4 DEF LogInv
  <1>5. CASE Alone
    <2>1. told' \in [Procs -> Nat] /\ \A p \in Procs \ {Target} : told'[p] = 0
      BY <1>1, <1>5 DEF LogInv
    <2>2. CASE ended
      <3>1. ReadUpTo(Len(Story))' = ReadUpTo(Len(Story))
        BY <1>1 DEF ReadUpTo, Reported, Story
      <3>2. text' = <<>> /\ steps' = ReadUpTo(Len(Story))
        BY <1>1, <1>5, <2>2 DEF LogInv
      <3>3. QED
        BY <1>1, <1>3, <2>1, <2>2, <3>1, <3>2 DEF LogInv
    <2>3. CASE ~ended
      <3>1. PICK n : n = Len(Story)
        OBVIOUS
      <3>2. PICK k \in 0 .. n : Here(k) \/ Inside(k)
        BY <1>5, <2>3, <3>1 DEF LogInv
      <3>3. Here(k)' \/ Inside(k)'
        BY <1>3, <3>1, <3>2, StutterAtPlace
      <3>4. k \in (0 .. Len(Story))'
        BY <1>2, <3>1, <3>2
      <3>5. QED
        BY <1>1, <1>3, <2>1, <2>3, <3>3, <3>4 DEF LogInv
    <2>4. QED
      BY <2>2, <2>3
  <1>6. QED
    BY <1>4, <1>5

LEMMA NextLogInv == LogInv /\ [Next]_vars => LogInv'
  <1> SUFFICES ASSUME LogInv, [Next]_vars PROVE LogInv'
    OBVIOUS
  <1>1. CASE Tell
    BY <1>1, TellKeepsLog
  <1>2. CASE EndOfText
    BY <1>2, EndKeepsLog
  <1>3. CASE ReadLine
    BY <1>3, ReadKeepsLog
  <1>4. CASE UNCHANGED vars
    BY <1>4, StutterKeepsLog
  <1>5. QED
    BY <1>1, <1>2, <1>3, <1>4 DEF Next, ReadLine

\* What was read when the log ends.
LEMMA LogInvImplies == LogInv => LogIsReadBack
  <1> SUFFICES ASSUME LogInv, ended, Alone
               PROVE  steps = FlattenSeq([k \in DOMAIN Story |-> Kept(Story[k])])
    BY DEF LogIsReadBack, Story
  <1>1. steps = ReadUpTo(Len(Story)) /\ load \in Loads
    BY DEF LogInv
  <1>2. PICK n : n = Len(Story)
    OBVIOUS
  <1>3. FlattenSeq(Reported) = ReadUpTo(n)
    BY <1>1, <1>2, ScriptFacts DEF ScriptIs
  <1>4. QED
    BY <1>1, <1>2, <1>3 DEF Reported

\* A log that one process wrote is read back: parse_ld_debug returns the steps that
\* ld.so told of, each once, in their order, each with all that its lines say of
\* it, however many they are and however long their lists.
THEOREM LogIsRead == Spec => []LogIsReadBack
  <1>1. Init => LogInv
    BY InitLogInv
  <1>2. LogInv /\ [Next]_vars => LogInv'
    BY NextLogInv
  <1>3. LogInv => LogIsReadBack
    BY LogInvImplies
  <1>4. QED
    BY <1>1, <1>2, <1>3, PTL DEF Spec

-----------------------------------------------------------------------------
(* Where the steps of a story are read to.                                 *)

\* What never falls from one to the next never falls.
LEMMA Rises ==
    ASSUME NEW n \in Nat, NEW g, \A k \in 0 .. n : g[k] \in Nat,
           \A k \in 1 .. n : g[k - 1] <= g[k]
    PROVE  \A j, k \in 0 .. n : j <= k => g[j] <= g[k]
  <1> SUFFICES ASSUME NEW j \in 0 .. n, NEW k \in 0 .. n, j <= k
               PROVE  g[j] <= g[k]
    OBVIOUS
  <1> DEFINE bad == {x \in j .. n : ~(g[j] <= g[x])}
  <1>1. bad = {}
    <2> SUFFICES ASSUME bad # {} PROVE FALSE
      OBVIOUS
    <2>1. bad \in SUBSET Nat /\ \A x \in bad : x \in j .. n /\ ~(g[j] <= g[x])
      OBVIOUS
    <2>2. \A x \in j .. n : x \notin bad => g[j] <= g[x]
      OBVIOUS
    <2> HIDE DEF bad
    <2>3. PICK x \in bad : \A y \in bad : x <= y
      BY <2>1, LeastOf
    <2>4. x \in j .. n /\ ~(g[j] <= g[x]) /\ x \in 0 .. n
      BY <2>1, <2>3
    <2>5. x # j
      BY <2>4
    <2>6. PICK p : p = x - 1 /\ p \in j .. n /\ p \in 0 .. n /\ x \in 1 .. n /\ ~(x <= p)
      <3>1. x - 1 \in j .. n /\ x - 1 \in 0 .. n /\ x \in 1 .. n /\ ~(x <= x - 1)
        BY <2>4, <2>5
      <3>2. QED
        BY <3>1
    <2>7. g[j] <= g[p]
      BY <2>2, <2>3, <2>6
    <2>8. PICK a \in Nat, b \in Nat, c \in Nat : a = g[j] /\ b = g[p] /\ c = g[x]
      BY <2>4, <2>6
    <2>9. b <= c
      BY <2>6, <2>8
    <2>10. QED
      BY <2>4, <2>7, <2>8, <2>9
  <1>2. QED
    BY <1>1

\* What climbs by one at most reaches all in between.
LEMMA Climbs ==
    ASSUME NEW n \in Nat, NEW g, \A k \in 0 .. n : g[k] \in Nat, g[0] = 0,
           \A k \in 1 .. n : g[k] = g[k - 1] \/ g[k] = g[k - 1] + 1
    PROVE  /\ \A j, k \in 0 .. n : j <= k => g[j] <= g[k]
           /\ \A i \in 1 .. g[n] : \E k \in 1 .. n : g[k] = i /\ g[k - 1] = i - 1
  <1>1. \A j, k \in 0 .. n : j <= k => g[j] <= g[k]
    <2>1. ASSUME NEW k \in 1 .. n PROVE g[k - 1] <= g[k]
      <3>1. k - 1 \in 0 .. n
        OBVIOUS
      <3>2. PICK a \in Nat : a = g[k - 1]
        BY <3>1
      <3>3. QED
        BY <3>2
    <2>2. QED
      BY <2>1, Rises
  <1>2. ASSUME NEW i \in 1 .. g[n]
        PROVE  \E k \in 1 .. n : g[k] = i /\ g[k - 1] = i - 1
    <2>1. n \in 0 .. n /\ i \in Nat \ {0}
      OBVIOUS
    <2>2. PICK bad : bad = {x \in 0 .. n : i <= g[x]}
      OBVIOUS
    <2>3. bad \in SUBSET Nat /\ n \in bad
      BY <2>1, <2>2
    <2>4. PICK k \in bad : \A y \in bad : k <= y
      BY <2>3, LeastOf
    <2>5. k \in 0 .. n /\ i <= g[k]
      BY <2>2
    <2>6. k # 0
      BY <2>1, <2>5
    <2>7. PICK p : p = k - 1 /\ p \in 0 .. n /\ k \in 1 .. n /\ ~(k <= p)
      <3>1. k - 1 \in 0 .. n /\ k \in 1 .. n /\ ~(k <= k - 1)
        BY <2>5, <2>6
      <3>2. QED
        BY <3>1
    <2>8. ~(i <= g[p])
      BY <2>2, <2>4, <2>7
    <2>9. PICK b \in Nat, c \in Nat : b = g[p] /\ c = g[k]
      BY <2>5, <2>7
    <2>10. c = b \/ c = b + 1
      BY <2>7, <2>9
    <2>11. c = i /\ b = i - 1
      BY <2>1, <2>5, <2>8, <2>9, <2>10
    <2>12. QED
      BY <2>7, <2>9, <2>11
  <1>3. QED
    BY <1>1, <1>2

\* The index of step j of the story among those that are read, if it leaves any.
Place(j) == Len(ReadUpTo(j))
Leaves(j) == Story[j].kind # "Other"

PlacesClimb(n) ==
    /\ \A k \in 0 .. n : Place(k) \in Nat /\ ReadUpTo(k) \in Seq(Elements(Story))
    /\ \A j, k \in 0 .. n : j <= k => Place(j) <= Place(k)
    /\ \A k \in 1 .. n : Leaves(k) => Place(k) = Place(k - 1) + 1
    /\ \A k \in 0 .. n : \A i \in 1 .. Place(k) : \E j \in 1 .. k : Place(j) = i /\ Leaves(j)

LEMMA PlaceFacts ==
    ASSUME load \in Loads, NEW n, n = Len(Story)
    PROVE  PlacesClimb(n)
  <1>1. n \in Nat /\ DOMAIN Story = 1 .. n
    BY StoryFacts DEF IsList
  <1>2. PICK g : g = [k \in 0 .. n |-> Place(k)]
    OBVIOUS
  <1>3. \A k \in 0 .. n : g[k] = Place(k) /\ g[k] \in Nat /\ ReadUpTo(k) \in Seq(Elements(Story))
    BY <1>2, ScriptFacts DEF ScriptIs, Place
  <1>4. g[0] = 0
    <2>1. ReadUpTo(0) = <<>> /\ 0 \in 0 .. n
      BY <1>1, ScriptFacts DEF ScriptIs
    <2>2. QED
      BY <1>3, <2>1 DEF Place
  <1>5. ASSUME NEW k \in 1 .. n
        PROVE  g[k] = g[k - 1] + (IF Leaves(k) THEN 1 ELSE 0)
    <2>1. PICK p : p = k - 1 /\ p \in 0 .. n - 1 /\ p \in 0 .. n /\ p + 1 = k /\ k \in 0 .. n
      <3>1. k - 1 \in 0 .. n - 1 /\ k - 1 \in 0 .. n /\ (k - 1) + 1 = k /\ k \in 0 .. n
        BY <1>1
      <3>2. QED
        BY <3>1
    <2>2. PICK s : s = Story[k]
      OBVIOUS
    <2>3. StepIs(p, s, Len(Calls(s)))
      BY <2>1, <2>2, ScriptFacts
    <2>4. PICK a, b : a = ReadUpTo(p) /\ b = ReadUpTo(k) /\ b = a \o Kept(s)
      BY <2>1, <2>3 DEF StepIs
    <2>5. a \in Seq(Elements(Story)) /\ s \in Elements(Story)
      BY <1>1, <1>3, <2>1, <2>2, <2>4 DEF Elements
    <2>6. CASE Leaves(k)
      <3>1. b = a \o <<s>>
        BY <2>2, <2>4, <2>6 DEF Leaves, Kept
      <3>2. Len(b) = Len(a) + 1
        BY <2>5, <3>1
      <3>3. QED
        BY <1>3, <2>1, <2>4, <2>6, <3>2 DEF Place
    <2>7. CASE ~Leaves(k)
      <3>1. b = a \o <<>>
        BY <2>2, <2>4, <2>7 DEF Leaves, Kept
      <3>2. Len(b) = Len(a) + 0
        BY <2>5, <3>1
      <3>3. QED
        BY <1>3, <2>1, <2>4, <2>7, <3>2 DEF Place
    <2>8. QED
      BY <2>6, <2>7
  <1>6. ASSUME NEW k \in 1 .. n PROVE k - 1 \in 0 .. n /\ k \in 0 .. n
    BY <1>1
  <1>7. \A k \in 1 .. n : g[k] = g[k - 1] \/ g[k] = g[k - 1] + 1
    <2> SUFFICES ASSUME NEW k \in 1 .. n PROVE g[k] = g[k - 1] \/ g[k] = g[k - 1] + 1
      OBVIOUS
    <2>1. g[k - 1] \in Nat
      BY <1>3, <1>6
    <2>2. QED
      BY <1>5, <2>1
  <1>8. \A j, k \in 0 .. n : j <= k => g[j] <= g[k]
    BY <1>1, <1>3, <1>4, <1>7, Climbs
  <1>9. ASSUME NEW k \in 0 .. n, NEW i \in 1 .. Place(k)
        PROVE  \E j \in 1 .. k : Place(j) = i /\ Leaves(j)
    <2>1. /\ k \in Nat /\ i \in 1 .. g[k]
          /\ \A j \in 0 .. k : g[j] \in Nat
          /\ \A j \in 1 .. k : g[j] = g[j - 1] \/ g[j] = g[j - 1] + 1
      BY <1>1, <1>3, <1>7
    <2>2. PICK j \in 1 .. k : g[j] = i /\ g[j - 1] = i - 1
      BY <1>4, <2>1, Climbs
    <2>3. j \in 1 .. n /\ i \in Nat
      BY <1>1, <2>1
    <2>4. Leaves(j)
      BY <1>5, <2>2, <2>3
    <2>5. QED
      BY <1>3, <1>6, <2>2, <2>3, <2>4
  <1>10. QED
    <2>1. \A k \in 0 .. n : Place(k) \in Nat /\ ReadUpTo(k) \in Seq(Elements(Story))
      BY <1>3
    <2>2. \A j, k \in 0 .. n : j <= k => Place(j) <= Place(k)
      BY <1>3, <1>8
    <2>3. \A k \in 1 .. n : Leaves(k) => Place(k) = Place(k - 1) + 1
      BY <1>3, <1>5, <1>6
    <2>4. QED
      BY <1>9, <2>1, <2>2, <2>3 DEF PlacesClimb

LEMMA PlaceHolds ==
    ASSUME load \in Loads, NEW n, n = Len(Story), NEW k \in 0 .. n, NEW j \in 1 .. k, Leaves(j)
    PROVE  Place(j) \in 1 .. Place(k) /\ ReadUpTo(k)[Place(j)] = Story[j]
  <1>1. n \in Nat /\ DOMAIN Story = 1 .. n
    BY StoryFacts DEF IsList
  <1>2. PICK E : E = Elements(Story)
    OBVIOUS
  <1>3. \A i \in 1 .. n : Story[i] \in E
    BY <1>1, <1>2 DEF Elements
  <1>4. PICK r : r = Reported
    OBVIOUS
  <1>5. DOMAIN r = 1 .. n /\ r = [i \in 1 .. n |-> r[i]] /\ \A i \in 1 .. n : r[i] = Kept(Story[i])
    BY <1>1, <1>4 DEF Reported
  <1>6. \A i \in 1 .. n : r[i] \in Seq(E)
    BY <1>3, <1>5, KeptIsList
  <1>7. PICK T : T = Seq(E)
    OBVIOUS
  <1>8. r \in Seq(T) /\ Len(r) = n
    BY <1>1, <1>5, <1>6, <1>7
  <1>9. PICK q : q = SubSeq(r, 1, k)
    OBVIOUS
  <1>10. q \in Seq(T) /\ Len(q) = k /\ \A i \in 1 .. k : q[i] = r[i]
    BY <1>1, <1>8, <1>9
  <1>11. PICK p : p = j - 1 /\ p \in 0 .. k - 1 /\ p + 1 = j /\ j \in 1 .. n /\ p \in 0 .. n /\ k \in Nat
                  /\ j \in 0 .. n /\ p <= k /\ p \in Nat /\ j <= k
    <2>1. /\ j - 1 \in 0 .. k - 1 /\ (j - 1) + 1 = j /\ j \in 1 .. n /\ j - 1 \in 0 .. n /\ k \in Nat
          /\ j \in 0 .. n /\ j - 1 <= k /\ j - 1 \in Nat /\ j <= k
      BY <1>1
    <2>2. QED
      BY <2>1
  <1>12. SubSeq(q, 1, p) = SubSeq(r, 1, p)
    <2>1. PICK a, b : a = SubSeq(q, 1, p) /\ b = SubSeq(r, 1, p)
      OBVIOUS
    <2>2. p \in 0 .. k /\ p \in 0 .. n
      BY <1>11
    <2>3. a \in Seq(T) /\ Len(a) = p /\ \A i \in 1 .. p : a[i] = q[i]
      BY <1>10, <2>1, <2>2
    <2>4. b \in Seq(T) /\ Len(b) = p /\ \A i \in 1 .. p : b[i] = r[i]
      BY <1>8, <2>1, <2>2
    <2>5. \A i \in 1 .. p : a[i] = b[i]
      BY <1>10, <2>2, <2>3, <2>4
    <2>6. QED
      BY <2>1, <2>3, <2>4, <2>5
  <1>13. FirstFlat(q, p) = ReadUpTo(p) /\ FlattenSeq(q) = ReadUpTo(k)
    BY <1>4, <1>9, <1>12 DEF FirstFlat, ReadUpTo
  <1>14. q[p + 1] = <<Story[j]>>
    BY <1>5, <1>10, <1>11 DEF Kept, Leaves
  <1>15. Place(j) = Place(p) + 1 /\ Place(p) \in Nat /\ Place(j) <= Place(k) /\ Place(k) \in Nat
    <2>1. PlacesClimb(n) /\ k \in 0 .. n
      BY PlaceFacts
    <2>2. QED
      BY <1>11, <2>1 DEF PlacesClimb
  <1>16. ReadUpTo(k)[Place(p) + 1] = Story[j]
    <2>1. q \in Seq(Seq(E)) /\ p \in 0 .. Len(q) - 1
      BY <1>7, <1>10, <1>11
    <2>2. Len(q[p + 1]) = 1 /\ q[p + 1][1] = Story[j]
      BY <1>14
    <2>3. 1 \in 1 .. Len(q[p + 1])
      BY <2>2
    <2>4. FlattenSeq(q)[Len(FirstFlat(q, p)) + 1] = q[p + 1][1]
      BY <2>1, <2>3, FlatAt
    <2>5. QED
      BY <1>13, <2>2, <2>4 DEF Place
  <1>17. QED
    BY <1>15, <1>16

\* The startup is the story up to the one step that enters the program.
StartIs(n, c) ==
    /\ c \in 1 .. n /\ Len(Startup) = c /\ DOMAIN Startup = 1 .. c
    /\ \A j \in 1 .. c : Startup[j] = Story[j]
    /\ \A j \in 1 .. n : Story[j].kind = "TransferControl" <=> j = c

LEMMA StartFacts ==
    ASSUME load \in Loads, NEW n, n = Len(Story)
    PROVE  \E c : StartIs(n, c)
  <1>1. n \in Nat /\ DOMAIN Story = 1 .. n /\ Story \in Seq(Elements(Story))
    BY StoryFacts DEF IsList
  <1>2. PICK c \in 1 .. n : \A j \in 1 .. n : Story[j].kind = "TransferControl" <=> j = c
    <2>1. EntersOnce(load)
      BY StoriesAssumption
    <2>2. \E k \in DOMAIN Story : \A j \in DOMAIN Story : Story[j].kind = "TransferControl" <=> j = k
      BY <2>1, Zenon DEF EntersOnce, Story
    <2>3. PICK D : D = DOMAIN Story
      OBVIOUS
    <2>4. PICK c \in D : \A j \in D : Story[j].kind = "TransferControl" <=> j = c
      BY <2>2, <2>3
    <2>5. D = 1 .. n
      BY <1>1, <2>3
    <2>6. QED
      BY <2>4, <2>5
  <1>3. (CHOOSE k \in DOMAIN Story : Story[k].kind = "TransferControl") = c
    BY <1>1, <1>2
  <1>4. Startup = SubSeq(Story, 1, c)
    BY <1>3 DEF Startup, StartupOf, Story
  <1>5. Len(Startup) = c /\ DOMAIN Startup = 1 .. c /\ \A j \in 1 .. c : Startup[j] = Story[j]
    BY <1>1, <1>2, <1>4
  <1>6. QED
    BY <1>2, <1>5 DEF StartIs

-----------------------------------------------------------------------------
(* Until it enters the program, nobody but the target tells.               *)

\* A line that makes a step at once is of the step that is told.
IsOf(line, s) == line.is = "plain" => line.what = s
PlainIs(call, s) == \A i \in DOMAIN call : IsOf(call[i], s)

LEMMA PlainOfLines ==
    ASSUME NEW s
    PROVE  /\ \A a : IsOf(a, s) => PlainIs(<<a>>, s)
           /\ \A a, b : IsOf(a, s) /\ IsOf(b, s) => PlainIs(<<a, b>>, s)
           /\ \A a, b, c : IsOf(a, s) /\ IsOf(b, s) /\ IsOf(c, s) => PlainIs(<<a, b, c>>, s)
           /\ \A a, b, c, d : IsOf(a, s) /\ IsOf(b, s) /\ IsOf(c, s) /\ IsOf(d, s) =>
                 PlainIs(<<a, b, c, d>>, s)
  BY DEF PlainIs

LEMMA PlainOfCalls ==
    ASSUME NEW s, NEW a, NEW b, NEW c, PlainIs(a, s), PlainIs(b, s), PlainIs(c, s),
           NEW calls, calls = <<a>> \/ calls = <<a, b>> \/ calls = <<a, b, c>>
    PROVE  \A y \in 1 .. Len(calls) : PlainIs(calls[y], s)
  <1>1. CASE calls = <<a>>
    <2>1. Len(calls) = 1 /\ calls[1] = a
      BY <1>1
    <2>2. \A y \in 1 .. 1 : y = 1
      OBVIOUS
    <2>3. QED
      BY <2>1, <2>2
  <1>2. CASE calls = <<a, b>>
    <2>1. Len(calls) = 2 /\ calls[1] = a /\ calls[2] = b
      BY <1>2
    <2>2. \A y \in 1 .. 2 : y = 1 \/ y = 2
      OBVIOUS
    <2>3. QED
      BY <2>1, <2>2
  <1>3. CASE calls = <<a, b, c>>
    <2>1. Len(calls) = 3 /\ calls[1] = a /\ calls[2] = b /\ calls[3] = c
      BY <1>3
    <2>2. \A y \in 1 .. 3 : y = 1 \/ y = 2 \/ y = 3
      OBVIOUS
    <2>3. QED
      BY <2>1, <2>2
  <1>4. QED
    BY <1>1, <1>2, <1>3

LEMMA PlainLines ==
    ASSUME NEW s, IsStep(s)
    PROVE  \A y \in 1 .. Len(Calls(s)) : PlainIs(Calls(s)[y], s)
  <1>1. PICK calls : calls = Calls(s)
    OBVIOUS
  <1>2. ASSUME NEW is, NEW what, is # "plain" \/ what = s PROVE IsOf(Line(is, what), s)
    BY <1>2, LineFields DEF IsOf
  <1>3. IsOf(Blank, s)
    BY LineFields DEF IsOf
  <1>4. /\ \A w : /\ IsOf(Line("needed", w), s) /\ IsOf(Line("generating", w), s)
                  /\ IsOf(Line("base", w), s) /\ IsOf(Line("entry", w), s)
                  /\ IsOf(Line("object", w), s) /\ IsOf(Line("scope", w), s)
                  /\ IsOf(Line("find", w), s) /\ IsOf(Line("tried", w), s)
                  /\ IsOf(Line("other", w), s)
        /\ IsOf(Line("plain", s), s)
    BY <1>2
  <1>5. CASE s.kind = "Needed"
    <2>1. PICK a, l : l = Line("needed", <<s.file, s.by>>) /\ a = <<Blank, l>> /\ calls = <<a>>
      BY <1>1, <1>5, CallsOf
    <2>2. PlainIs(a, s)
      BY <1>3, <1>4, <2>1, PlainOfLines
    <2>3. QED
      BY <1>1, <2>1, <2>2, PlainOfCalls
  <1>6. CASE s.kind = "Search"
    <2>1. PICK n \in Nat : n = Len(s.tried) /\ IsList(s.tried)
      BY <1>6, SearchCalls DEF IsStep, Plain
    <2>2. /\ Len(calls) = n + 2 /\ calls[1] = <<Line("find", s.library)>>
          /\ \A k \in 1 .. n : calls[k + 1] = <<Line("tried", s.tried[k])>>
          /\ calls[n + 2] = <<Blank>>
      BY <1>1, <1>6, <2>1, SearchCalls
    <2>3. PlainIs(calls[1], s) /\ PlainIs(calls[n + 2], s)
      BY <1>3, <1>4, <2>2, PlainOfLines
    <2>4. ASSUME NEW k \in 1 .. n PROVE PlainIs(calls[k + 1], s)
      BY <1>3, <1>4, <2>2, PlainOfLines
    <2>5. ASSUME NEW y \in 1 .. n + 2 PROVE PlainIs(calls[y], s)
      <3>1. CASE y = 1 \/ y = n + 2
        BY <2>3, <3>1
      <3>2. CASE y # 1 /\ y # n + 2
        <4>1. y - 1 \in 1 .. n /\ (y - 1) + 1 = y
          BY <3>2
        <4>2. PICK k \in 1 .. n : k + 1 = y
          BY <4>1
        <4>3. QED
          BY <2>4, <4>2
      <3>3. QED
        BY <3>1, <3>2
    <2>6. QED
      BY <1>1, <2>2, <2>5
  <1>7. CASE s.kind = "LinkMap"
    <2>1. PICK a, b, l, m, o : /\ l = Line("generating", s.file) /\ m = Line("base", s.base)
                               /\ o = Line("entry", s.entry)
                               /\ a = <<l>> /\ b = <<m, o, Blank, Blank>> /\ calls = <<a, b>>
      BY <1>1, <1>7, CallsOf
    <2>2. PlainIs(a, s) /\ PlainIs(b, s)
      BY <1>3, <1>4, <2>1, PlainOfLines
    <2>3. QED
      BY <1>1, <2>1, <2>2, PlainOfCalls
  <1>8. CASE s.kind = "Scope"
    <2>1. PICK a, b, c, l, m : /\ l = Line("object", s.object) /\ m = Line("scope", s.order)
                               /\ a = <<l>> /\ b = <<m>> /\ c = <<Blank>> /\ calls = <<a, b, c>>
      BY <1>1, <1>8, CallsOf
    <2>2. PlainIs(a, s) /\ PlainIs(b, s) /\ PlainIs(c, s)
      BY <1>3, <1>4, <2>1, PlainOfLines
    <2>3. QED
      BY <1>1, <2>1, <2>2, PlainOfCalls
  <1>9. CASE s.kind \in Plain
    <2>1. PICK a, l : l = Line("plain", s) /\ a = <<Blank, l, Blank>> /\ calls = <<a>>
      BY <1>1, <1>9, CallsOf
    <2>2. PlainIs(a, s)
      BY <1>3, <1>4, <2>1, PlainOfLines
    <2>3. QED
      BY <1>1, <2>1, <2>2, PlainOfCalls
  <1>10. CASE s.kind = "Bind"
    <2>1. PICK a, b, l, m : /\ l = Line("other", <<>>) /\ m = Line("plain", s)
                            /\ a = <<l>> /\ b = <<m>> /\ calls = <<a, b>>
      BY <1>1, <1>10, CallsOf
    <2>2. PlainIs(a, s) /\ PlainIs(b, s)
      BY <1>3, <1>4, <2>1, PlainOfLines
    <2>3. QED
      BY <1>1, <2>1, <2>2, PlainOfCalls
  <1>11. CASE s.kind = "Other"
    <2>1. PICK a, l : l = Line("other", <<>>) /\ a = <<l, Blank>> /\ calls = <<a>>
      BY <1>1, <1>11, CallsOf
    <2>2. PlainIs(a, s)
      BY <1>3, <1>4, <2>1, PlainOfLines
    <2>3. QED
      BY <1>1, <2>1, <2>2, PlainOfCalls
  <1>12. QED
    BY <1>5, <1>6, <1>7, <1>8, <1>9, <1>10, <1>11 DEF IsStep

\* The calls of the first steps are some of the script.
CallsClimb(n) ==
    /\ \A j, k \in 0 .. n : j <= k => ToldUpTo(j) <= ToldUpTo(k)
    /\ \A k \in 0 .. n : \A x \in 1 .. ToldUpTo(k) : \E j \in 1 .. k :
          \E y \in 1 .. Len(Calls(Story[j])) : Script[Target][x] = Calls(Story[j])[y]

LEMMA CallFacts ==
    ASSUME load \in Loads, NEW n, n = Len(Story)
    PROVE  CallsClimb(n)
  <1>1. n \in Nat /\ DOMAIN Story = 1 .. n
    BY StoryFacts DEF IsList
  <1>2. PICK g : g = [k \in 0 .. n |-> ToldUpTo(k)]
    OBVIOUS
  <1>3. \A k \in 0 .. n : g[k] = ToldUpTo(k) /\ g[k] \in Nat
    BY <1>2, ScriptFacts DEF ScriptIs
  <1>4. g[0] = 0
    <2>1. ToldUpTo(0) = 0 /\ 0 \in 0 .. n
      BY <1>1, ScriptFacts DEF ScriptIs
    <2>2. QED
      BY <1>3, <2>1
  <1>5. ASSUME NEW k \in 1 .. n
        PROVE  \E p, l : /\ p = k - 1 /\ p \in 0 .. n - 1 /\ p \in 0 .. n /\ p + 1 = k /\ k \in 0 .. n
                         /\ l = Len(Calls(Story[k])) /\ l \in Nat /\ g[k] = g[p] + l
                         /\ StepIs(p, Story[k], l)
    <2>1. PICK p : p = k - 1 /\ p \in 0 .. n - 1 /\ p \in 0 .. n /\ p + 1 = k /\ k \in 0 .. n
      <3>1. k - 1 \in 0 .. n - 1 /\ k - 1 \in 0 .. n /\ (k - 1) + 1 = k /\ k \in 0 .. n
        BY <1>1
      <3>2. QED
        BY <3>1
    <2>2. PICK s, l : s = Story[k] /\ l = Len(Calls(s))
      OBVIOUS
    <2>3. StepIs(p, s, l)
      BY <2>1, <2>2, ScriptFacts
    <2>4. l \in Nat
      BY <1>1, <2>2, StoryFacts, CallsAreLists
    <2>5. g[k] = g[p] + l
      BY <1>3, <2>1, <2>3 DEF StepIs
    <2>6. QED
      BY <2>1, <2>2, <2>3, <2>4, <2>5
  <1>6. ASSUME NEW k \in 1 .. n PROVE g[k - 1] <= g[k]
    <2>1. PICK p, l : p = k - 1 /\ p \in 0 .. n /\ l \in Nat /\ g[k] = g[p] + l
      BY <1>5
    <2>2. PICK a \in Nat : a = g[p]
      BY <1>3, <2>1
    <2>3. a <= a + l
      BY <2>1, <2>2
    <2>4. QED
      BY <2>1, <2>2, <2>3
  <1>7. \A j, k \in 0 .. n : j <= k => g[j] <= g[k]
    BY <1>1, <1>3, <1>6, Rises
  <1>8. ASSUME NEW k \in 0 .. n, NEW x \in 1 .. ToldUpTo(k)
        PROVE  \E j \in 1 .. k : \E y \in 1 .. Len(Calls(Story[j])) :
                  Script[Target][x] = Calls(Story[j])[y]
    <2>1. x \in Nat /\ x # 0 /\ x <= g[k] /\ k \in Nat
      BY <1>1, <1>3
    <2>2. PICK reach : reach = {j \in 0 .. k : x <= g[j]}
      OBVIOUS
    <2>3. reach \in SUBSET Nat /\ k \in reach
      BY <2>1, <2>2
    <2>4. PICK j \in reach : \A i \in reach : j <= i
      BY <2>3, LeastOf
    <2>5. j \in 0 .. k /\ x <= g[j] /\ j # 0 /\ j \in 1 .. n /\ j \in 1 .. k
      BY <1>1, <1>4, <2>1, <2>2
    <2>6. PICK p, l : /\ p = j - 1 /\ p \in 0 .. n - 1 /\ p \in 0 .. n /\ p + 1 = j
                      /\ l = Len(Calls(Story[j])) /\ l \in Nat /\ g[j] = g[p] + l
                      /\ StepIs(p, Story[j], l)
      BY <1>5, <2>5
    <2>7. p \in 0 .. k /\ ~(j <= p)
      BY <2>5, <2>6
    <2>8. ~(x <= g[p])
      BY <2>2, <2>4, <2>7
    <2>9. PICK a \in Nat : a = g[p] /\ a = ToldUpTo(p)
      BY <1>3, <2>6
    <2>10. PICK y : y = x - a /\ y \in 1 .. l /\ a + y = x
      <3>1. x - a \in 1 .. l /\ a + (x - a) = x
        BY <2>1, <2>5, <2>6, <2>8, <2>9
      <3>2. QED
        BY <3>1
    <2>11. Script[Target][x] = Calls(Story[j])[y]
      BY <2>6, <2>9, <2>10 DEF StepIs
    <2>12. QED
      BY <2>5, <2>6, <2>10, <2>11
  <1>9. QED
    BY <1>3, <1>7, <1>8 DEF CallsClimb

LEMMA NobodyElse ==
    ASSUME load \in Loads, text = <<>>, NEW n, n = Len(Story), NEW c, StartIs(n, c),
           NEW k \in 0 .. c - 1, Here(k) \/ Inside(k), NEW p \in Procs, p # Target
    PROVE  ~HasStarted(p)
  <1>1. n \in Nat /\ DOMAIN Story = 1 .. n
    BY StoryFacts DEF IsList
  <1>2. PICK e : e = c - 1 /\ e \in 0 .. n /\ e \in 0 .. n - 1 /\ e + 1 = c /\ c \in 1 .. n /\ k <= e
                 /\ k \in 0 .. n
    <2>1. /\ c - 1 \in 0 .. n /\ c - 1 \in 0 .. n - 1 /\ (c - 1) + 1 = c /\ c \in 1 .. n /\ k <= c - 1
          /\ k \in 0 .. n
      BY <1>1 DEF StartIs
    <2>2. QED
      BY <2>1
  <1>3. CallsClimb(n) /\ \A i \in 0 .. n : ToldUpTo(i) \in Nat
    BY CallFacts, ScriptFacts DEF ScriptIs
  <1>4. told[Target] \in Nat /\ told[Target] <= ToldUpTo(e)
    <2>1. CASE Here(k)
      BY <1>2, <1>3, <2>1 DEF Here, CallsClimb
    <2>2. CASE Inside(k)
      <3>1. PICK s, base, len, j :
               /\ k + 1 \in 1 .. n /\ s = Story[k + 1] /\ IsStep(s)
               /\ base = ReadUpTo(k) /\ len = Len(Calls(s)) /\ len \in Nat \ {0} /\ j \in 1 .. len
               /\ told[Target] = ToldUpTo(k) + j /\ Within(s, base, j) /\ StepIs(k, s, len)
        BY <1>2, <2>2, InsideFacts
      <3>2. j + 1 \in 1 .. len
        BY <3>1, MoreToTell
      <3>3. k # e
        <4> SUFFICES ASSUME k = e PROVE FALSE
          OBVIOUS
        <4>1. s.kind = "TransferControl"
          BY <1>2, <3>1 DEF StartIs
        <4>2. PICK a : Calls(s) = <<a>>
          BY <4>1, CallsOf DEF Plain
        <4>3. len = 1
          BY <3>1, <4>2
        <4>4. QED
          BY <3>1, <3>2, <4>3
      <3>4. k + 1 \in 0 .. n /\ k + 1 <= e
        BY <1>2, <3>3
      <3>5. ToldUpTo(k + 1) <= ToldUpTo(e)
        BY <1>2, <1>3, <3>4 DEF CallsClimb
      <3>6. PICK u \in Nat, v \in Nat, w \in Nat : u = ToldUpTo(k) /\ v = ToldUpTo(k + 1) /\ w = ToldUpTo(e)
        BY <1>2, <1>3, <3>4
      <3>7. v = u + len
        BY <3>1, <3>6 DEF StepIs
      <3>8. told[Target] = u + j /\ u + j \in Nat /\ u + j <= w
        BY <3>1, <3>5, <3>6, <3>7
      <3>9. QED
        BY <3>6, <3>8
    <2>3. QED
      BY <2>1, <2>2
  <1>5. SUFFICES ASSUME HasStarted(p) PROVE FALSE
    OBVIOUS
  <1>6. PICK x \in 1 .. told[Target] : \E i \in DOMAIN Script[Target][x] :
            Script[Target][x][i].is = "plain" /\ Script[Target][x][i].what.kind = "TransferControl"
    BY <1>5 DEF HasStarted
  <1>7. x \in 1 .. ToldUpTo(e)
    BY <1>2, <1>3, <1>4
  <1>8. PICK j \in 1 .. e : \E y \in 1 .. Len(Calls(Story[j])) : Script[Target][x] = Calls(Story[j])[y]
    BY <1>2, <1>3, <1>7 DEF CallsClimb
  <1>9. j \in 1 .. n /\ j # c
    BY <1>2
  <1>10. PICK s : s = Story[j] /\ IsStep(s)
    BY <1>1, <1>9, StoryFacts
  <1>11. PlainIs(Script[Target][x], s)
    BY <1>8, <1>10, PlainLines
  <1>12. s.kind = "TransferControl"
    BY <1>6, <1>11 DEF PlainIs, IsOf
  <1>13. QED
    BY <1>9, <1>10, <1>12 DEF StartIs

-----------------------------------------------------------------------------
(* What is read grows.                                                     *)

Extended(a, b) ==
    IsList(b) /\ Len(a) <= Len(b) /\ \A i \in 1 .. Len(a) : b[i] = a[i]

LEMMA ListLength ==
    ASSUME NEW s, IsList(s)
    PROVE  Len(s) \in Nat /\ DOMAIN s = 1 .. Len(s)
  BY DEF IsList

LEMMA ConcatExtends ==
    ASSUME NEW a, NEW b, IsList(a), IsList(b)
    PROVE  IsList(a \o b) /\ Extended(a, a \o b)
  <1>1. PICK X : X = Elements(a) \cup Elements(b)
    OBVIOUS
  <1>2. Elements(a) \subseteq X /\ Elements(b) \subseteq X
    BY <1>1
  <1>3. a \in Seq(Elements(a)) /\ b \in Seq(Elements(b))
    BY DEF IsList
  <1>4. a \in Seq(X) /\ b \in Seq(X)
    BY <1>2, <1>3, SeqOfMore
  <1>5. PICK m \in Nat, n \in Nat : m = Len(a) /\ n = Len(b)
    BY <1>4
  <1>6. PICK c : c = a \o b
    OBVIOUS
  <1>7. c \in Seq(X) /\ Len(c) = m + n /\ \A k \in 1 .. m : c[k] = a[k]
    BY <1>4, <1>5, <1>6, ConcatFacts
  <1>8. IsList(c)
    BY <1>7, ListOfAny
  <1>9. m <= Len(c)
    BY <1>5, <1>7
  <1>10. QED
    BY <1>5, <1>6, <1>7, <1>8, <1>9 DEF Extended

LEMMA ExtendsOn ==
    ASSUME NEW a, NEW b, NEW c, IsList(a), Extended(a, b), Extended(b, c)
    PROVE  Extended(a, c)
  <1>1. IsList(b) /\ IsList(c)
    BY DEF Extended
  <1>2. PICK m \in Nat, n \in Nat, o \in Nat : m = Len(a) /\ n = Len(b) /\ o = Len(c)
    BY <1>1, ListLength
  <1>3. m <= n /\ n <= o
    BY <1>2 DEF Extended
  <1>4. ASSUME NEW i \in 1 .. m PROVE c[i] = a[i]
    <2>1. i \in 1 .. n
      BY <1>3
    <2>2. QED
      BY <1>2, <1>4, <2>1 DEF Extended
  <1>5. m <= o
    BY <1>3
  <1>6. QED
    BY <1>1, <1>2, <1>4, <1>5 DEF Extended

LEMMA ExtendsItself ==
    ASSUME NEW a, IsList(a)
    PROVE  Extended(a, a)
  BY ListLength DEF Extended

LEMMA SameShape ==
    ASSUME NEW a, IsList(a), NEW b, DOMAIN b = DOMAIN a, b = [k \in DOMAIN a |-> b[k]]
    PROVE  IsList(b)
  <1>1. PICK n \in Nat : n = Len(a) /\ DOMAIN a = 1 .. n
    BY ListLength
  <1>2. PICK X : X = {b[k] : k \in 1 .. n}
    OBVIOUS
  <1>3. b \in [1 .. n -> X]
    BY <1>1, <1>2
  <1>4. b \in Seq(X)
    BY <1>3
  <1>5. QED
    BY <1>4, ListOfAny

NoneOrOne == IsList(pendingSearch) /\ IsList(pendingScope) /\ IsList(pendingMap)

LEMMA ClosedAreLists ==
    ASSUME NoneOrOne
    PROVE  IsList(ClosedSearch) /\ IsList(ClosedScope)
  <1>1. PICK a, b : a = ClosedSearch /\ b = ClosedScope
    OBVIOUS
  <1>2. DOMAIN a = DOMAIN pendingSearch /\ a = [k \in DOMAIN pendingSearch |-> a[k]]
    BY <1>1 DEF ClosedSearch
  <1>3. DOMAIN b = DOMAIN pendingScope /\ b = [k \in DOMAIN pendingScope |-> b[k]]
    BY <1>1 DEF ClosedScope
  <1>4. QED
    BY <1>1, <1>2, <1>3, SameShape DEF NoneOrOne

\* But for the entry of a link map that was read last, what is read stays as it is.
Grown == IF steps # <<>> /\ Last(steps).kind = "LinkMap"
         THEN /\ IsList(steps') /\ Len(steps) <= Len(steps')
              /\ \A i \in 1 .. Len(steps) - 1 : steps'[i] = steps[i]
         ELSE Extended(steps, steps')

LEMMA ExtendedIsGrown ==
    ASSUME IsList(steps), Extended(steps, steps')
    PROVE  Grown
  <1>1. PICK n \in Nat : n = Len(steps)
    BY ListLength
  <1>2. \A i \in 1 .. n - 1 : i \in 1 .. n
    OBVIOUS
  <1>3. QED
    BY <1>1, <1>2 DEF Grown, Extended

LEMMA LineGrows ==
    ASSUME ReadLine \/ EndOfText, IsList(steps), NoneOrOne
    PROVE  Grown /\ NoneOrOne'
  <1>1. \A x : IsList(<<x>>)
    BY ShortLists
  <1>2. IsList(<<>>)
    <2>1. <<>> \in Seq({})
      OBVIOUS
    <2>2. QED
      BY <2>1, ListOfAny
  <1>3. IsList(ClosedSearch) /\ IsList(ClosedScope)
    BY ClosedAreLists
  <1>4. Extended(steps, (steps \o ClosedSearch) \o ClosedScope)
    <2>1. IsList(steps \o ClosedSearch) /\ Extended(steps, steps \o ClosedSearch)
      BY <1>3, ConcatExtends
    <2>2. Extended(steps \o ClosedSearch, (steps \o ClosedSearch) \o ClosedScope)
      BY <1>3, <2>1, ConcatExtends
    <2>3. QED
      BY <2>1, <2>2, ExtendsOn
  <1>5. ASSUME NEW x PROVE Extended(steps, Append(steps, x))
    <2>1. steps \in Seq(Elements(steps))
      BY DEF IsList
    <2>2. PICK X : X = Elements(steps) \cup {x}
      OBVIOUS
    <2>3. steps \in Seq(X) /\ x \in X
      BY <2>1, <2>2, SeqOfMore
    <2>4. Append(steps, x) = steps \o <<x>>
      BY <2>3
    <2>5. QED
      BY <1>1, <2>4, ConcatExtends
  <1>6. ASSUME steps' = steps PROVE Grown
    BY <1>6, ExtendsItself, ExtendedIsGrown
  <1>7. CASE ReadBlank
    <2>1. steps' = (steps \o ClosedSearch) \o ClosedScope
          /\ pendingSearch' = <<>> /\ pendingScope' = <<>> /\ pendingMap' = pendingMap
      BY <1>7 DEF ReadBlank
    <2>2. QED
      BY <1>2, <1>4, <2>1, ExtendedIsGrown DEF NoneOrOne
  <1>8. CASE ReadFind
    <2>1. steps' = steps /\ pendingScope' = pendingScope /\ pendingMap' = pendingMap
          /\ \E x : pendingSearch' = <<x>>
      BY <1>8 DEF ReadFind
    <2>2. QED
      BY <1>1, <1>6, <2>1 DEF NoneOrOne
  <1>9. CASE ReadTried
    <2>1. PICK b : b = pendingSearch'
      OBVIOUS
    <2>2. DOMAIN b = DOMAIN pendingSearch /\ b = [k \in DOMAIN pendingSearch |-> b[k]]
      BY <1>9, <2>1 DEF ReadTried
    <2>3. IsList(b)
      BY <2>2, SameShape DEF NoneOrOne
    <2>4. steps' = steps /\ pendingScope' = pendingScope /\ pendingMap' = pendingMap
      BY <1>9 DEF ReadTried
    <2>5. QED
      BY <1>6, <2>1, <2>3, <2>4 DEF NoneOrOne
  <1>10. CASE ReadNeeded
    <2>1. /\ \E x : steps' = Append(steps, x)
          /\ pendingSearch' = pendingSearch /\ pendingScope' = pendingScope /\ pendingMap' = pendingMap
      BY <1>10 DEF ReadNeeded
    <2>2. QED
      BY <1>5, <2>1, ExtendedIsGrown DEF NoneOrOne
  <1>11. CASE ReadGenerating
    <2>1. steps' = steps /\ pendingSearch' = pendingSearch /\ pendingScope' = pendingScope
          /\ \E x : pendingMap' = <<x>>
      BY <1>11 DEF ReadGenerating
    <2>2. QED
      BY <1>1, <1>6, <2>1 DEF NoneOrOne
  <1>12. CASE ReadBase
    <2>1. PICK b : b = [k \in DOMAIN pendingMap |->
                    [kind |-> "LinkMap", file |-> pendingMap[k], base |-> What, entry |-> 0]]
      OBVIOUS
    <2>2. DOMAIN b = DOMAIN pendingMap /\ b = [k \in DOMAIN pendingMap |-> b[k]]
      BY <2>1
    <2>3. IsList(b)
      BY <2>2, SameShape DEF NoneOrOne
    <2>4. /\ steps' = steps \o b
          /\ pendingSearch' = pendingSearch /\ pendingScope' = pendingScope /\ pendingMap' = pendingMap
      BY <1>12, <2>1 DEF ReadBase
    <2>5. Extended(steps, steps')
      BY <2>3, <2>4, ConcatExtends
    <2>6. QED
      BY <2>4, <2>5, ExtendedIsGrown DEF NoneOrOne
  <1>13. CASE ReadEntry
    <2>1. pendingSearch' = pendingSearch /\ pendingScope' = pendingScope /\ pendingMap' = <<>>
      BY <1>13 DEF ReadEntry
    <2>2. NoneOrOne'
      BY <1>2, <2>1 DEF NoneOrOne
    <2>3. CASE ~(steps # <<>> /\ Last(steps).kind = "LinkMap")
      <3>1. steps' = steps
        BY <1>13, <2>3 DEF ReadEntry
      <3>2. QED
        BY <1>6, <2>2, <3>1
    <2>4. CASE steps # <<>> /\ Last(steps).kind = "LinkMap"
      <3>1. PICK b : b = steps'
        OBVIOUS
      <3>2. PICK n \in Nat : n = Len(steps) /\ DOMAIN steps = 1 .. n
        BY ListLength
      <3>3. b = [steps EXCEPT ![n].entry = What]
        BY <1>13, <2>4, <3>1, <3>2 DEF ReadEntry
      <3>4. PICK x : b = [steps EXCEPT ![n] = x]
        BY <3>3
      <3>5. b = [k \in 1 .. n |-> IF k = n THEN x ELSE steps[k]]
        BY <3>2, <3>4
      <3>6. DOMAIN b = 1 .. n /\ b = [k \in 1 .. n |-> b[k]] /\ \A k \in 1 .. n - 1 : b[k] = steps[k]
        BY <3>5
      <3>7. IsList(b)
        BY <3>2, <3>6, SameShape
      <3>8. Len(b) = n
        BY <3>2, <3>6, <3>7, ListLength
      <3>9. n <= n
        OBVIOUS
      <3>10. QED
        BY <2>2, <2>4, <3>1, <3>2, <3>6, <3>7, <3>8, <3>9 DEF Grown
    <2>5. QED
      BY <2>3, <2>4
  <1>14. CASE ReadObject
    <2>1. steps' = steps /\ pendingSearch' = pendingSearch /\ pendingMap' = pendingMap
          /\ \E x : pendingScope' = <<x>>
      BY <1>14 DEF ReadObject
    <2>2. QED
      BY <1>1, <1>6, <2>1 DEF NoneOrOne
  <1>15. CASE ReadScope
    <2>1. PICK b : b = pendingScope'
      OBVIOUS
    <2>2. DOMAIN b = DOMAIN pendingScope /\ b = [k \in DOMAIN pendingScope |-> b[k]]
      BY <1>15, <2>1 DEF ReadScope
    <2>3. IsList(b)
      BY <2>2, SameShape DEF NoneOrOne
    <2>4. steps' = steps /\ pendingSearch' = pendingSearch /\ pendingMap' = pendingMap
      BY <1>15 DEF ReadScope
    <2>5. QED
      BY <1>6, <2>1, <2>3, <2>4 DEF NoneOrOne
  <1>16. CASE ReadPlain
    <2>1. /\ \E x : steps' = Append(steps, x)
          /\ pendingSearch' = pendingSearch /\ pendingScope' = pendingScope /\ pendingMap' = pendingMap
      BY <1>16 DEF ReadPlain
    <2>2. QED
      BY <1>5, <2>1, ExtendedIsGrown DEF NoneOrOne
  <1>17. CASE ReadOther
    <2>1. /\ steps' = steps
          /\ pendingSearch' = pendingSearch /\ pendingScope' = pendingScope /\ pendingMap' = pendingMap
      BY <1>17 DEF ReadOther, readerVars
    <2>2. QED
      BY <1>6, <2>1 DEF NoneOrOne
  <1>18. CASE EndOfText
    <2>1. steps' = (steps \o ClosedSearch) \o ClosedScope
          /\ pendingSearch' = pendingSearch /\ pendingScope' = pendingScope /\ pendingMap' = pendingMap
      BY <1>18 DEF EndOfText
    <2>2. QED
      BY <1>4, <2>1, ExtendedIsGrown DEF NoneOrOne
  <1>19. QED
    BY <1>7, <1>8, <1>9, <1>10, <1>11, <1>12, <1>13, <1>14, <1>15, <1>16, <1>17, <1>18 DEF ReadLine

-----------------------------------------------------------------------------
(* The startup is read as it was told, whatever is told after it.          *)

\* The target is still starting, and alone; or what is read begins with its startup.
Starting(c) ==
    /\ ~ended /\ \A p \in Procs \ {Target} : told[p] = 0
    /\ \E k \in 0 .. c - 1 : Here(k) \/ Inside(k)
Begins(c) ==
    /\ IsList(steps) /\ Place(c) <= Len(steps)
    /\ \A i \in 1 .. Place(c) : steps[i] = ReadUpTo(c)[i]

StartInv ==
    /\ load \in Loads /\ told \in [Procs -> Nat]
    /\ \E c \in 1 .. Len(Story) :
          /\ StartIs(Len(Story), c)
          /\ Starting(c) \/ (Begins(c) /\ NoneOrOne)

LEMMA InitStartInv == Init => StartInv
  <1> SUFFICES ASSUME Init PROVE StartInv
    OBVIOUS
  <1>1. load \in Loads /\ told = [p \in Procs |-> 0] /\ ~ended
    BY DEF Init
  <1>2. PICK n : n = Len(Story)
    OBVIOUS
  <1>3. n \in Nat /\ ScriptIs(n)
    BY <1>1, <1>2, ScriptFacts
  <1>4. told \in [Procs -> Nat] /\ (\A p \in Procs \ {Target} : told[p] = 0) /\ told[Target] = 0
    BY <1>1, LoadsAssumption
  <1>5. Finished(<<>>)
    BY DEF Init, Finished, Idle
  <1>6. Here(0)
    BY <1>3, <1>4, <1>5, Zenon DEF Here, ScriptIs
  <1>7. PICK c : StartIs(n, c)
    BY <1>1, <1>2, StartFacts
  <1>8. c \in 1 .. n /\ 0 \in 0 .. c - 1
    BY <1>3, <1>7 DEF StartIs
  <1>9. Starting(c)
    BY <1>1, <1>4, <1>6, <1>8 DEF Starting
  <1>10. QED
    BY <1>1, <1>2, <1>4, <1>7, <1>8, <1>9 DEF StartInv

LEMMA ReadIsList ==
    ASSUME load \in Loads, NEW n, n = Len(Story), NEW c \in 0 .. n
    PROVE  IsList(ReadUpTo(c)) /\ Place(c) <= Len(ReadUpTo(c)) /\ IsList(<<>>)
  <1>1. ReadUpTo(c) \in Seq(Elements(Story)) /\ Len(ReadUpTo(c)) \in Nat
    BY ScriptFacts DEF ScriptIs
  <1>2. IsList(ReadUpTo(c))
    BY <1>1, ListOfAny
  <1>3. IsList(<<>>)
    <2>1. <<>> \in Seq({})
      OBVIOUS
    <2>2. QED
      BY <2>1, ListOfAny
  <1>4. Place(c) <= Len(ReadUpTo(c))
    BY <1>1 DEF Place
  <1>5. QED
    BY <1>2, <1>3, <1>4

LEMMA SameStart ==
    ASSUME load' = load
    PROVE  /\ Story' = Story /\ \A n, c : StartIs(n, c)' <=> StartIs(n, c)
           /\ \A c : Place(c)' = Place(c) /\ ReadUpTo(c)' = ReadUpTo(c)
  <1>1. Story' = Story /\ Startup' = Startup /\ \A c : ReadUpTo(c)' = ReadUpTo(c)
    BY SameStory DEF Startup
  <1>2. QED
    BY <1>1 DEF StartIs, Place

\* The last step of the startup is no link map, that an entry could change.
LEMMA GrowthKeepsBeginning ==
    ASSUME load \in Loads, load' = load, NEW n, n = Len(Story), NEW c, StartIs(n, c), Begins(c), Grown
    PROVE  Begins(c)'
  <1>1. n \in Nat /\ c \in 1 .. n /\ c \in 0 .. n /\ c \in 1 .. c
    BY StoryFacts DEF IsList, StartIs
  <1>2. Leaves(c) /\ Story[c].kind # "LinkMap"
    BY <1>1 DEF StartIs, Leaves
  <1>3. Place(c) \in 1 .. Place(c) /\ ReadUpTo(c)[Place(c)] = Story[c]
    BY <1>1, <1>2, PlaceHolds
  <1>4. PICK m : m = Place(c) /\ m \in Nat
    BY <1>1, PlaceFacts DEF PlacesClimb
  <1>5. PICK l \in Nat : l = Len(steps)
    BY ListLength DEF Begins
  <1>6. m <= l /\ m \in 1 .. m /\ steps[m] = Story[c] /\ \A i \in 1 .. m : steps[i] = ReadUpTo(c)[i]
    BY <1>3, <1>4, <1>5 DEF Begins
  <1>7. CASE steps # <<>> /\ Last(steps).kind = "LinkMap"
    <2>1. IsList(steps') /\ l <= Len(steps') /\ \A i \in 1 .. l - 1 : steps'[i] = steps[i]
      BY <1>5, <1>7 DEF Grown
    <2>2. Last(steps) = steps[l]
      BY <1>5 DEF Last
    <2>3. l # m
      BY <1>2, <1>6, <1>7, <2>2
    <2>4. \A i \in 1 .. m : i \in 1 .. l - 1
      BY <1>4, <1>5, <1>6, <2>3
    <2>5. PICK o \in Nat : o = Len(steps')
      BY <2>1, ListLength
    <2>6. m <= o
      BY <1>4, <1>5, <1>6, <2>1, <2>5
    <2>7. QED
      BY <1>4, <1>6, <2>1, <2>4, <2>5, <2>6, SameStart DEF Begins
  <1>8. CASE ~(steps # <<>> /\ Last(steps).kind = "LinkMap")
    <2>1. IsList(steps') /\ l <= Len(steps') /\ \A i \in 1 .. l : steps'[i] = steps[i]
      BY <1>5, <1>8 DEF Grown, Extended
    <2>2. \A i \in 1 .. m : i \in 1 .. l
      BY <1>4, <1>5, <1>6
    <2>3. PICK o \in Nat : o = Len(steps')
      BY <2>1, ListLength
    <2>4. m <= o
      BY <1>4, <1>5, <1>6, <2>1, <2>3
    <2>5. QED
      BY <1>4, <1>6, <2>1, <2>2, <2>3, <2>4, SameStart DEF Begins
  <1>9. QED
    BY <1>7, <1>8

LEMMA TellKeepsStart ==
    ASSUME StartInv, Tell
    PROVE  StartInv'
  <1>1. load \in Loads /\ load' = load /\ text = <<>> /\ ended' = ended /\ UNCHANGED readerVars
        /\ told \in [Procs -> Nat]
    BY DEF StartInv, Tell
  <1>2. PICK p \in Procs : /\ HasStarted(p) /\ told[p] < Len(Script[p])
                           /\ text' = Script[p][told[p] + 1]
                           /\ told' = [told EXCEPT ![p] = @ + 1]
    BY DEF Tell
  <1>3. told' \in [Procs -> Nat]
    BY <1>1, <1>2
  <1>4. PICK n \in Nat : n = Len(Story)
    BY <1>1, StoryFacts DEF IsList
  <1>5. PICK c \in 1 .. n : StartIs(n, c) /\ (Starting(c) \/ (Begins(c) /\ NoneOrOne))
    BY <1>4 DEF StartInv
  <1>6. Len(Story)' = n /\ StartIs(n, c)'
    BY <1>1, <1>4, <1>5, SameStart
  <1>7. CASE Starting(c)
    <2>1. PICK k \in 0 .. c - 1 : Here(k) \/ Inside(k)
      BY <1>7 DEF Starting
    <2>2. p = Target
      BY <1>1, <1>2, <1>4, <1>5, <2>1, NobodyElse
    <2>3. PICK t \in Nat : t = told[Target]
      BY <1>1, LoadsAssumption
    <2>4. /\ told'[Target] = t + 1 /\ t < Len(Script[Target]) /\ text' = Script[Target][t + 1]
          /\ \A q \in Procs \ {Target} : told'[q] = told[q]
      BY <1>1, <1>2, <2>2, <2>3, LoadsAssumption
    <2>5. k \in 0 .. n
      BY <1>4, <1>5
    <2>6. Inside(k)'
      BY <1>1, <1>4, <2>1, <2>3, <2>4, <2>5, TellAtPlace
    <2>7. Starting(c)'
      BY <1>1, <1>7, <2>1, <2>4, <2>6 DEF Starting
    <2>8. QED
      BY <1>1, <1>3, <1>5, <1>6, <2>7 DEF StartInv
  <1>8. CASE Begins(c) /\ NoneOrOne
    <2>1. steps' = steps /\ pendingSearch' = pendingSearch /\ pendingScope' = pendingScope
          /\ pendingMap' = pendingMap
      BY <1>1 DEF readerVars
    <2>2. Begins(c)' /\ NoneOrOne'
      BY <1>1, <1>8, <2>1, SameStart DEF Begins, NoneOrOne
    <2>3. QED
      BY <1>1, <1>3, <1>5, <1>6, <2>2 DEF StartInv
  <1>9. QED
    BY <1>5, <1>7, <1>8

LEMMA ReadKeepsStart ==
    ASSUME StartInv, ReadLine
    PROVE  StartInv'
  <1>1. load \in Loads /\ load' = load /\ ended' = ended /\ told' = told /\ told \in [Procs -> Nat]
    BY LineDecides DEF StartInv
  <1>2. PICK n \in Nat : n = Len(Story)
    BY <1>1, StoryFacts DEF IsList
  <1>3. PICK c \in 1 .. n : StartIs(n, c) /\ (Starting(c) \/ (Begins(c) /\ NoneOrOne))
    BY <1>2 DEF StartInv
  <1>4. Len(Story)' = n /\ StartIs(n, c)'
    BY <1>1, <1>2, <1>3, SameStart
  <1>5. CASE Starting(c)
    <2>1. PICK k \in 0 .. c - 1 : Here(k) \/ Inside(k)
      BY <1>5 DEF Starting
    <2>2. k \in 0 .. n
      BY <1>2, <1>3
    <2>3. Inside(k)' \/ Here(k + 1)'
      BY <1>1, <1>2, <2>1, <2>2, ReadAtPlace
    <2>4. CASE Inside(k)' \/ k + 1 # c
      <3>1. k + 1 # c => k + 1 \in 0 .. c - 1
        BY <1>3
      <3>2. Starting(c)'
        BY <1>1, <1>5, <2>1, <2>3, <2>4, <3>1 DEF Starting
      <3>3. QED
        BY <1>1, <1>3, <1>4, <3>2 DEF StartInv
    <2>5. CASE Here(k + 1)' /\ k + 1 = c
      <3>1. Here(c)'
        BY <2>5
      <3>2. steps' = ReadUpTo(c) /\ Idle'
        BY <1>1, <3>1, SameStart DEF Here, Finished
      <3>3. IsList(ReadUpTo(c)) /\ Place(c) <= Len(ReadUpTo(c)) /\ IsList(<<>>)
        BY <1>1, <1>2, <1>3, ReadIsList
      <3>4. Begins(c)' /\ NoneOrOne'
        BY <1>1, <3>2, <3>3, SameStart DEF Begins, NoneOrOne, Idle
      <3>5. QED
        BY <1>1, <1>3, <1>4, <3>4 DEF StartInv
    <2>6. QED
      BY <2>3, <2>4, <2>5
  <1>6. CASE Begins(c) /\ NoneOrOne
    <2>1. Grown /\ NoneOrOne'
      BY <1>6, LineGrows DEF Begins
    <2>2. Begins(c)'
      BY <1>1, <1>2, <1>3, <1>6, <2>1, GrowthKeepsBeginning
    <2>3. QED
      BY <1>1, <1>3, <1>4, <2>1, <2>2 DEF StartInv
  <1>7. QED
    BY <1>3, <1>5, <1>6

LEMMA EndKeepsStart ==
    ASSUME StartInv, EndOfText
    PROVE  StartInv'
  <1>1. /\ load \in Loads /\ load' = load /\ text = <<>> /\ told' = told /\ told \in [Procs -> Nat]
        /\ told[Target] = Len(Script[Target])
    BY LoadsAssumption DEF StartInv, EndOfText
  <1>2. PICK n \in Nat : n = Len(Story)
    BY <1>1, StoryFacts DEF IsList
  <1>3. PICK c \in 1 .. n : StartIs(n, c) /\ (Starting(c) \/ (Begins(c) /\ NoneOrOne))
    BY <1>2 DEF StartInv
  <1>4. Len(Story)' = n /\ StartIs(n, c)'
    BY <1>1, <1>2, <1>3, SameStart
  <1>5. ~Starting(c)
    <2> SUFFICES ASSUME Starting(c) PROVE FALSE
      OBVIOUS
    <2>1. PICK k \in 0 .. c - 1 : Here(k) \/ Inside(k)
      BY DEF Starting
    <2>2. k \in 0 .. n /\ k # n
      BY <1>2, <1>3
    <2>3. QED
      BY <1>1, <1>2, <2>1, <2>2, EndAtPlace
  <1>6. Begins(c) /\ NoneOrOne
    BY <1>3, <1>5
  <1>7. Grown /\ NoneOrOne'
    BY <1>6, LineGrows DEF Begins
  <1>8. Begins(c)'
    BY <1>1, <1>2, <1>3, <1>6, <1>7, GrowthKeepsBeginning
  <1>9. QED
    BY <1>1, <1>3, <1>4, <1>7, <1>8 DEF StartInv

LEMMA StutterKeepsStart ==
    ASSUME StartInv, UNCHANGED vars
    PROVE  StartInv'
  <1>1. /\ load \in Loads /\ load' = load /\ told' = told /\ ended' = ended /\ steps' = steps
        /\ pendingSearch' = pendingSearch /\ pendingScope' = pendingScope /\ pendingMap' = pendingMap
        /\ told \in [Procs -> Nat]
    BY DEF StartInv, vars
  <1>2. PICK n \in Nat : n = Len(Story)
    BY <1>1, StoryFacts DEF IsList
  <1>3. PICK c \in 1 .. n : StartIs(n, c) /\ (Starting(c) \/ (Begins(c) /\ NoneOrOne))
    BY <1>2 DEF StartInv
  <1>4. Len(Story)' = n /\ StartIs(n, c)'
    BY <1>1, <1>2, <1>3, SameStart
  <1>5. CASE Starting(c)
    <2>1. PICK k \in 0 .. c - 1 : Here(k) \/ Inside(k)
      BY <1>5 DEF Starting
    <2>2. k \in 0 .. n
      BY <1>2, <1>3
    <2>3. Here(k)' \/ Inside(k)'
      BY <1>1, <1>2, <2>1, <2>2, StutterAtPlace
    <2>4. Starting(c)'
      BY <1>1, <1>5, <2>1, <2>3 DEF Starting
    <2>5. QED
      BY <1>1, <1>3, <1>4, <2>4 DEF StartInv
  <1>6. CASE Begins(c) /\ NoneOrOne
    <2>1. Begins(c)' /\ NoneOrOne'
      BY <1>1, <1>6, SameStart DEF Begins, NoneOrOne
    <2>2. QED
      BY <1>1, <1>3, <1>4, <2>1 DEF StartInv
  <1>7. QED
    BY <1>3, <1>5, <1>6

LEMMA NextStartInv == StartInv /\ [Next]_vars => StartInv'
  <1> SUFFICES ASSUME StartInv, [Next]_vars PROVE StartInv'
    OBVIOUS
  <1>1. CASE Tell
    BY <1>1, TellKeepsStart
  <1>2. CASE EndOfText
    BY <1>2, EndKeepsStart
  <1>3. CASE ReadLine
    BY <1>3, ReadKeepsStart
  <1>4. CASE UNCHANGED vars
    BY <1>4, StutterKeepsStart
  <1>5. QED
    BY <1>1, <1>2, <1>3, <1>4 DEF Next, ReadLine

-----------------------------------------------------------------------------
(* What the startup settles.                                               *)

Settled(c) ==
    /\ Len(steps) \in Nat /\ DOMAIN steps = 1 .. Len(steps)
    /\ Place(c) \in Nat /\ \A j \in 1 .. c : Place(j) \in Nat
    /\ \A j \in 1 .. c : Leaves(j) =>
          Place(j) <= Place(c) /\ Place(j) \in DOMAIN steps /\ steps[Place(j)] = Story[j]
    /\ \A i \in DOMAIN steps : i <= Place(c) => \E j \in 1 .. c : Leaves(j) /\ Place(j) = i
    /\ \A i, j \in 1 .. c : Leaves(i) /\ Leaves(j) => (i < j <=> Place(i) < Place(j))

LEMMA BeginsSettles ==
    ASSUME load \in Loads, NEW n, n = Len(Story), NEW c \in 0 .. n, Begins(c)
    PROVE  Settled(c)
  <1>1. n \in Nat /\ DOMAIN Story = 1 .. n
    BY StoryFacts DEF IsList
  <1>2. PICK l \in Nat : l = Len(steps) /\ DOMAIN steps = 1 .. l
    BY ListLength DEF Begins
  <1>3. PlacesClimb(n)
    BY PlaceFacts
  <1>4. PICK m \in Nat : m = Place(c) /\ m <= l /\ \A i \in 1 .. m : steps[i] = ReadUpTo(c)[i]
    BY <1>2, <1>3 DEF PlacesClimb, Begins
  <1>5. \A j \in 1 .. c : j \in 0 .. n /\ j \in 1 .. n
    BY <1>1
  <1>6. \A j \in 1 .. c : Place(j) \in Nat
    BY <1>3, <1>5 DEF PlacesClimb
  <1>7. ASSUME NEW j \in 1 .. c, Leaves(j)
        PROVE  Place(j) <= m /\ Place(j) \in 1 .. l /\ steps[Place(j)] = Story[j]
    <2>1. Place(j) \in 1 .. m /\ ReadUpTo(c)[Place(j)] = Story[j]
      BY <1>4, <1>7, PlaceHolds
    <2>2. PICK p : p = Place(j)
      OBVIOUS
    <2>3. p \in 1 .. m /\ p <= m /\ p \in 1 .. l
      BY <1>2, <1>4, <2>1, <2>2
    <2>4. QED
      BY <1>4, <2>1, <2>2, <2>3
  <1>8. ASSUME NEW i \in 1 .. l, i <= m PROVE \E j \in 1 .. c : Leaves(j) /\ Place(j) = i
    <2>1. i \in 1 .. m
      BY <1>8
    <2>2. QED
      BY <1>3, <1>4, <2>1 DEF PlacesClimb
  <1>9. ASSUME NEW i \in 1 .. c, NEW j \in 1 .. c, Leaves(j), i < j PROVE Place(i) < Place(j)
    <2>1. PICK p : p = j - 1 /\ p \in 0 .. n /\ i <= p /\ j \in 1 .. n /\ i \in 0 .. n
      <3>1. j - 1 \in 0 .. n /\ i <= j - 1 /\ j \in 1 .. n /\ i \in 0 .. n
        BY <1>1, <1>9
      <3>2. QED
        BY <3>1
    <2>2. Place(j) = Place(p) + 1 /\ Place(i) <= Place(p)
      BY <1>3, <1>9, <2>1 DEF PlacesClimb
    <2>3. PICK a \in Nat, b \in Nat : a = Place(i) /\ b = Place(p)
      BY <1>3, <2>1 DEF PlacesClimb
    <2>4. QED
      BY <2>2, <2>3
  <1>10. ASSUME NEW i \in 1 .. c, NEW j \in 1 .. c, Leaves(i), Leaves(j)
         PROVE  i < j <=> Place(i) < Place(j)
    <2>1. PICK a \in Nat, b \in Nat : a = Place(i) /\ b = Place(j)
      BY <1>6
    <2>2. i < j => a < b
      BY <1>9, <1>10, <2>1
    <2>3. j < i => b < a
      BY <1>9, <1>10, <2>1
    <2>4. i = j => a = b
      BY <2>1
    <2>5. i < j \/ j < i \/ i = j
      OBVIOUS
    <2>6. i < j <=> a < b
      BY <2>2, <2>3, <2>4, <2>5
    <2>7. QED
      BY <2>1, <2>6
  <1>11. QED
    BY <1>2, <1>4, <1>6, <1>7, <1>8, <1>10 DEF Settled

LEMMA MinIs ==
    ASSUME NEW S \in SUBSET Nat, S # {}
    PROVE  Min(S) \in S /\ \A x \in S : Min(S) <= x
  <1>1. PICK m \in S : \A x \in S : m <= x
    BY LeastOf
  <1>2. QED
    BY <1>1 DEF Min

LEMMA MaxIs ==
    ASSUME NEW S \in SUBSET Nat, S # {}, NEW b \in Nat, \A x \in S : x <= b
    PROVE  Max(S) \in S /\ \A x \in S : x <= Max(S)
  <1>1. PICK m \in S : \A x \in S : x <= m
    BY GreatestOf
  <1>2. \A x, y \in S : x >= y <=> y <= x
    OBVIOUS
  <1>3. \A x \in S : m >= x
    BY <1>1, <1>2
  <1>4. Max(S) \in S /\ \A x \in S : Max(S) >= x
    BY <1>1, <1>3 DEF Max
  <1>5. QED
    BY <1>2, <1>4

\* An object is relocated once in the startup.
LEMMA OnceRelocated ==
    ASSUME load \in Loads, NEW o, NEW j \in Relocated(o), NEW k \in Relocated(o)
    PROVE  j = k
  <1>1. RelocatesOnce(load)
    BY StoriesAssumption
  <1>2. \A i, l \in DOMAIN Startup :
            Startup[i].kind = "Relocate" /\ Startup[l].kind = "Relocate"
                /\ Startup[i].object = Startup[l].object => i = l
    BY <1>1, Zenon DEF RelocatesOnce, Startup
  <1>3. QED
    BY <1>2 DEF Relocated

LEMMA RelocatedFacts ==
    ASSUME load \in Loads, NEW n, n = Len(Story), NEW c, StartIs(n, c), NEW o
    PROVE  \A j : j \in Relocated(o) <=>
              j \in 1 .. c /\ Story[j].kind = "Relocate" /\ Story[j].object = o /\ Leaves(j)
  BY DEF Relocated, StartIs, Leaves

LEMMA RelocatedObjectsAre == \A o : o \in RelocatedObjects <=> Relocated(o) # {}
  <1>1. ASSUME NEW o \in RelocatedObjects PROVE Relocated(o) # {}
    <2>1. PICK s \in Elements(Startup) : s.kind = "Relocate" /\ s.object = o
      BY DEF RelocatedObjects, AtStart, Startup
    <2>2. PICK k \in DOMAIN Startup : Startup[k] = s
      BY DEF Elements
    <2>3. QED
      BY <2>1, <2>2 DEF Relocated
  <1>2. ASSUME NEW o, NEW k \in Relocated(o) PROVE o \in RelocatedObjects
    <2>1. k \in DOMAIN Startup /\ Startup[k].kind = "Relocate" /\ Startup[k].object = o
      BY DEF Relocated
    <2>2. Startup[k] \in AtStart(load, {"Relocate"})
      BY <2>1 DEF AtStart, Elements, Startup
    <2>3. QED
      BY <2>1, <2>2 DEF RelocatedObjects
  <1>3. QED
    BY <1>1, <1>2

\* The one object that goes by a name is where it is relocated, whatever is read later:
\* in the whole order, and in a part of it that keeps that object.
LEMMA FirstRelocated ==
    ASSUME load \in Loads, NEW n, n = Len(Story), NEW c, StartIs(n, c), Settled(c),
           NEW o, NEW name, Is(o, name), \A q \in RelocatedObjects : Is(q, name) => q = o,
           NEW order \in SUBSET RelocationOrder,
           \A k \in RelocationOrder : steps[k].object = o => k \in order,
           NEW j \in Relocated(o)
    PROVE  Position(order, name) = {Place(j)}
  <1>1. PICK at : at = {k \in order : Is(steps[k].object, name)}
    OBVIOUS
  <1>2. \A k : k \in at => k \in DOMAIN steps /\ steps[k].kind = "Relocate" /\ Is(steps[k].object, name)
    BY <1>1 DEF RelocationOrder, OfKind
  <1>3. at \in SUBSET Nat
    BY <1>2 DEF Settled
  <1>4. ASSUME NEW k \in at, k <= Place(c) PROVE k = Place(j)
    <2>1. PICK i \in 1 .. c : Leaves(i) /\ Place(i) = k
      BY <1>2, <1>4 DEF Settled
    <2>2. Story[i] = steps[k]
      BY <2>1 DEF Settled
    <2>3. i \in Relocated(Story[i].object)
      BY <1>2, <2>1, <2>2, RelocatedFacts
    <2>4. Story[i].object = o
      BY <1>2, <2>2, <2>3, RelocatedObjectsAre
    <2>5. i = j
      BY <2>3, <2>4, OnceRelocated
    <2>6. QED
      BY <2>1, <2>5
  <1>5. j \in 1 .. c /\ Leaves(j) /\ Story[j].kind = "Relocate" /\ Story[j].object = o
    BY RelocatedFacts
  <1>6. Place(j) <= Place(c) /\ Place(j) \in DOMAIN steps /\ steps[Place(j)] = Story[j]
        /\ Place(j) \in Nat /\ Place(c) \in Nat
    BY <1>5 DEF Settled
  <1>7. Place(j) \in at
    BY <1>1, <1>5, <1>6 DEF RelocationOrder, OfKind
  <1>8. PICK m : m = Min(at) /\ m \in at /\ m <= Place(j)
    BY <1>3, <1>7, MinIs
  <1>9. m <= Place(c)
    <2>1. m \in Nat
      BY <1>3, <1>8
    <2>2. PICK a \in Nat, b \in Nat : a = Place(j) /\ b = Place(c)
      BY <1>6
    <2>3. m <= a /\ a <= b
      BY <1>6, <1>8, <2>2
    <2>4. QED
      BY <2>1, <2>2, <2>3
  <1>10. m = Place(j)
    BY <1>4, <1>8, <1>9
  <1>11. QED
    BY <1>1, <1>7, <1>8, <1>10 DEF Position

\* The program is relocated at startup, and nothing is taken for it.
LEMMA ProgramIsRelocated ==
    ASSUME load \in Loads, ProgramIsKnown(Startup)
    PROVE  /\ Relocated(load.program) # {}
           /\ Is(load.program, Program)
           /\ \A q \in RelocatedObjects : Is(q, Program) => q = load.program
  <1>1. RelocatesOnce(load)
    BY StoriesAssumption
  <1>2. PICK s \in AtStart(load, {"Relocate"}) : s.object = load.program
    BY <1>1 DEF RelocatesOnce
  <1>3. load.program \in RelocatedObjects
    BY <1>2 DEF RelocatedObjects
  <1>4. Is(load.program, Program)
    BY DEF Is, Program
  <1>5. ASSUME NEW q \in RelocatedObjects, Is(q, Program) PROVE q = load.program
    <2>1. PICK k : k \in Relocated(q)
      BY RelocatedObjectsAre
    <2>2. k \in DOMAIN Startup /\ Startup[k].kind = "Relocate" /\ Startup[k].object = q
      BY <2>1 DEF Relocated
    <2>3. WhoIn(Startup[k]) = q
      BY <2>2 DEF WhoIn
    <2>4. QED
      BY <1>5, <2>2, <2>3 DEF ProgramIsKnown
  <1>6. QED
    BY <1>3, <1>4, <1>5, RelocatedObjectsAre

LEMMA VerdictsDiffer == Match # Differ /\ Match # NotModelled /\ Differ # NotModelled
  BY DEF Match, Differ, NotModelled

LEMMA OrderIsTrue ==
    ASSUME load \in Loads, NEW n, n = Len(Story), NEW c, StartIs(n, c), Settled(c),
           ProgramIsKnown(Startup)
    PROVE  Says(OrderVerdict, \E o \in RelocatedObjects : Before(o, load.program))
  <1>1. PICK j : j \in Relocated(load.program)
    BY ProgramIsRelocated
  <1>2. Position(RelocationOrder, Program) = {Place(j)}
    BY <1>1, ProgramIsRelocated, FirstRelocated
  <1>3. j \in 1 .. c /\ Leaves(j)
    BY <1>1, RelocatedFacts
  <1>4. ASSUME NEW i \in RelocationOrder, i < Place(j)
        PROVE  \E o \in RelocatedObjects : Before(o, load.program)
    <2>1. i \in DOMAIN steps /\ steps[i].kind = "Relocate"
      BY DEF RelocationOrder, OfKind
    <2>2. i <= Place(c)
      <3>1. i \in Nat /\ Place(j) \in Nat /\ Place(c) \in Nat /\ Place(j) <= Place(c)
        BY <1>3, <2>1 DEF Settled
      <3>2. PICK a \in Nat, b \in Nat : a = Place(j) /\ b = Place(c)
        BY <3>1
      <3>3. QED
        BY <1>4, <3>1, <3>2
    <2>3. PICK k \in 1 .. c : Leaves(k) /\ Place(k) = i
      BY <2>1, <2>2 DEF Settled
    <2>4. Story[k] = steps[i] /\ k < j
      BY <1>3, <1>4, <2>3 DEF Settled
    <2>5. k \in Relocated(Story[k].object)
      BY <2>1, <2>3, <2>4, RelocatedFacts
    <2>6. Before(Story[k].object, load.program)
      BY <1>1, <2>4, <2>5 DEF Before
    <2>7. QED
      BY <2>5, <2>6, RelocatedObjectsAre
  <1>5. ASSUME NEW o \in RelocatedObjects, Before(o, load.program)
        PROVE  \E i \in RelocationOrder : i < Place(j)
    <2>1. PICK a \in Relocated(o), b \in Relocated(load.program) : a < b
      BY <1>5 DEF Before
    <2>2. b = j
      BY <1>1, OnceRelocated
    <2>3. a \in 1 .. c /\ Leaves(a) /\ Story[a].kind = "Relocate"
      BY RelocatedFacts
    <2>4. Place(a) \in DOMAIN steps /\ steps[Place(a)] = Story[a] /\ Place(a) < Place(j)
      BY <1>3, <2>1, <2>2, <2>3 DEF Settled
    <2>5. Place(a) \in RelocationOrder
      BY <2>3, <2>4 DEF RelocationOrder, OfKind
    <2>6. QED
      BY <2>4, <2>5
  <1>6. OrderVerdict # NotModelled =>
            (OrderVerdict = Match <=> \E i \in RelocationOrder : i < Place(j))
    BY <1>2, VerdictsDiffer DEF OrderVerdict
  <1>7. QED
    BY <1>4, <1>5, <1>6 DEF Says

LEMMA BindingIsTrue ==
    ASSUME load \in Loads, NEW n, n = Len(Story), NEW c, StartIs(n, c), Settled(c),
           ProgramIsKnown(Startup)
    PROVE  Says(BindingVerdict,
                \E k \in Relocated(load.program) : Startup[k].lazy = ~load.ours.bindNow)
  <1>1. PICK j : j \in Relocated(load.program)
    BY ProgramIsRelocated
  <1>2. Position(RelocationOrder, Program) = {Place(j)}
    BY <1>1, ProgramIsRelocated, FirstRelocated
  <1>3. j \in 1 .. c /\ Leaves(j)
    BY <1>1, RelocatedFacts
  <1>4. steps[Place(j)] = Startup[j]
    BY <1>3 DEF Settled, StartIs
  <1>5. BindsLazily(Program) = {Startup[j].lazy}
    BY <1>2, <1>4 DEF BindsLazily
  <1>6. PICK lazy, ours : lazy = Startup[j].lazy /\ ours = (~load.ours.bindNow)
    OBVIOUS
  <1>7. BindingVerdict = IF {lazy} = {ours} THEN Match ELSE Differ
    BY <1>5, <1>6 DEF BindingVerdict
  <1>8. BindingVerdict = Match <=> lazy = ours
    BY <1>7, VerdictsDiffer
  <1>9. (\E k \in Relocated(load.program) : Startup[k].lazy = ours) <=> lazy = ours
    BY <1>1, <1>6, OnceRelocated
  <1>10. QED
    BY <1>6, <1>8, <1>9 DEF Says

\* The one object that our path stands for, and where it is among theirs.
LEMMA KnownIs ==
    ASSUME load \in Loads, NEW n, n = Len(Story), NEW c, StartIs(n, c), Settled(c),
           NEW path, IsKnown(path)
    PROVE  \E o, j : /\ Named(path) = {o} /\ j \in Relocated(o)
                     /\ Rank(path) = {Place(j)}
  <1>1. PICK o \in RelocatedObjects :
            /\ {q \in RelocatedObjects : Is(q, path[2])} = {o}
            /\ o[2] = path[2]
            /\ ~LooksLikeLoader(o)
    BY DEF IsKnown
  <1>2. PICK j : j \in Relocated(o)
    BY RelocatedObjectsAre
  <1>3. Is(o, path[2]) /\ \A q \in RelocatedObjects : Is(q, path[2]) => q = o
    BY <1>1 DEF Is
  <1>4. \A q \in RelocatedObjects : q[2] = path[2] => Is(q, path[2])
    BY DEF Is
  <1>5. Named(path) = {o}
    BY <1>1, <1>3, <1>4 DEF Named
  <1>6. Theirs \in SUBSET RelocationOrder
    BY DEF Theirs
  <1>7. \A k \in RelocationOrder : steps[k].object = o => k \in Theirs
    BY <1>1 DEF Theirs
  <1>8. Position(Theirs, path[2]) = {Place(j)}
    BY <1>2, <1>3, <1>6, <1>7, FirstRelocated
  <1>9. QED
    BY <1>2, <1>5, <1>8 DEF Rank

\* Nothing goes for the loader among theirs.
LEMMA LoaderIsLeftOut ==
    ASSUME NEW path, path[2] = Loader, Loader \in LoaderLike
    PROVE  Rank(path) = {}
  <1>1. ASSUME NEW k \in Theirs, Is(steps[k].object, path[2]) PROVE FALSE
    <2>1. steps[k].object[2] \notin LoaderLike
      BY DEF Theirs, LooksLikeLoader
    <2>2. <<steps[k].object[2], Loader>> \in Endings
      BY <1>1, <2>1 DEF Is
    <2>3. QED
      BY <2>1, <2>2, NamesAssumption
  <1>2. {k \in Theirs : Is(steps[k].object, path[2])} = {}
    BY <1>1
  <1>3. QED
    BY <1>2 DEF Rank, Position

LEMMA DependencyIsTrue ==
    ASSUME load \in Loads, NEW n, n = Len(Story), NEW c, StartIs(n, c), Settled(c),
           LibrariesAreKnown
    PROVE  Says(DependencyVerdict, \A lib \in load.ours.libs : lib.path[2] # Loader =>
                  \A o \in Named(lib.path), u \in Named(lib.by) : ~Before(u, o))
  <1>1. ASSUME NEW lib \in load.ours.libs
        PROVE  lib \in AfterItsAsker <=>
                  lib.path[2] # Loader /\ \E o \in Named(lib.path), u \in Named(lib.by) : Before(u, o)
    <2>1. IsKnown(lib.by) /\ (lib.path[2] = Loader \/ IsKnown(lib.path)) /\ Loader \in LoaderLike
      BY DEF LibrariesAreKnown
    <2>2. lib \in AfterItsAsker <=> \E x \in Rank(lib.path), y \in Rank(lib.by) : x > y
      BY DEF AfterItsAsker
    <2>3. CASE lib.path[2] = Loader
      BY <2>1, <2>2, <2>3, LoaderIsLeftOut
    <2>4. CASE lib.path[2] # Loader
      <3>1. PICK o, j : Named(lib.path) = {o} /\ j \in Relocated(o) /\ Rank(lib.path) = {Place(j)}
        BY <2>1, <2>4, KnownIs
      <3>2. PICK u, i : Named(lib.by) = {u} /\ i \in Relocated(u) /\ Rank(lib.by) = {Place(i)}
        BY <2>1, KnownIs
      <3>3. j \in 1 .. c /\ Leaves(j) /\ Place(j) \in Nat
        BY <3>1, RelocatedFacts DEF Settled
      <3>4. i \in 1 .. c /\ Leaves(i) /\ Place(i) \in Nat
        BY <3>2, RelocatedFacts DEF Settled
      <3>5. i < j <=> Place(i) < Place(j)
        BY <3>3, <3>4 DEF Settled
      <3>6. Before(u, o) <=> i < j
        BY <3>1, <3>2, OnceRelocated DEF Before
      <3>7. Place(j) > Place(i) <=> Place(i) < Place(j)
        BY <3>3, <3>4
      <3>8. lib \in AfterItsAsker <=> Place(j) > Place(i)
        BY <2>2, <3>1, <3>2
      <3>9. (\E p \in Named(lib.path), q \in Named(lib.by) : Before(q, p)) <=> Before(u, o)
        BY <3>1, <3>2
      <3>10. QED
        BY <2>4, <3>5, <3>6, <3>7, <3>8, <3>9
    <2>5. QED
      BY <2>3, <2>4
  <1>2. AfterItsAsker \subseteq load.ours.libs
    BY DEF AfterItsAsker
  <1>3. DependencyVerdict = Match <=> AfterItsAsker = {}
    BY VerdictsDiffer DEF DependencyVerdict
  <1>4. QED
    BY <1>1, <1>2, <1>3 DEF Says

-----------------------------------------------------------------------------
(* What the whole log of one process settles.                              *)

AllRead(n, c) == StartIs(n, c) /\ Settled(n) /\ Len(steps) = Place(n) /\ NothingOpenedLate

\* What is read is the story.
LEMMA ReadIsStory ==
    ASSUME NEW n, NEW c, AllRead(n, c)
    PROVE  /\ \A j \in 1 .. n : Leaves(j) => Place(j) \in DOMAIN steps /\ steps[Place(j)] = Story[j]
           /\ \A i \in DOMAIN steps : \E j \in 1 .. n : Leaves(j) /\ Place(j) = i /\ steps[i] = Story[j]
  <1>1. \A j \in 1 .. n : Leaves(j) => Place(j) \in DOMAIN steps /\ steps[Place(j)] = Story[j]
    BY DEF AllRead, Settled
  <1>2. ASSUME NEW i \in DOMAIN steps PROVE i <= Place(n)
    BY DEF AllRead, Settled
  <1>3. QED
    BY <1>1, <1>2 DEF AllRead, Settled

\* What is told after the startup opens nothing.
LEMMA LateIsLittle ==
    ASSUME NEW n, n = Len(Story), n \in Nat, NEW c, AllRead(n, c), NEW j \in 1 .. n,
           Story[j].kind \notin {"Bind", "Fini"}
    PROVE  j \in 1 .. c /\ Startup[j] = Story[j] /\ j \in DOMAIN Startup
  <1>1. c \in 1 .. n /\ Len(Startup) = c
    BY DEF AllRead, StartIs
  <1>2. \A k \in c + 1 .. n : Story[k].kind \in {"Bind", "Fini"}
    BY <1>1, Zenon DEF AllRead, NothingOpenedLate
  <1>3. ~(j \in c + 1 .. n)
    BY <1>2
  <1>4. j \in 1 .. c
    BY <1>1, <1>3
  <1>5. QED
    BY <1>4 DEF AllRead, StartIs

\* What a search found: the last path tried, if it is absolute, and else one that
\* was tried in vain, or nothing.
LEMMA SearchFacts ==
    ASSUME load \in Loads, NEW s \in AtStart(load, {"Search"}), IsStep(s)
    PROVE  /\ Last(s.tried).absolute => Resolved(s.tried) = {FileOf(s)}
           /\ ~Last(s.tried).absolute =>
                 \/ Resolved(s.tried) = {}
                 \/ \E k \in 1 .. Len(s.tried) - 1 : Resolved(s.tried) = {s.tried[k].path}
  <1>1. SearchesOnce(load)
    BY StoriesAssumption
  <1>2. s.tried # <<>>
    BY <1>1 DEF SearchesOnce
  <1>3. IsList(s.tried)
    BY DEF AtStart, IsStep, Plain
  <1>4. PICK tried : tried = s.tried
    OBVIOUS
  <1>5. PICK m \in Nat : m = Len(tried) /\ DOMAIN tried = 1 .. m
    BY <1>3, <1>4, ListLength
  <1>6. m # 0
    <2>1. tried \in Seq(Elements(tried))
      BY <1>3, <1>4 DEF IsList
    <2>2. QED
      BY <1>2, <1>4, <1>5, <2>1
  <1>7. Last(tried) = tried[m]
    BY <1>5 DEF Last
  <1>8. PICK real : real = {k \in DOMAIN tried : tried[k].absolute}
    OBVIOUS
  <1>9. real \in SUBSET Nat /\ (\A x \in real : x <= m) /\ (m \in real <=> Last(tried).absolute)
    BY <1>2, <1>4, <1>5, <1>6, <1>7, <1>8
  <1>10. CASE m \in real
    <2>1. PICK x : x = Max(real) /\ x \in real /\ m <= x
      BY <1>5, <1>9, <1>10, MaxIs
    <2>2. x = m
      BY <1>5, <1>9, <2>1
    <2>3. Resolved(tried) = {tried[m].path}
      BY <1>8, <1>10, <2>1, <2>2 DEF Resolved
    <2>4. QED
      BY <1>4, <1>7, <1>9, <1>10, <2>3 DEF FileOf
  <1>11. CASE m \notin real /\ real # {}
    <2>1. PICK x : x = Max(real) /\ x \in real
      BY <1>5, <1>9, <1>11, MaxIs
    <2>2. x \in 1 .. Len(tried) - 1
      <3>1. x \in 1 .. m /\ x # m
        BY <1>5, <1>8, <1>11, <2>1
      <3>2. QED
        BY <1>5, <3>1
    <2>3. Resolved(tried) = {tried[x].path}
      BY <1>8, <1>11, <2>1 DEF Resolved
    <2>4. QED
      BY <1>4, <1>9, <1>11, <2>2, <2>3
  <1>12. CASE real = {}
    <2>1. Resolved(tried) = {}
      BY <1>8, <1>12 DEF Resolved
    <2>2. QED
      BY <1>4, <1>9, <1>12, <2>1
  <1>13. QED
    BY <1>10, <1>11, <1>12

Searched(name) == {j \in DOMAIN Startup : Startup[j].kind = "Search" /\ Startup[j].library = name}

LEMMA OnceSearched ==
    ASSUME load \in Loads, NEW name, NEW j \in Searched(name), NEW k \in Searched(name)
    PROVE  j = k
  <1>1. SearchesOnce(load)
    BY StoriesAssumption
  <1>2. \A i, l \in DOMAIN Startup :
            Startup[i].kind = "Search" /\ Startup[l].kind = "Search"
                /\ Startup[i].library = Startup[l].library => i = l
    BY <1>1, Zenon DEF SearchesOnce, Startup
  <1>3. QED
    BY <1>2 DEF Searched

LEMMA AliasesOf ==
    ASSUME load \in Loads, NEW n, n = Len(Story), NEW c, AllRead(n, c), NEW name
    PROVE  /\ \A j \in Searched(name) : /\ Aliases(name) = Resolved(Startup[j].tried)
                                        /\ Opened(name) = {FileOf(Startup[j])}
                                        /\ IsStep(Startup[j])
           /\ Searched(name) = {} => Aliases(name) = {} /\ Opened(name) = {}
  <1>1. n \in Nat /\ DOMAIN Story = 1 .. n /\ \A j \in 1 .. n : IsStep(Story[j])
    BY StoryFacts DEF IsList
  <1>2. PICK hits : hits = {k \in OfKind({"Search"}) :
                              steps[k].library = name /\ Resolved(steps[k].tried) # {}}
    OBVIOUS
  <1>3. Aliases(name) = IF hits = {} THEN {} ELSE Resolved(steps[Max(hits)].tried)
    BY <1>2 DEF Aliases
  <1>4. Opened(name) = {FileOf(Startup[j]) : j \in Searched(name)}
    BY DEF Opened, Searched
  <1>5. \A j \in Searched(name) : Opened(name) = {FileOf(Startup[j])}
    <2> SUFFICES ASSUME NEW j \in Searched(name) PROVE Opened(name) = {FileOf(Startup[j])}
      OBVIOUS
    <2>1. Searched(name) = {j}
      BY OnceSearched
    <2>2. QED
      BY <1>4, <2>1
  <1>6. Searched(name) = {} => Opened(name) = {}
    BY <1>4
  <1>7. ASSUME NEW j \in Searched(name)
        PROVE  j \in 1 .. c /\ j \in 1 .. n /\ Startup[j] = Story[j] /\ Leaves(j)
    <2>1. j \in DOMAIN Startup /\ Startup[j].kind = "Search"
      BY DEF Searched
    <2>2. j \in 1 .. c /\ j \in 1 .. n /\ Startup[j] = Story[j]
      BY <1>1, <2>1 DEF AllRead, StartIs
    <2>3. Leaves(j)
      BY <2>1, <2>2 DEF Leaves
    <2>4. QED
      BY <2>2, <2>3
  <1>8. ASSUME NEW k \in hits PROVE \E j \in Searched(name) : Place(j) = k
    <2>1. k \in DOMAIN steps /\ steps[k].kind = "Search" /\ steps[k].library = name
      BY <1>2 DEF OfKind
    <2>2. PICK j \in 1 .. n : Leaves(j) /\ Place(j) = k /\ steps[k] = Story[j]
      BY <2>1, ReadIsStory
    <2>3. j \in DOMAIN Startup /\ Startup[j] = Story[j]
      BY <1>1, <2>1, <2>2, LateIsLittle
    <2>4. QED
      BY <2>1, <2>2, <2>3 DEF Searched
  <1>9. ASSUME NEW j \in Searched(name)
        PROVE  /\ steps[Place(j)] = Story[j]
               /\ hits = IF Resolved(Story[j].tried) = {} THEN {} ELSE {Place(j)}
    <2>1. Place(j) \in DOMAIN steps /\ steps[Place(j)] = Story[j]
      BY <1>7, ReadIsStory
    <2>2. Story[j].kind = "Search" /\ Story[j].library = name
      BY <1>7 DEF Searched
    <2>3. Place(j) \in hits <=> Resolved(Story[j].tried) # {}
      BY <1>2, <2>1, <2>2 DEF OfKind
    <2>4. \A k \in hits : k = Place(j)
      BY <1>8, OnceSearched
    <2>5. QED
      BY <2>1, <2>3, <2>4
  <1>10. ASSUME NEW j \in Searched(name) PROVE Aliases(name) = Resolved(Story[j].tried)
    <2>1. CASE Resolved(Story[j].tried) = {}
      BY <1>3, <1>9, <2>1
    <2>2. CASE Resolved(Story[j].tried) # {}
      <3>1. Max({Place(j)}) = Place(j)
        <4>1. Place(j) \in Nat
          BY <1>7 DEF AllRead, Settled
        <4>2. PICK S : S = {Place(j)}
          OBVIOUS
        <4>3. S \in SUBSET Nat /\ S # {} /\ \A x \in S : x <= Place(j)
          BY <4>1, <4>2
        <4>4. Max(S) \in S
          BY <4>1, <4>3, MaxIs
        <4>5. QED
          BY <4>2, <4>4
      <3>2. hits = {Place(j)} /\ steps[Place(j)] = Story[j]
        BY <1>9, <2>2
      <3>3. QED
        BY <1>3, <3>1, <3>2
    <2>3. QED
      BY <2>1, <2>2
  <1>11. Searched(name) = {} => Aliases(name) = {}
    BY <1>3, <1>8
  <1>12. QED
    BY <1>1, <1>5, <1>6, <1>7, <1>10, <1>11

LEMMA SearchedAre ==
    ASSUME NEW name, NEW j \in Searched(name)
    PROVE  Startup[j] \in AtStart(load, {"Search"}) /\ Startup[j].library = name
  BY DEF Searched, AtStart, Elements, Startup

LEMMA AliasesAre ==
    ASSUME load \in Loads, NEW n, n = Len(Story), NEW c, AllRead(n, c), HitsAreAbsolute, NEW name
    PROVE  Aliases(name) = Opened(name)
  <1>1. CASE Searched(name) = {}
    BY <1>1, AliasesOf
  <1>2. CASE Searched(name) # {}
    <2>1. PICK j : j \in Searched(name)
      BY <1>2
    <2>2. /\ Aliases(name) = Resolved(Startup[j].tried)
          /\ Opened(name) = {FileOf(Startup[j])}
          /\ IsStep(Startup[j])
      BY <2>1, AliasesOf
    <2>3. Startup[j] \in AtStart(load, {"Search"})
      BY <2>1, SearchedAre
    <2>4. PICK s : s = Startup[j] /\ s \in AtStart(load, {"Search"}) /\ IsStep(s)
      BY <2>2, <2>3
    <2>5. Last(s.tried).absolute
      BY <2>4 DEF HitsAreAbsolute
    <2>6. Resolved(s.tried) = {FileOf(s)}
      BY <2>4, <2>5, SearchFacts
    <2>7. QED
      BY <2>2, <2>4, <2>6
  <1>3. QED
    BY <1>1, <1>2

LEMMA NeededIsTrue ==
    ASSUME load \in Loads, NEW n, n = Len(Story), NEW c, AllRead(n, c), HitsAreAbsolute
    PROVE  Says(NeededVerdict, \A m \in Wanted : Opened(m) # {})
  <1>1. \A m : Aliases(m) = Opened(m)
    BY AliasesAre
  <1>2. NeededVerdict # NotModelled => (NeededVerdict = Match <=> \A m \in Wanted : Opened(m) # {})
    BY <1>1, VerdictsDiffer DEF NeededVerdict
  <1>3. QED
    BY <1>2 DEF Says

LEMMA ResolutionIsTrue ==
    ASSUME load \in Loads, NEW n, n = Len(Story), NEW c, AllRead(n, c), HitsAreAbsolute, NEW lib
    PROVE  Says(ResolutionVerdict(lib),
                \E path \in Opened(lib.requested) : Canon(path) = Canon(lib.path))
  <1>1. Aliases(lib.requested) = Opened(lib.requested)
    BY AliasesAre
  <1>2. \A p, q \in Opened(lib.requested) : p = q
    <2>1. CASE Searched(lib.requested) = {}
      BY <2>1, AliasesOf
    <2>2. CASE Searched(lib.requested) # {}
      <3>1. PICK j : j \in Searched(lib.requested)
        BY <2>2
      <3>2. Opened(lib.requested) = {FileOf(Startup[j])}
        BY <3>1, AliasesOf
      <3>3. QED
        BY <3>2
    <2>3. QED
      BY <2>1, <2>2
  <1>3. QED
    BY <1>1, <1>2, VerdictsDiffer DEF Says, ResolutionVerdict

LEMMA TakenForProgram ==
    ASSUME ProgramIsKnown(Story), NEW k \in DOMAIN Story,
           Story[k].kind \in {"Relocate", "Init", "InitializeProgram", "Bind"}
    PROVE  Is(WhoIn(Story[k]), Program) <=> WhoIn(Story[k]) = load.program
  <1>1. Is(load.program, Program)
    BY DEF Is, Program
  <1>2. QED
    BY <1>1 DEF ProgramIsKnown

LEMMA InitIsTrue ==
    ASSUME load \in Loads, NEW n, n = Len(Story), NEW c, AllRead(n, c), ProgramIsKnown(Story)
    PROVE  Says(InitVerdict, Story[Max(Told({"Init", "InitializeProgram"}))].object = load.program)
  <1>1. n \in Nat /\ DOMAIN Story = 1 .. n
    BY StoryFacts DEF IsList
  <1>2. PICK T : T = Told({"Init", "InitializeProgram"})
    OBVIOUS
  <1>3. \A j : j \in T <=> j \in 1 .. n /\ Story[j].kind \in {"Init", "InitializeProgram"}
    BY <1>1, <1>2 DEF Told
  <1>4. \A i : i \in InitOrder <=> i \in DOMAIN steps /\ steps[i].kind \in {"Init", "InitializeProgram"}
    BY DEF InitOrder, OfKind
  <1>5. ASSUME NEW j \in T PROVE j \in 1 .. n /\ Leaves(j) /\ Place(j) \in InitOrder /\ steps[Place(j)] = Story[j]
    <2>1. j \in 1 .. n /\ Leaves(j) /\ Story[j].kind \in {"Init", "InitializeProgram"}
      BY <1>3 DEF Leaves
    <2>2. QED
      BY <1>4, <2>1, ReadIsStory
  <1>6. ASSUME NEW i \in InitOrder PROVE \E j \in T : Place(j) = i
    BY <1>3, <1>4, ReadIsStory
  <1>7. PICK l \in Nat : l = Len(steps) /\ DOMAIN steps = 1 .. l
    BY DEF AllRead, Settled
  <1>8. CASE InitOrder = {}
    <2>1. Position(InitOrder, Program) = {}
      BY <1>8 DEF Position
    <2>2. QED
      BY <2>1 DEF InitVerdict, Says
  <1>9. CASE InitOrder # {}
    <2>1. T # {} /\ T \in SUBSET Nat /\ \A x \in T : x <= n
      BY <1>1, <1>3, <1>6, <1>9
    <2>2. PICK m : m = Max(T) /\ m \in T /\ \A x \in T : x <= m
      BY <1>1, <2>1, MaxIs
    <2>3. InitOrder \in SUBSET Nat /\ \A x \in InitOrder : x <= l
      BY <1>4, <1>7
    <2>4. PICK i : i = Max(InitOrder) /\ i \in InitOrder /\ \A x \in InitOrder : x <= i
      BY <1>7, <1>9, <2>3, MaxIs
    <2>5. PICK j \in T : Place(j) = i
      BY <1>6, <2>4
    <2>6. ~(m < j)
      BY <1>1, <2>1, <2>2
    <2>7. ~(Place(m) < Place(j))
      BY <1>5, <2>2, <2>6 DEF AllRead, Settled
    <2>8. Place(m) <= i /\ Place(m) \in Nat /\ i \in Nat
      BY <1>5, <2>2, <2>3, <2>4
    <2>9. PICK a \in Nat : a = Place(m) /\ a <= i /\ ~(a < i)
      BY <2>5, <2>7, <2>8
    <2>10. Place(m) = i
      BY <2>8, <2>9
    <2>11. steps[Max(InitOrder)] = Story[Max(T)]
      BY <1>5, <2>2, <2>4, <2>10
    <2>12. InitVerdict # NotModelled =>
              (InitVerdict = Match <=> Is(Story[Max(T)].object, Program))
      BY <2>11, VerdictsDiffer DEF InitVerdict
    <2>13. m \in DOMAIN Story /\ Story[m].kind \in {"Init", "InitializeProgram"}
      BY <1>1, <1>3, <2>2
    <2>14. Is(Story[m].object, Program) <=> Story[m].object = load.program
      BY <2>13, TakenForProgram DEF WhoIn
    <2>15. QED
      BY <1>2, <2>2, <2>12, <2>14 DEF Says
  <1>10. QED
    BY <1>8, <1>9

LEMMA SymbolsIsTrue ==
    ASSUME load \in Loads, NEW n, n = Len(Story), NEW c, AllRead(n, c), ProgramIsKnown(Story)
    PROVE  Says(SymbolsVerdict, \A m \in MustBind : \E k \in Told({"Bind"}) :
                                    Story[k].from = load.program /\ Story[k].symbol = m)
  <1>1. DOMAIN Story = 1 .. n
    BY StoryFacts DEF IsList
  <1>2. \A m : m \in BoundSymbols(Program) <=>
            \E i \in DOMAIN steps : steps[i].kind = "Bind" /\ Is(steps[i].from, Program) /\ steps[i].symbol = m
    BY DEF BoundSymbols, OfKind
  <1>3. ASSUME NEW m
        PROVE  m \in BoundSymbols(Program) <=>
                  \E k \in Told({"Bind"}) : Is(Story[k].from, Program) /\ Story[k].symbol = m
    <2>1. ASSUME NEW k \in Told({"Bind"}), Is(Story[k].from, Program), Story[k].symbol = m
          PROVE  m \in BoundSymbols(Program)
      <3>1. k \in 1 .. n /\ Story[k].kind = "Bind" /\ Leaves(k)
        BY <1>1 DEF Told, Leaves
      <3>2. Place(k) \in DOMAIN steps /\ steps[Place(k)] = Story[k]
        BY <3>1, ReadIsStory
      <3>3. QED
        BY <1>2, <2>1, <3>1, <3>2
    <2>2. ASSUME m \in BoundSymbols(Program)
          PROVE  \E k \in Told({"Bind"}) : Is(Story[k].from, Program) /\ Story[k].symbol = m
      <3>1. PICK i \in DOMAIN steps : steps[i].kind = "Bind" /\ Is(steps[i].from, Program) /\ steps[i].symbol = m
        BY <1>2, <2>2
      <3>2. PICK j \in 1 .. n : Leaves(j) /\ Place(j) = i /\ steps[i] = Story[j]
        BY ReadIsStory
      <3>3. j \in Told({"Bind"})
        BY <1>1, <3>1, <3>2 DEF Told
      <3>4. QED
        BY <3>1, <3>2, <3>3
    <2>3. QED
      BY <2>1, <2>2
  <1>4. SymbolsVerdict # NotModelled => (SymbolsVerdict = Match <=> MustBind \subseteq BoundSymbols(Program))
    BY VerdictsDiffer DEF SymbolsVerdict
  <1>5. ASSUME NEW k \in Told({"Bind"})
        PROVE  Is(Story[k].from, Program) <=> Story[k].from = load.program
    <2>1. k \in DOMAIN Story /\ Story[k].kind = "Bind"
      BY DEF Told
    <2>2. QED
      BY <2>1, TakenForProgram DEF WhoIn
  <1>6. QED
    BY <1>3, <1>4, <1>5 DEF Says

\* When the log of one process ends, all is read.
LEMMA EndedAllRead ==
    ASSUME LogInv, ended, Alone, NothingOpenedLate
    PROVE  load \in Loads /\ \E n, c : n = Len(Story) /\ AllRead(n, c)
  <1>1. load \in Loads /\ steps = ReadUpTo(Len(Story))
    BY DEF LogInv
  <1>2. PICK n \in Nat : n = Len(Story)
    BY <1>1, StoryFacts DEF IsList
  <1>3. PICK c : StartIs(n, c)
    BY <1>1, <1>2, StartFacts
  <1>4. n \in 0 .. n
    BY <1>2
  <1>5. Begins(n)
    BY <1>1, <1>2, <1>4, ReadIsList DEF Begins
  <1>6. Settled(n)
    BY <1>1, <1>2, <1>4, <1>5, BeginsSettles
  <1>7. Len(steps) = Place(n)
    BY <1>1, <1>2 DEF Place
  <1>8. QED
    BY <1>1, <1>2, <1>3, <1>6, <1>7 DEF AllRead

LEMMA InvsImplyVerdicts == LogInv /\ StartInv => VerdictsAreTrue
  <1> SUFFICES ASSUME LogInv, StartInv, ended PROVE VerdictsAreTrue
    BY DEF VerdictsAreTrue
  <1>1. load \in Loads
    BY DEF StartInv
  <1>2. PICK n \in Nat : n = Len(Story)
    BY <1>1, StoryFacts DEF IsList
  <1>3. PICK c \in 1 .. n : StartIs(n, c) /\ Begins(c)
    BY <1>2 DEF StartInv, Starting
  <1>4. c \in 0 .. n
    BY <1>2
  <1>5. Settled(c)
    BY <1>1, <1>2, <1>3, <1>4, BeginsSettles
  <1>6. ASSUME ProgramIsKnown(Startup)
        PROVE  /\ Says(OrderVerdict, \E o \in RelocatedObjects : Before(o, load.program))
               /\ Says(BindingVerdict,
                       \E k \in Relocated(load.program) : Startup[k].lazy = ~load.ours.bindNow)
    BY <1>1, <1>2, <1>3, <1>5, <1>6, OrderIsTrue, BindingIsTrue
  <1>7. ASSUME LibrariesAreKnown
        PROVE  Says(DependencyVerdict, \A lib \in load.ours.libs : lib.path[2] # Loader =>
                       \A o \in Named(lib.path), u \in Named(lib.by) : ~Before(u, o))
    BY <1>1, <1>2, <1>3, <1>5, <1>7, DependencyIsTrue
  <1>8. ASSUME Alone, NothingOpenedLate, ProgramIsKnown(Story)
        PROVE  /\ Says(InitVerdict,
                       Story[Max(Told({"Init", "InitializeProgram"}))].object = load.program)
               /\ Says(SymbolsVerdict, \A m \in MustBind : \E k \in Told({"Bind"}) :
                       Story[k].from = load.program /\ Story[k].symbol = m)
    <2>1. PICK e : AllRead(n, e)
      BY <1>2, <1>8, EndedAllRead
    <2>2. QED
      BY <1>1, <1>2, <1>8, <2>1, InitIsTrue, SymbolsIsTrue
  <1>9. ASSUME Alone, NothingOpenedLate, HitsAreAbsolute
        PROVE  /\ Says(NeededVerdict, \A m \in Wanted : Opened(m) # {})
               /\ \A lib \in load.ours.libs :
                     Says(ResolutionVerdict(lib),
                          \E path \in Opened(lib.requested) : Canon(path) = Canon(lib.path))
    <2>1. PICK e : AllRead(n, e)
      BY <1>2, <1>9, EndedAllRead
    <2>2. QED
      BY <1>1, <1>2, <1>9, <2>1, NeededIsTrue, ResolutionIsTrue
  <1>10. QED
    BY <1>6, <1>7, <1>8, <1>9 DEF VerdictsAreTrue

\* A divergence is reported if, and only if, there is one: what elfa compare and elfa
\* process --verify conclude from the orders, the bindings and the searches that they
\* find in the steps is what happened, whatever the program opens and its children
\* print once it runs.  This holds of every story of a process that ld.so starts
\* (StoriesAssumption), where no other object has a path that ends, or looks, like the
\* program's, a library's or the loader's, and no library is found by a relative path.
THEOREM VerdictsAreRight == Spec => []VerdictsAreTrue
  <1>1. Init => LogInv /\ StartInv
    BY InitLogInv, InitStartInv
  <1>2. LogInv /\ StartInv /\ [Next]_vars => (LogInv /\ StartInv)'
    BY NextLogInv, NextStartInv
  <1>3. LogInv /\ StartInv => VerdictsAreTrue
    BY InvsImplyVerdicts
  <1>4. QED
    BY <1>1, <1>2, <1>3, PTL DEF Spec

-----------------------------------------------------------------------------
(* The objects of a log.                                                   *)

\* What is laid end to end has the elements of each.
LEMMA FlatElements ==
    ASSUME NEW S, NEW q \in Seq(Seq(S))
    PROVE  \A x : x \in Elements(FlattenSeq(q)) <=> \E k \in DOMAIN q : x \in Elements(q[k])
  <1>1. PICK T : T = Seq(S)
    OBVIOUS
  <1>2. PICK n \in Nat : n = Len(q) /\ DOMAIN q = 1 .. n /\ \A k \in 1 .. n : q[k] \in T
    BY <1>1
  <1>3. PICK f : f = [k \in 0 .. n |-> FirstFlat(q, k)]
    OBVIOUS
  <1>4. /\ f[0] = <<>> /\ f[n] = FlattenSeq(q)
        /\ \A k \in 0 .. n : f[k] \in Seq(S)
        /\ \A k \in 1 .. n : f[k] = f[k - 1] \o q[k]
    <2>1. 0 \in 0 .. n /\ n \in 0 .. n
      BY <1>2
    <2>2. f[0] = <<>> /\ f[n] = FlattenSeq(q)
      BY <1>2, <1>3, <2>1, FirstFlatFacts
    <2>3. ASSUME NEW k \in 0 .. n PROVE f[k] \in Seq(S)
      BY <1>2, <1>3, FirstFlatFacts
    <2>4. ASSUME NEW k \in 1 .. n PROVE f[k] = f[k - 1] \o q[k]
      <3>1. PICK p : p = k - 1 /\ p \in 0 .. n - 1 /\ p \in 0 .. n /\ k \in 0 .. n /\ p + 1 = k
        <4>1. k - 1 \in 0 .. n - 1 /\ k - 1 \in 0 .. n /\ k \in 0 .. n /\ (k - 1) + 1 = k
          BY <1>2
        <4>2. QED
          BY <4>1
      <3>2. FirstFlat(q, p + 1) = FirstFlat(q, p) \o q[p + 1]
        BY <1>2, <3>1, FirstFlatFacts
      <3>3. QED
        BY <1>3, <3>1, <3>2
    <2>5. QED
      BY <2>2, <2>3, <2>4
  <1>5. ASSUME NEW k \in 1 .. n
        PROVE  \A x : x \in Elements(f[k]) <=> x \in Elements(f[k - 1]) \/ x \in Elements(q[k])
    <2>1. k - 1 \in 0 .. n
      BY <1>2
    <2>2. PICK a \in Seq(S), b \in Seq(S) : a = f[k - 1] /\ b = q[k]
      BY <1>1, <1>2, <1>4, <2>1
    <2>3. PICK l \in Nat, m \in Nat : l = Len(a) /\ m = Len(b) /\ DOMAIN a = 1 .. l /\ DOMAIN b = 1 .. m
      OBVIOUS
    <2>4. PICK d : d = a \o b /\ d \in Seq(S) /\ DOMAIN d = 1 .. l + m
      <3>1. PICK d \in Seq(S) : d = a \o b /\ Len(d) = l + m
        <4>1. \A x, y : x = Len(a) /\ y = Len(b) /\ x \in Nat /\ y \in Nat =>
                 a \o b \in Seq(S) /\ Len(a \o b) = x + y
          BY ConcatFacts
        <4>2. a \o b \in Seq(S) /\ Len(a \o b) = l + m
          BY <2>3, <4>1
        <4>3. QED
          BY <4>2
      <3>2. DOMAIN d = 1 .. Len(d)
        OBVIOUS
      <3>3. QED
        BY <3>1, <3>2
    <2>5. (\A i \in 1 .. l : d[i] = a[i]) /\ (\A i \in 1 .. m : d[l + i] = b[i])
      BY <2>3, <2>4, ConcatFacts
    <2>6. \A i \in 1 .. l : i \in 1 .. l + m
      BY <2>3
    <2>7. \A i \in 1 .. m : l + i \in 1 .. l + m
      BY <2>3
    <2>8. ASSUME NEW i \in 1 .. l + m PROVE i \in 1 .. l \/ \E j \in 1 .. m : i = l + j
      <3>1. i \in 1 .. l \/ (i - l \in 1 .. m /\ i = l + (i - l))
        BY <2>3
      <3>2. QED
        BY <3>1
    <2>9. \A x : x \in Elements(d) <=> x \in Elements(a) \/ x \in Elements(b)
      <3>1. ASSUME NEW x, x \in Elements(d) PROVE x \in Elements(a) \/ x \in Elements(b)
        <4>1. PICK i \in 1 .. l + m : d[i] = x
          BY <2>4, <3>1 DEF Elements
        <4>2. CASE i \in 1 .. l
          <5>1. a[i] = x
            BY <2>5, <4>1, <4>2
          <5>2. QED
            BY <2>3, <4>2, <5>1 DEF Elements
        <4>3. ASSUME NEW j \in 1 .. m, i = l + j PROVE x \in Elements(b)
          <5>1. b[j] = x
            BY <2>5, <4>1, <4>3
          <5>2. QED
            BY <2>3, <5>1 DEF Elements
        <4>4. QED
          BY <2>8, <4>2, <4>3
      <3>2. ASSUME NEW x, x \in Elements(a) PROVE x \in Elements(d)
        BY <2>3, <2>4, <2>5, <2>6, <3>2 DEF Elements
      <3>3. ASSUME NEW x, x \in Elements(b) PROVE x \in Elements(d)
        BY <2>3, <2>4, <2>5, <2>7, <3>3 DEF Elements
      <3>4. QED
        BY <3>1, <3>2, <3>3
    <2>10. QED
      BY <1>4, <2>2, <2>4, <2>9
  <1> DEFINE Good(k) == \A x : x \in Elements(f[k]) <=> \E j \in 1 .. k : x \in Elements(q[j])
             bad == {k \in 0 .. n : ~Good(k)}
  <1>6. Good(0)
    <2>1. Elements(<<>>) = {}
      BY DEF Elements
    <2>2. QED
      BY <1>4, <2>1
  <1>7. ASSUME NEW k \in 1 .. n, NEW p, p = k - 1, Good(p) PROVE Good(k)
    <2>1. \A x : x \in Elements(f[k]) <=> x \in Elements(f[p]) \/ x \in Elements(q[k])
      BY <1>5, <1>7
    <2>2. \A j : j \in 1 .. k <=> j \in 1 .. p \/ j = k
      BY <1>7
    <2>3. QED
      BY <1>7, <2>1, <2>2
  <1>8. bad = {}
    <2> SUFFICES ASSUME bad # {} PROVE FALSE
      OBVIOUS
    <2>1. bad \in SUBSET Nat /\ \A k \in bad : k \in 0 .. n /\ ~Good(k)
      OBVIOUS
    <2>2. \A k \in 0 .. n : k \notin bad => Good(k)
      OBVIOUS
    <2> HIDE DEF bad, Good
    <2>3. PICK k \in bad : \A x \in bad : k <= x
      BY <2>1, LeastOf
    <2>4. k \in 0 .. n /\ k # 0
      BY <1>6, <2>1
    <2>5. PICK p : p = k - 1 /\ p \in 0 .. n /\ k \in 1 .. n /\ ~(k <= p)
      <3>1. k - 1 \in 0 .. n /\ k \in 1 .. n /\ ~(k <= k - 1)
        BY <1>2, <2>4
      <3>2. QED
        BY <3>1
    <2>6. Good(p)
      BY <2>2, <2>3, <2>5
    <2>7. QED
      BY <1>7, <2>1, <2>5, <2>6
  <1>9. Good(n)
    <2>1. n \in 0 .. n
      BY <1>2
    <2>2. QED
      BY <1>8, <2>1
  <1>10. QED
    BY <1>2, <1>4, <1>9

LEMMA MentionedIsList ==
    ASSUME NEW s
    PROVE  IsList(Mentioned(s))
  <1>1. IsList(<<>>)
    <2>1. <<>> \in Seq({})
      OBVIOUS
    <2>2. QED
      BY <2>1, ListOfAny
  <1>2. \A a, b : IsList(<<a>>) /\ IsList(<<a, b>>)
    BY ShortLists
  <1>3. QED
    BY <1>1, <1>2 DEF Mentioned

\* A list of lists of any length.
LEMMA ListOfLists ==
    ASSUME NEW n \in Nat, NEW q, DOMAIN q = 1 .. n, q = [k \in 1 .. n |-> q[k]],
           \A k \in 1 .. n : IsList(q[k])
    PROVE  \E S : q \in Seq(Seq(S))
  <1>1. PICK S : S = UNION {Elements(q[k]) : k \in 1 .. n}
    OBVIOUS
  <1>2. ASSUME NEW k \in 1 .. n PROVE q[k] \in Seq(S)
    <2>1. PICK s : s = q[k] /\ IsList(s)
      OBVIOUS
    <2>2. s \in Seq(Elements(s))
      BY <2>1 DEF IsList
    <2>3. Elements(s) \subseteq S
      BY <1>1, <2>1
    <2>4. s \in Seq(S)
      BY <2>2, <2>3, SeqOfMore
    <2>5. QED
      BY <2>1, <2>4
  <1>3. PICK T : T = Seq(S)
    OBVIOUS
  <1>4. q \in Seq(T)
    BY <1>2, <1>3
  <1>5. QED
    BY <1>3, <1>4

LEMMA NamesAre ==
    ASSUME NEW n \in Nat, DOMAIN steps = 1 .. n
    PROVE  /\ IsList(Names)
           /\ \A x : x \in Elements(Names) <=> \E i \in DOMAIN steps : x \in Elements(Mentioned(steps[i]))
  <1>1. PICK q : q = [k \in DOMAIN steps |-> Mentioned(steps[k])]
    OBVIOUS
  <1>2. DOMAIN q = 1 .. n /\ q = [k \in 1 .. n |-> q[k]] /\ \A k \in 1 .. n : q[k] = Mentioned(steps[k])
    BY <1>1
  <1>3. \A k \in 1 .. n : IsList(q[k])
    BY <1>2, MentionedIsList
  <1>4. PICK S : q \in Seq(Seq(S))
    BY <1>2, <1>3, ListOfLists
  <1>5. FlattenSeq(q) = Names
    BY <1>1 DEF Names
  <1>6. FlattenSeq(q) \in Seq(S)
    BY <1>4, FirstFlatFacts
  <1>7. \A x : x \in Elements(FlattenSeq(q)) <=> \E k \in DOMAIN q : x \in Elements(q[k])
    BY <1>4, FlatElements
  <1>8. QED
    BY <1>2, <1>5, <1>6, <1>7, ListOfAny

\* Each once is each.
LEMMA ObjectsAre ==
    ASSUME IsList(Names)
    PROVE  \A x : x \in Elements(Objects) <=> \E name \in Elements(Names) : x = Canonical(name)
  <1>1. PICK n \in Nat : n = Len(Names) /\ DOMAIN Names = 1 .. n
    BY ListLength
  <1>2. PICK q : q = [k \in DOMAIN Names |-> IF IsFirst(k) THEN <<Canonical(Names[k])>> ELSE <<>>]
    OBVIOUS
  <1>3. /\ DOMAIN q = 1 .. n /\ q = [k \in 1 .. n |-> q[k]]
        /\ \A k \in 1 .. n : q[k] = IF IsFirst(k) THEN <<Canonical(Names[k])>> ELSE <<>>
    BY <1>1, <1>2
  <1>4. IsList(<<>>) /\ \A x : IsList(<<x>>)
    <2>1. <<>> \in Seq({})
      OBVIOUS
    <2>2. QED
      BY <2>1, ListOfAny, ShortLists
  <1>5. PICK S : q \in Seq(Seq(S))
    <2>1. \A k \in 1 .. n : IsList(q[k])
      BY <1>3, <1>4
    <2>2. QED
      BY <1>3, <2>1, ListOfLists
  <1>6. \A x : x \in Elements(Objects) <=> \E k \in DOMAIN q : x \in Elements(q[k])
    BY <1>2, <1>5, FlatElements DEF Objects
  <1>7. Elements(<<>>) = {} /\ \A y : Elements(<<y>>) = {y}
    BY DEF Elements
  <1>8. \A x : \A k \in 1 .. n : x \in Elements(q[k]) <=> IsFirst(k) /\ x = Canonical(Names[k])
    BY <1>3, <1>7
  <1>9. ASSUME NEW k \in 1 .. n
        PROVE  \E j \in 1 .. n : IsFirst(j) /\ Canonical(Names[j]) = Canonical(Names[k])
    <2>1. PICK same : same = {j \in 1 .. n : Canonical(Names[j]) = Canonical(Names[k])}
      OBVIOUS
    <2>2. same \in SUBSET Nat /\ k \in same
      BY <2>1
    <2>3. PICK j \in same : \A i \in same : j <= i
      BY <2>2, LeastOf
    <2>4. j \in 1 .. n /\ Canonical(Names[j]) = Canonical(Names[k])
      BY <2>1
    <2>5. ASSUME NEW i \in 1 .. j - 1 PROVE Canonical(Names[i]) # Canonical(Names[j])
      <3>1. i \in 1 .. n /\ ~(j <= i)
        BY <1>1, <2>4
      <3>2. QED
        BY <2>1, <2>3, <2>4, <3>1
    <2>6. IsFirst(j)
      BY <2>5 DEF IsFirst
    <2>7. QED
      BY <2>4, <2>6
  <1>10. \A x : x \in Elements(Objects) <=> \E k \in 1 .. n : x = Canonical(Names[k])
    BY <1>3, <1>6, <1>8, <1>9
  <1>11. QED
    BY <1>1, <1>10 DEF Elements

\* What a story mentions.
LEMMA MentionedAre ==
    ASSUME NEW s
    PROVE  /\ s.kind = "Needed" => Elements(Mentioned(s)) = {s.by, s.file}
           /\ s.kind = "LinkMap" => Elements(Mentioned(s)) = {s.file}
           /\ s.kind \in {"Scope", "Relocate", "Init", "InitializeProgram", "TransferControl"} =>
                 Elements(Mentioned(s)) = {s.object}
           /\ s.kind \in {"Search", "Bind", "Fini", "Other"} => Elements(Mentioned(s)) = {}
  <1>1. Elements(<<>>) = {} /\ (\A y : Elements(<<y>>) = {y}) /\ \A y, z : Elements(<<y, z>>) = {y, z}
    BY DEF Elements
  <1>2. /\ s.kind = "Needed" => Mentioned(s) = <<s.by, s.file>>
        /\ s.kind = "LinkMap" => Mentioned(s) = <<s.file>>
        /\ s.kind \in {"Scope", "Relocate", "Init", "InitializeProgram", "TransferControl"} =>
              Mentioned(s) = <<s.object>>
        /\ s.kind \in {"Search", "Bind", "Fini", "Other"} => Mentioned(s) = <<>>
    BY DEF Mentioned
  <1>3. QED
    BY <1>1, <1>2

LEMMA ReadNames ==
    ASSUME load \in Loads, NEW n, n = Len(Story), NEW c, AllRead(n, c)
    PROVE  \A x : x \in Elements(Names) <=>
              \E j \in 1 .. n : Leaves(j) /\ x \in Elements(Mentioned(Story[j]))
  <1>1. PICK l \in Nat : DOMAIN steps = 1 .. l
    BY DEF AllRead, Settled
  <1>2. \A x : x \in Elements(Names) <=> \E i \in DOMAIN steps : x \in Elements(Mentioned(steps[i]))
    BY <1>1, NamesAre
  <1>3. ASSUME NEW x, NEW i \in DOMAIN steps, x \in Elements(Mentioned(steps[i]))
        PROVE  \E j \in 1 .. n : Leaves(j) /\ x \in Elements(Mentioned(Story[j]))
    <2>1. PICK j \in 1 .. n : Leaves(j) /\ steps[i] = Story[j]
      BY ReadIsStory
    <2>2. QED
      BY <1>3, <2>1
  <1>4. ASSUME NEW x, NEW j \in 1 .. n, Leaves(j), x \in Elements(Mentioned(Story[j]))
        PROVE  \E i \in DOMAIN steps : x \in Elements(Mentioned(steps[i]))
    <2>1. Place(j) \in DOMAIN steps /\ steps[Place(j)] = Story[j]
      BY <1>4, ReadIsStory
    <2>2. QED
      BY <1>4, <2>1
  <1>5. QED
    BY <1>2, <1>3, <1>4

\* A name that is searched for is the file that was opened, any other is itself.
LEMMA CanonicalIs ==
    ASSUME load \in Loads, NEW n, n = Len(Story), NEW c, AllRead(n, c), NEW name
    PROVE  /\ \A s \in AtStart(load, {"Search"}) : s.library = name =>
                 /\ FilesOf(name) = {FileOf(s)}
                 /\ Last(s.tried).absolute => Canonical(name) = FileOf(s)
                 /\ ~Last(s.tried).absolute =>
                       \/ Canonical(name) = name
                       \/ \E k \in 1 .. Len(s.tried) - 1 : Canonical(name) = s.tried[k].path
           /\ (\A s \in AtStart(load, {"Search"}) : s.library # name) =>
                 Canonical(name) = name /\ FilesOf(name) = {name}
  <1>1. ASSUME NEW s \in AtStart(load, {"Search"}), s.library = name
        PROVE  /\ FilesOf(name) = {FileOf(s)}
               /\ Last(s.tried).absolute => Canonical(name) = FileOf(s)
               /\ ~Last(s.tried).absolute =>
                     \/ Canonical(name) = name
                     \/ \E k \in 1 .. Len(s.tried) - 1 : Canonical(name) = s.tried[k].path
    <2>1. PICK j \in DOMAIN Startup : Startup[j] = s /\ s.kind = "Search"
      BY DEF AtStart, Elements, Startup
    <2>2. j \in Searched(name)
      BY <1>1, <2>1 DEF Searched
    <2>3. Aliases(name) = Resolved(s.tried) /\ Opened(name) = {FileOf(s)} /\ IsStep(s)
      BY <2>1, <2>2, AliasesOf
    <2>4. FilesOf(name) = {FileOf(s)}
      BY <2>3 DEF FilesOf
    <2>5. CASE Last(s.tried).absolute
      BY <2>3, <2>4, <2>5, SearchFacts DEF Canonical
    <2>6. CASE ~Last(s.tried).absolute
      <3>1. CASE Resolved(s.tried) = {}
        BY <2>3, <2>4, <2>6, <3>1 DEF Canonical
      <3>2. CASE Resolved(s.tried) # {}
        <4>1. PICK k \in 1 .. Len(s.tried) - 1 : Resolved(s.tried) = {s.tried[k].path}
          BY <2>3, <2>6, <3>2, SearchFacts
        <4>2. PICK p : p = s.tried[k].path
          OBVIOUS
        <4>3. Aliases(name) = {p}
          BY <2>3, <4>1, <4>2
        <4>4. Canonical(name) = p
          BY <4>3 DEF Canonical
        <4>5. QED
          BY <2>4, <2>6, <4>2, <4>4
      <3>3. QED
        BY <3>1, <3>2
    <2>7. QED
      BY <2>5, <2>6
  <1>2. ASSUME \A s \in AtStart(load, {"Search"}) : s.library # name
        PROVE  Canonical(name) = name /\ FilesOf(name) = {name}
    <2>1. Searched(name) = {}
      BY <1>2 DEF Searched, AtStart, Elements, Startup
    <2>2. QED
      BY <2>1, AliasesOf DEF Canonical, FilesOf
  <1>3. QED
    BY <1>1, <1>2

LEMMA AtStartIs ==
    ASSUME load \in Loads, NEW n, n = Len(Story), NEW c, AllRead(n, c), NEW kinds
    PROVE  /\ kinds \cap {"Bind", "Fini"} = {} =>
                 \A j \in 1 .. n : Story[j].kind \in kinds => Story[j] \in AtStart(load, kinds)
           /\ \A s \in AtStart(load, kinds) : \E j \in Told(kinds) : s = Story[j]
  <1>1. n \in Nat /\ DOMAIN Story = 1 .. n
    BY StoryFacts DEF IsList
  <1>2. ASSUME kinds \cap {"Bind", "Fini"} = {}, NEW j \in 1 .. n, Story[j].kind \in kinds
        PROVE  Story[j] \in AtStart(load, kinds)
    <2>1. j \in DOMAIN Startup /\ Startup[j] = Story[j]
      BY <1>1, <1>2, LateIsLittle
    <2>2. QED
      BY <1>2, <2>1 DEF AtStart, Elements, Startup
  <1>3. ASSUME NEW s \in AtStart(load, kinds) PROVE \E j \in Told(kinds) : s = Story[j]
    <2>1. PICK j \in DOMAIN Startup : Startup[j] = s /\ s.kind \in kinds
      BY DEF AtStart, Elements, Startup
    <2>2. j \in 1 .. n /\ Story[j] = s
      BY <1>1, <2>1 DEF AllRead, StartIs
    <2>3. QED
      BY <1>1, <2>1, <2>2 DEF Told
  <1>4. QED
    BY <1>2, <1>3

\* What the stories of a startup call by which name.
Searches == AtStart(load, {"Search"})
SearchNames == {q.library : q \in Searches}
PathNames ==
    {load.program} \cup {FileOf(q) : q \in Searches}
        \cup ({q.file : q \in AtStart(load, {"Needed"})} \ SearchNames)

LEMMA CallsFacts ==
    ASSUME load \in Loads
    PROVE  /\ \A q \in AtStart(load, {"Needed"}) : q.by \in PathNames
           /\ \A q \in AtStart(load, {"LinkMap"}) : \E m \in AtStart(load, {"Needed"}) : q.file = m.file
           /\ \A q \in Searches : \E m \in AtStart(load, {"Needed"}) : q.library = m.file
           /\ \A q \in AtStart(load, {"InitializeProgram", "TransferControl"}) : q.object = load.program
           /\ \A q \in AtStart(load, {"Scope", "Relocate", "Init"}) : q.object \notin SearchNames
           /\ PathNames \cap SearchNames = {}
  <1>1. CallsFilesByPath(load)
    BY StoriesAssumption
  <1>2. QED
    BY <1>1 DEF CallsFilesByPath, Searches, SearchNames, PathNames

\* A name that was not searched for is itself, and is its own file.
LEMMA PathIsItself ==
    ASSUME load \in Loads, NEW n, n = Len(Story), NEW c, AllRead(n, c), NEW name, name \notin SearchNames
    PROVE  Canonical(name) = name /\ FilesOf(name) = {name}
  <1>1. \A q \in AtStart(load, {"Search"}) : q.library # name
    BY DEF SearchNames, Searches
  <1>2. QED
    BY <1>1, CanonicalIs

LEMMA PathNamesAreFiles ==
    ASSUME load \in Loads, NEW n, n = Len(Story), NEW c, AllRead(n, c)
    PROVE  /\ PathNames \subseteq Files
           /\ \A m \in AtStart(load, {"Needed"}) : FilesOf(m.file) \subseteq Files
  <1>1. ASSUME NEW m \in AtStart(load, {"Needed"}) PROVE FilesOf(m.file) \subseteq Files
    <2>1. \E k \in Told({"Needed"}) : m = Story[k]
      BY AtStartIs
    <2>2. QED
      BY <2>1 DEF Files
  <1>2. ASSUME NEW q \in Searches PROVE FileOf(q) \in Files
    <2>1. PICK m \in AtStart(load, {"Needed"}) : q.library = m.file
      BY CallsFacts
    <2>2. FilesOf(m.file) = {FileOf(q)}
      BY <2>1, CanonicalIs DEF Searches
    <2>3. QED
      BY <1>1, <2>2
  <1>3. ASSUME NEW m \in AtStart(load, {"Needed"}), m.file \notin SearchNames PROVE m.file \in Files
    <2>1. FilesOf(m.file) = {m.file}
      BY <1>3, PathIsItself
    <2>2. QED
      BY <1>1, <2>1
  <1>4. load.program \in Files
    BY DEF Files
  <1>5. QED
    BY <1>1, <1>2, <1>3, <1>4 DEF PathNames

\* The names of a log, each by the file that it is of.
LEMMA MentionedAreFiles ==
    ASSUME load \in Loads, NEW n, n = Len(Story), NEW c, AllRead(n, c), HitsAreAbsolute,
           NEW j \in 1 .. n, NEW x \in Elements(Mentioned(Story[j]))
    PROVE  Canonical(x) \in Files
  <1>1. DOMAIN Story = 1 .. n /\ IsStep(Story[j])
    BY StoryFacts DEF IsList
  <1>2. PICK s : s = Story[j]
    OBVIOUS
  <1>3. ASSUME NEW name, name \in SearchNames PROVE Canonical(name) \in Files
    <2>1. PICK q \in Searches : q.library = name
      BY <1>3 DEF SearchNames
    <2>2. Last(q.tried).absolute
      BY DEF Searches, HitsAreAbsolute
    <2>3. Canonical(name) = FileOf(q)
      BY <2>1, <2>2, CanonicalIs DEF Searches
    <2>4. QED
      BY <2>3, PathNamesAreFiles DEF PathNames
  <1>4. ASSUME NEW name, name \in PathNames PROVE Canonical(name) \in Files
    <2>1. name \notin SearchNames
      BY <1>4, CallsFacts
    <2>2. QED
      BY <1>4, <2>1, PathIsItself, PathNamesAreFiles
  <1>5. ASSUME NEW m \in AtStart(load, {"Needed"}) PROVE Canonical(m.file) \in Files
    BY <1>3, <1>4 DEF PathNames
  <1>6. \A kinds : kinds \cap {"Bind", "Fini"} = {} /\ s.kind \in kinds => s \in AtStart(load, kinds)
    BY <1>2, AtStartIs
  <1>7. CASE s.kind = "Needed"
    <2>1. s \in AtStart(load, {"Needed"}) /\ (x = s.by \/ x = s.file)
      BY <1>2, <1>6, <1>7, MentionedAre
    <2>2. QED
      BY <1>4, <1>5, <2>1, CallsFacts
  <1>8. CASE s.kind = "LinkMap"
    <2>1. s \in AtStart(load, {"LinkMap"}) /\ x = s.file
      BY <1>2, <1>6, <1>8, MentionedAre
    <2>2. PICK m \in AtStart(load, {"Needed"}) : x = m.file
      BY <2>1, CallsFacts
    <2>3. QED
      BY <1>5, <2>2
  <1>9. CASE s.kind \in {"InitializeProgram", "TransferControl"}
    <2>1. s \in AtStart(load, {"InitializeProgram", "TransferControl"}) /\ x = s.object
      BY <1>2, <1>6, <1>9, MentionedAre
    <2>2. x \in PathNames
      BY <2>1, CallsFacts DEF PathNames
    <2>3. QED
      BY <1>4, <2>2
  <1>10. CASE s.kind \in {"Scope", "Relocate", "Init"}
    <2>1. s \in AtStart(load, {"Scope", "Relocate", "Init"}) /\ x = s.object
      BY <1>2, <1>6, <1>10, MentionedAre
    <2>2. Canonical(x) = x
      BY <2>1, CallsFacts, PathIsItself
    <2>3. j \in Told({"Scope", "Relocate", "Init"})
      BY <1>1, <1>2, <1>10 DEF Told
    <2>4. QED
      BY <1>2, <2>1, <2>2, <2>3 DEF Files
  <1>11. s.kind \notin {"Search", "Bind", "Fini", "Other"}
    BY <1>2, MentionedAre
  <1>12. IsStep(s)
    BY <1>1, <1>2
  <1>13. s.kind \in {"Needed", "LinkMap", "InitializeProgram", "TransferControl",
                     "Scope", "Relocate", "Init"}
    BY <1>11, <1>12 DEF IsStep, Plain
  <1>14. \/ s.kind = "Needed" \/ s.kind = "LinkMap"
         \/ s.kind \in {"InitializeProgram", "TransferControl"}
         \/ s.kind \in {"Scope", "Relocate", "Init"}
    BY <1>13
  <1>15. QED
    BY <1>7, <1>8, <1>9, <1>10, <1>14, Zenon

LEMMA FilesAreMentioned ==
    ASSUME load \in Loads, NEW n, n = Len(Story), NEW c, AllRead(n, c), HitsAreAbsolute, NEW file \in Files
    PROVE  \E j \in 1 .. n : \E x \in Elements(Mentioned(Story[j])) :
              Leaves(j) /\ file = Canonical(x)
  <1>1. DOMAIN Story = 1 .. n
    BY StoryFacts DEF IsList
  <1>2. CASE file = load.program
    <2>1. c \in 1 .. n /\ Story[c].kind = "TransferControl"
      BY DEF AllRead, StartIs
    <2>2. Story[c] \in AtStart(load, {"InitializeProgram", "TransferControl"})
      BY <2>1, AtStartIs
    <2>3. Story[c].object = file
      BY <1>2, <2>2, CallsFacts
    <2>4. file \in Elements(Mentioned(Story[c])) /\ Leaves(c)
      BY <2>1, <2>3, MentionedAre DEF Leaves
    <2>5. file \notin SearchNames
      BY <1>2, CallsFacts DEF PathNames
    <2>6. Canonical(file) = file
      BY <2>5, PathIsItself
    <2>7. QED
      BY <2>1, <2>4, <2>6
  <1>3. CASE \E k \in Told({"Needed"}) : file \in FilesOf(Story[k].file)
    <2>1. PICK k \in Told({"Needed"}) : file \in FilesOf(Story[k].file)
      BY <1>3
    <2>2. k \in 1 .. n /\ Story[k].kind = "Needed"
      BY <1>1 DEF Told
    <2>3. PICK name : name = Story[k].file /\ name \in Elements(Mentioned(Story[k])) /\ Leaves(k)
      BY <2>2, MentionedAre DEF Leaves
    <2>4. FilesOf(name) = {Canonical(name)}
      <3>1. CASE name \in SearchNames
        <4>1. PICK q \in Searches : q.library = name
          BY <3>1 DEF SearchNames
        <4>2. Last(q.tried).absolute
          BY DEF Searches, HitsAreAbsolute
        <4>3. QED
          BY <4>1, <4>2, CanonicalIs DEF Searches
      <3>2. CASE name \notin SearchNames
        BY <3>2, PathIsItself
      <3>3. QED
        BY <3>1, <3>2
    <2>5. QED
      BY <2>1, <2>2, <2>3, <2>4
  <1>4. CASE \E k \in Told({"Scope", "Relocate", "Init"}) : file = Story[k].object
    <2>1. PICK k \in Told({"Scope", "Relocate", "Init"}) : file = Story[k].object
      BY <1>4
    <2>2. k \in 1 .. n /\ Story[k].kind \in {"Scope", "Relocate", "Init"}
      BY <1>1 DEF Told
    <2>3. file \in Elements(Mentioned(Story[k])) /\ Leaves(k)
      BY <2>1, <2>2, MentionedAre DEF Leaves
    <2>4. Story[k] \in AtStart(load, {"Scope", "Relocate", "Init"})
      BY <2>2, AtStartIs
    <2>5. Canonical(file) = file
      BY <2>1, <2>4, CallsFacts, PathIsItself
    <2>6. QED
      BY <2>2, <2>3, <2>5
  <1>5. \/ file = load.program
        \/ \E k \in Told({"Needed"}) : file \in FilesOf(Story[k].file)
        \/ \E k \in Told({"Scope", "Relocate", "Init"}) : file = Story[k].object
    BY DEF Files
  <1>6. QED
    BY <1>2, <1>3, <1>4, <1>5

\* The objects are the names, each by the file that it is taken for.
LEMMA ObjectsOfLog ==
    ASSUME load \in Loads, NEW n, n = Len(Story), NEW c, AllRead(n, c)
    PROVE  \A x : x \in Elements(Objects) <=>
              \E j \in 1 .. n : \E name \in Elements(Mentioned(Story[j])) : Leaves(j) /\ x = Canonical(name)
  <1>1. PICK l \in Nat : DOMAIN steps = 1 .. l
    BY DEF AllRead, Settled
  <1>2. IsList(Names)
    BY <1>1, NamesAre
  <1>3. \A x : x \in Elements(Objects) <=> \E name \in Elements(Names) : x = Canonical(name)
    BY <1>2, ObjectsAre
  <1>4. QED
    BY <1>3, ReadNames

LEMMA LogInvImpliesObjects == LogInv => ObjectsAreFiles
  <1> SUFFICES ASSUME LogInv, ended, Alone, NothingOpenedLate, HitsAreAbsolute
               PROVE  Elements(Objects) = Files
    BY DEF ObjectsAreFiles
  <1>1. load \in Loads
    BY DEF LogInv
  <1>2. PICK n, c : n = Len(Story) /\ AllRead(n, c)
    BY EndedAllRead
  <1>3. ASSUME NEW x \in Elements(Objects) PROVE x \in Files
    <2>1. PICK j \in 1 .. n : \E name \in Elements(Mentioned(Story[j])) : x = Canonical(name)
      BY <1>1, <1>2, ObjectsOfLog
    <2>2. PICK name \in Elements(Mentioned(Story[j])) : x = Canonical(name)
      BY <2>1
    <2>3. QED
      BY <1>1, <1>2, <2>2, MentionedAreFiles
  <1>4. ASSUME NEW x \in Files PROVE x \in Elements(Objects)
    BY <1>1, <1>2, FilesAreMentioned, ObjectsOfLog
  <1>5. QED
    BY <1>3, <1>4

\* A library that is found by a relative path is listed by its name, or as a file
\* that is not there: neither is a file that was loaded.
RelativeHitsMislead ==
    ended /\ Alone /\ NothingOpenedLate /\ ~HitsAreAbsolute => Elements(Objects) # Files

LEMMA LogInvImpliesMisled == LogInv => RelativeHitsMislead
  <1> SUFFICES ASSUME LogInv, ended, Alone, NothingOpenedLate, ~HitsAreAbsolute
               PROVE  Elements(Objects) # Files
    BY DEF RelativeHitsMislead
  <1>1. load \in Loads
    BY DEF LogInv
  <1>2. PICK n, c : n = Len(Story) /\ AllRead(n, c)
    BY EndedAllRead
  <1>3. PICK q \in AtStart(load, {"Search"}) : ~Last(q.tried).absolute
    BY DEF HitsAreAbsolute
  <1>4. PICK m \in AtStart(load, {"Needed"}) : q.library = m.file
    BY <1>1, CallsFacts DEF Searches
  <1>5. PICK j \in Told({"Needed"}) : m = Story[j]
    BY <1>1, <1>2, AtStartIs
  <1>6. Canonical(q.library) \in Elements(Objects)
    <2>1. DOMAIN Story = 1 .. n
      BY <1>1, <1>2, StoryFacts DEF IsList
    <2>2. j \in 1 .. n /\ Story[j].kind = "Needed"
      BY <2>1 DEF Told
    <2>3. q.library \in Elements(Mentioned(Story[j])) /\ Leaves(j)
      BY <1>4, <1>5, <2>2, MentionedAre DEF Leaves
    <2>4. QED
      BY <1>1, <1>2, <2>2, <2>3, ObjectsOfLog
  <1>7. \A x \in Files : x \in PathNames \/ \E o \in AtStart(load, {"Scope", "Relocate", "Init"}) : x = o.object
    <2>1. ASSUME NEW k \in Told({"Needed"}), NEW x \in FilesOf(Story[k].file) PROVE x \in PathNames
      <3>1. Story[k] \in AtStart(load, {"Needed"})
        <4>1. k \in 1 .. n /\ Story[k].kind = "Needed"
          BY <1>1, <1>2, StoryFacts DEF IsList, Told
        <4>2. QED
          BY <1>1, <1>2, <4>1, AtStartIs
      <3>2. CASE Story[k].file \in SearchNames
        <4>1. PICK s \in Searches : s.library = Story[k].file
          BY <3>2 DEF SearchNames
        <4>2. FilesOf(Story[k].file) = {FileOf(s)}
          BY <1>1, <1>2, <4>1, CanonicalIs DEF Searches
        <4>3. QED
          BY <2>1, <4>2 DEF PathNames
      <3>3. CASE Story[k].file \notin SearchNames
        <4>1. FilesOf(Story[k].file) = {Story[k].file}
          BY <1>1, <1>2, <3>3, PathIsItself
        <4>2. QED
          BY <2>1, <3>1, <3>3, <4>1 DEF PathNames
      <3>4. QED
        BY <3>2, <3>3
    <2>2. ASSUME NEW k \in Told({"Scope", "Relocate", "Init"})
          PROVE  Story[k] \in AtStart(load, {"Scope", "Relocate", "Init"})
      <3>1. k \in 1 .. n /\ Story[k].kind \in {"Scope", "Relocate", "Init"}
        BY <1>1, <1>2, StoryFacts DEF IsList, Told
      <3>2. QED
        BY <1>1, <1>2, <3>1, AtStartIs
    <2>3. load.program \in PathNames
      BY DEF PathNames
    <2>4. QED
      BY <2>1, <2>2, <2>3 DEF Files
  <1>8. q.library \notin Files
    <2>1. q.library \in SearchNames
      BY DEF SearchNames, Searches
    <2>2. QED
      BY <1>1, <1>7, <2>1, CallsFacts
  <1>9. ASSUME NEW k \in 1 .. Len(q.tried) - 1 PROVE q.tried[k].path \notin Files
    <2>1. SearchesOnce(load)
      BY <1>1, StoriesAssumption
    <2>2. /\ q.tried[k].path # load.program
          /\ \A s \in AtStart(load, {"Search"}) : q.tried[k].path # FileOf(s)
          /\ \A s \in AtStart(load, {"Needed"}) : q.tried[k].path # s.file
          /\ \A o \in AtStart(load, {"Scope", "Relocate", "Init"}) : q.tried[k].path # o.object
      BY <2>1 DEF SearchesOnce
    <2>3. q.tried[k].path \notin PathNames
      BY <2>2 DEF PathNames, Searches
    <2>4. QED
      BY <1>7, <2>2, <2>3
  <1>10. Canonical(q.library) \notin Files
    <2>1. \/ Canonical(q.library) = q.library
          \/ \E k \in 1 .. Len(q.tried) - 1 : Canonical(q.library) = q.tried[k].path
      BY <1>1, <1>2, <1>3, CanonicalIs
    <2>2. QED
      BY <1>8, <1>9, <2>1
  <1>11. QED
    BY <1>6, <1>10

\* Trace::objects names the files that were loaded and nothing else, of every story of
\* a process that ld.so starts (StoriesAssumption), in which the program opens nothing
\* and starts no one and every library is found by an absolute path: the path that the
\* search of a library ended with stands for its name, however it is mentioned.
THEOREM ObjectsAreFound == Spec => []ObjectsAreFiles
  <1>1. Init => LogInv
    BY InitLogInv
  <1>2. LogInv /\ [Next]_vars => LogInv'
    BY NextLogInv
  <1>3. LogInv => ObjectsAreFiles
    BY LogInvImpliesObjects
  <1>4. QED
    BY <1>1, <1>2, <1>3, PTL DEF Spec

\* Where a library is found by a relative path, Trace::objects is wrong: the guess of
\* aliases, which takes the last path that begins with a slash, has to fail.
THEOREM RelativeHitsAreLost == Spec => []RelativeHitsMislead
  <1>1. Init => LogInv
    BY InitLogInv
  <1>2. LogInv /\ [Next]_vars => LogInv'
    BY NextLogInv
  <1>3. LogInv => RelativeHitsMislead
    BY LogInvImpliesMisled
  <1>4. QED
    BY <1>1, <1>2, <1>3, PTL DEF Spec
=============================================================================
