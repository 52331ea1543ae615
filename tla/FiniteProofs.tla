---------------------------- MODULE FiniteProofs ----------------------------
(***************************************************************************)
(* What the proofs need of finite sets: least and greatest numbers, the    *)
(* order that a key gives, functions that take a set apart element by      *)
(* element, and lists of a set in order.                                   *)
(***************************************************************************)
EXTENDS Integers, Sequences, FiniteSetTheorems, WellFoundedInduction, TLAPS

-----------------------------------------------------------------------------
(* Numbers.                                                                *)

\* A nonempty set of numbers has a least one; a bounded one has a greatest.
LEMMA LeastOf ==
    ASSUME NEW S \in SUBSET Nat, S # {}
    PROVE  \E n \in S : \A m \in S : n <= m
  <1> DEFINE R == {ss \in Nat \X Nat : ss[1] < ss[2]}
  <1>1. IsWellFoundedOn(R, Nat)
    BY NatLessThanWellFounded DEF OpToRel
  <1>2. PICK n \in S : \A m \in S : ~ (<<m, n>> \in R)
    BY <1>1, WFMin
  <1>3. ASSUME NEW m \in S PROVE n <= m
    <2>1. m \in Nat /\ n \in Nat /\ <<m, n>> \notin R
      BY <1>2
    <2>2. ~(m < n)
      BY <2>1
    <2>3. QED
      BY <2>1, <2>2
  <1>4. QED
    BY <1>3

LEMMA GreatestOf ==
    ASSUME NEW S \in SUBSET Nat, S # {}, NEW b \in Nat, \A x \in S : x <= b
    PROVE  \E x \in S : \A y \in S : y <= x
  <1> DEFINE T == {d \in Nat : b - d \in S}
  <1>1. T # {} /\ T \in SUBSET Nat
    <2>1. PICK x \in S : TRUE
      OBVIOUS
    <2>2. b - x \in Nat /\ b - (b - x) = x
      BY <2>1
    <2>3. QED
      BY <2>1, <2>2
  <1>2. PICK d \in T : \A e \in T : d <= e
    <2> HIDE DEF T
    <2>1. QED
      BY <1>1, LeastOf
  <1>3. ASSUME NEW y \in S PROVE y <= b - d
    <2>1. b - y \in Nat /\ b - (b - y) = y
      OBVIOUS
    <2>2. b - y \in T
      BY <2>1
    <2>3. d <= b - y
      BY <1>2, <2>2
    <2>4. QED
      BY <2>3
  <1>4. QED
    BY <1>2, <1>3

-----------------------------------------------------------------------------
(* Order.                                                                  *)

\* What comes before b in the order of a key.
Earlier(S, key, b) == {c \in S : key[c] < key[b]}

\* If no two have one key, as many come before the n-th as before no other.
LEMMA RankFacts ==
    ASSUME NEW S, IsFiniteSet(S), NEW key \in [S -> Nat],
           \A a, b \in S : key[a] = key[b] => a = b
    PROVE  /\ Cardinality(S) \in Nat
           /\ \A b \in S : Cardinality(Earlier(S, key, b)) \in 0 .. Cardinality(S) - 1
           /\ \A a, b \in S : key[a] < key[b] =>
                 Cardinality(Earlier(S, key, a)) < Cardinality(Earlier(S, key, b))
           /\ \A n \in 1 .. Cardinality(S) :
                 \E b \in S : Cardinality(Earlier(S, key, b)) = n - 1
  <1> DEFINE Below(b) == Earlier(S, key, b)
             size == Cardinality(S)
             f == [b \in S |-> Cardinality(Below(b)) + 1]
  <1>1. size \in Nat
    BY FS_CardinalityType
  <1>2. ASSUME NEW b \in S
        PROVE  IsFiniteSet(Below(b)) /\ Cardinality(Below(b)) \in Nat /\ Cardinality(Below(b)) < size
    <2>1. Below(b) \in SUBSET S /\ b \notin Below(b)
      BY DEF Earlier
    <2> HIDE DEF Below
    <2>2. /\ IsFiniteSet(Below(b)) /\ Cardinality(Below(b)) <= size
          /\ size = Cardinality(Below(b)) => S = Below(b)
      BY <2>1, FS_Subset
    <2>3. Cardinality(Below(b)) \in Nat
      BY <2>2, FS_CardinalityType
    <2>4. size # Cardinality(Below(b))
      BY <2>1, <2>2
    <2>5. QED
      BY <1>1, <2>2, <2>3, <2>4
  <1>3. ASSUME NEW a \in S, NEW b \in S, key[a] < key[b]
        PROVE  Cardinality(Below(a)) < Cardinality(Below(b))
    <2>1. Below(a) \in SUBSET Below(b) /\ a \in Below(b) /\ a \notin Below(a)
      <3>1. \A c \in S : key[c] < key[a] => key[c] < key[b]
        BY <1>3
      <3>2. ~(key[a] < key[a])
        OBVIOUS
      <3>3. QED
        BY <1>3, <3>1, <3>2 DEF Earlier
    <2>2. IsFiniteSet(Below(b)) /\ Cardinality(Below(a)) \in Nat /\ Cardinality(Below(b)) \in Nat
      BY <1>2
    <2> HIDE DEF Below
    <2>3. /\ Cardinality(Below(a)) <= Cardinality(Below(b))
          /\ Cardinality(Below(b)) = Cardinality(Below(a)) => Below(b) = Below(a)
      BY <2>1, <2>2, FS_Subset
    <2>4. QED
      BY <2>1, <2>2, <2>3
  <1>4. \A a, b \in S : Cardinality(Below(a)) = Cardinality(Below(b)) => a = b
    <2> SUFFICES ASSUME NEW a \in S, NEW b \in S, a # b
                 PROVE  Cardinality(Below(a)) # Cardinality(Below(b))
      OBVIOUS
    <2>1. key[a] < key[b] \/ key[b] < key[a]
      <3>1. key[a] # key[b] /\ key[a] \in Nat /\ key[b] \in Nat
        OBVIOUS
      <3>2. QED
        BY <3>1
    <2>2. Cardinality(Below(a)) \in Nat /\ Cardinality(Below(b)) \in Nat
      BY <1>2
    <2> HIDE DEF Below
    <2>3. QED
      BY <1>3, <2>1, <2>2
  <1> HIDE DEF Below, size
  <1>5. f \in Injection(S, 1 .. size)
    <2>1. \A b \in S : f[b] \in 1 .. size
      BY <1>1, <1>2
    <2>2. \A a, b \in S : f[a] = f[b] => a = b
      <3> SUFFICES ASSUME NEW a \in S, NEW b \in S, f[a] = f[b]
                   PROVE  a = b
        OBVIOUS
      <3>1. Cardinality(Below(a)) = Cardinality(Below(b))
        BY <1>2
      <3>2. QED
        BY <1>4, <3>1
    <2>3. QED
      BY <2>1, <2>2 DEF Injection, IsInjective
  <1>6. f \in Surjection(S, 1 .. size)
    <2>1. IsFiniteSet(1 .. size) /\ Cardinality(1 .. size) = size
      BY <1>1, FS_Interval
    <2>2. QED
      BY <1>5, <2>1, FS_Injection DEF size
  <1>7. \A n \in 1 .. size : \E b \in S : Cardinality(Below(b)) = n - 1
    <2> TAKE n \in 1 .. size
    <2>1. PICK b \in S : f[b] = n
      BY <1>6 DEF Surjection
    <2>2. QED
      BY <1>1, <1>2, <2>1
  <1>8. \A b \in S : Cardinality(Below(b)) \in 0 .. size - 1
    BY <1>1, <1>2
  <1>9. QED
    BY <1>1, <1>3, <1>7, <1>8 DEF Below, size

-----------------------------------------------------------------------------
(* Functions on the subsets of a set that take an element out, c says which,*)
(* and make their value of it and of the value of the rest.                *)

TakeOut(base, c, op, g, T) == IF T = {} THEN base ELSE op[<<c[T], g[T \ {c[T]}]>>]
TakesOut(g, S, V, base, c, op) ==
    /\ g \in [SUBSET S -> V]
    /\ \A T \in SUBSET S : g[T] = TakeOut(base, c, op, g, T)
Chooses(c, S) == \A T \in SUBSET S : T # {} => c[T] \in T

\* There always is such a function, if the set is finite.
LEMMA FoldExists ==
    ASSUME NEW S, IsFiniteSet(S), NEW V, NEW base \in V, NEW c, Chooses(c, S),
           NEW op \in [S \X V -> V]
    PROVE  \E g : TakesOut(g, S, V, base, c, op)
  <1> DEFINE D == SUBSET S
             Next(g, T) == TakeOut(base, c, op, g, T)
             Upto(g, m) == \A T \in D : Cardinality(T) <= m => g[T] = Next(g, T)
             bad == {m \in Nat : ~ \E g \in [D -> V] : Upto(g, m)}
  <1>1. ASSUME NEW T \in D
        PROVE  IsFiniteSet(T) /\ Cardinality(T) \in Nat /\ Cardinality(T) <= Cardinality(S)
    BY FS_Subset, FS_CardinalityType
  <1>2. ASSUME NEW T \in D, T # {}
        PROVE  /\ c[T] \in S /\ T \ {c[T]} \in D
               /\ Cardinality(T \ {c[T]}) = Cardinality(T) - 1
    <2>1. PICK x \in T : x = c[T]
      BY <1>2 DEF Chooses
    <2>2. Cardinality(T \ {x}) = Cardinality(T) - 1
      BY <1>1, FS_RemoveElement
    <2>3. QED
      BY <2>1, <2>2
  <1>3. ASSUME NEW g \in [D -> V], NEW T \in D
        PROVE  Next(g, T) \in V
    <2>1. CASE T = {}
      BY <2>1 DEF TakeOut
    <2>2. CASE T # {}
      <3>1. PICK x \in S, r \in D : x = c[T] /\ r = T \ {x}
        BY <1>2, <2>2
      <3>2. <<x, g[r]>> \in S \X V
        OBVIOUS
      <3>3. QED
        BY <2>2, <3>1, <3>2 DEF TakeOut
    <2>3. QED
      BY <2>1, <2>2
  <1>4. 0 \notin bad
    <2>1. PICK g : g = [T \in D |-> base]
      OBVIOUS
    <2>2. ASSUME NEW T \in D, Cardinality(T) <= 0
          PROVE  g[T] = Next(g, T)
      <3>1. T = {}
        BY <1>1, <2>2, FS_EmptySet
      <3>2. QED
        BY <2>1, <3>1 DEF TakeOut
    <2>3. g \in [D -> V] /\ Upto(g, 0)
      BY <2>1, <2>2
    <2>4. QED
      BY <2>3
  <1>5. ASSUME NEW m \in Nat, m \notin bad
        PROVE  m + 1 \notin bad
    <2>1. PICK g \in [D -> V] : Upto(g, m)
      BY <1>5
    <2>2. PICK h : h = [T \in D |-> Next(g, T)]
      OBVIOUS
    <2>3. h \in [D -> V]
      BY <1>3, <2>2
    <2>4. ASSUME NEW T \in D, Cardinality(T) <= m + 1
          PROVE  h[T] = Next(h, T)
      <3>1. CASE T = {}
        BY <2>2, <3>1 DEF TakeOut
      <3>2. CASE T # {}
        <4>1. PICK r \in D : r = T \ {c[T]} /\ Cardinality(r) = Cardinality(T) - 1
          BY <1>2, <3>2
        <4>2. Cardinality(r) <= m
          BY <1>1, <2>4, <4>1
        <4>3. g[r] = h[r]
          BY <2>1, <2>2, <4>2
        <4>4. QED
          BY <2>2, <3>2, <4>1, <4>3 DEF TakeOut
      <3>3. QED
        BY <3>1, <3>2
    <2>5. QED
      BY <2>3, <2>4
  <1>6. bad = {}
    <2> SUFFICES ASSUME bad # {} PROVE FALSE
      OBVIOUS
    <2>1. bad \in SUBSET Nat
      OBVIOUS
    <2> HIDE DEF bad
    <2>2. PICK m \in bad : \A k \in bad : m <= k
      BY <2>1, LeastOf
    <2>3. m # 0 /\ m \in Nat
      BY <1>4, <2>1
    <2>4. PICK k \in Nat : m = k + 1
      <3>1. m - 1 \in Nat /\ m = (m - 1) + 1
        BY <2>3
      <3>2. QED
        BY <3>1
    <2>5. k \notin bad
      BY <2>2, <2>4
    <2>6. QED
      BY <1>5, <2>4, <2>5
  <1>7. PICK n \in Nat : n = Cardinality(S)
    BY FS_CardinalityType
  <1>8. PICK g \in [D -> V] : Upto(g, n)
    BY <1>6
  <1>9. TakesOut(g, S, V, base, c, op)
    BY <1>1, <1>7, <1>8 DEF TakesOut
  <1>10. QED
    BY <1>9

\* Whatever makes its value so on the subsets of a set, least sets first, has it.
LEMMA FoldHas ==
    ASSUME NEW S, IsFiniteSet(S), NEW c, Chooses(c, S), NEW Good,
           {} \in Good,
           \A T \in SUBSET S : T # {} /\ T \ {c[T]} \in Good => T \in Good
    PROVE  S \in Good
  <1> DEFINE bad == {n \in Nat : \E T \in SUBSET S : Cardinality(T) = n /\ T \notin Good}
  <1>1. bad = {}
    <2> SUFFICES ASSUME bad # {} PROVE FALSE
      OBVIOUS
    <2>1. bad \in SUBSET Nat
      OBVIOUS
    <2>2. PICK n \in bad : \A m \in bad : n <= m
      <3> HIDE DEF bad
      <3>1. QED
        BY <2>1, LeastOf
    <2>3. PICK T \in SUBSET S : Cardinality(T) = n /\ T \notin Good
      OBVIOUS
    <2>4. T # {} /\ IsFiniteSet(T)
      BY <2>3, FS_Subset
    <2>5. PICK x \in T : x = c[T]
      BY <2>4 DEF Chooses
    <2>6. PICK r \in SUBSET S : r = T \ {x}
      OBVIOUS
    <2>7. Cardinality(r) = n - 1 /\ Cardinality(r) \in Nat
      BY <2>3, <2>4, <2>6, FS_RemoveElement, FS_Subset, FS_CardinalityType
    <2>8. r \notin Good
      BY <2>3, <2>4, <2>5, <2>6
    <2>9. Cardinality(r) \in bad
      BY <2>7, <2>8
    <2>10. n \in Nat /\ n <= n - 1
      BY <2>1, <2>2, <2>7, <2>9
    <2>11. QED
      BY <2>10
  <1>2. Cardinality(S) \in Nat
    BY FS_CardinalityType
  <1>3. QED
    BY <1>1, <1>2

-----------------------------------------------------------------------------
(* Lists in order.                                                         *)

\* The list s has the elements of S, each once, in an order that is a set of pairs.
ListOf(s, S) ==
    /\ s \in Seq(S)
    /\ \A x \in S : \E k \in 1 .. Len(s) : s[k] = x
    /\ \A j, k \in 1 .. Len(s) : s[j] = s[k] => j = k
InOrder(s, leq) == \A j, k \in 1 .. Len(s) : j <= k => <<s[j], s[k]>> \in leq

IsOrder(leq, S) ==
    /\ \A x, y \in S : <<x, y>> \in leq \/ <<y, x>> \in leq
    /\ \A x, y, z \in S : <<x, y>> \in leq /\ <<y, z>> \in leq => <<x, z>> \in leq

\* The list that starts with the element that c takes out.
Listing(c, g, T) == IF T = {} THEN <<>> ELSE <<c[T]>> \o g[T \ {c[T]}]
IsListing(g, c, S) == g = [T \in SUBSET S |-> Listing(c, g, T)]

\* A finite set has a first element in every order.
LEMMA FirstExists ==
    ASSUME NEW S, IsFiniteSet(S), NEW leq, IsOrder(leq, S), S # {}
    PROVE  \E x \in S : \A y \in S : <<x, y>> \in leq
  <1> DEFINE Good == {T \in SUBSET S : T # {} => \E x \in T : \A y \in T : <<x, y>> \in leq}
  <1>1. PICK c : c = [T \in SUBSET S |-> CHOOSE x \in T : TRUE]
    OBVIOUS
  <1>2. Chooses(c, S)
    BY <1>1 DEF Chooses
  <1>3. {} \in Good
    OBVIOUS
  <1>4. ASSUME NEW T \in SUBSET S, T # {}, T \ {c[T]} \in Good
        PROVE  T \in Good
    <2>1. PICK a \in T : a = c[T]
      BY <1>2, <1>4 DEF Chooses
    <2>2. <<a, a>> \in leq
      BY DEF IsOrder
    <2>3. CASE T \ {a} = {}
      BY <2>2, <2>3
    <2>4. CASE T \ {a} # {}
      <3>1. PICK x \in T \ {a} : \A y \in T \ {a} : <<x, y>> \in leq
        BY <1>4, <2>1, <2>4
      <3>2. CASE <<x, a>> \in leq
        BY <3>1, <3>2
      <3>3. CASE <<a, x>> \in leq
        <4>1. \A y \in T : <<a, y>> \in leq
          <5> TAKE y \in T
          <5>1. CASE y = a
            BY <2>2, <5>1
          <5>2. CASE y # a
            BY <3>1, <3>3, <5>2 DEF IsOrder
          <5>3. QED
            BY <5>1, <5>2
        <4>2. QED
          BY <4>1
      <3>4. QED
        BY <3>2, <3>3 DEF IsOrder
    <2>5. QED
      BY <2>3, <2>4
  <1> HIDE DEF Good
  <1>5. S \in Good
    BY <1>2, <1>3, <1>4, FoldHas
  <1>6. QED
    BY <1>5 DEF Good

\* There is a function that lists so.
LEMMA ListingExists ==
    ASSUME NEW S, IsFiniteSet(S), NEW c, Chooses(c, S)
    PROVE  \E g : IsListing(g, c, S)
  <1>1. PICK V : V = Seq(S)
    OBVIOUS
  <1>2. PICK op : op = [p \in S \X V |-> <<p[1]>> \o p[2]]
    OBVIOUS
  <1>3. op \in [S \X V -> V]
    <2>1. \A x \in S, s \in Seq(S) : <<x>> \o s \in Seq(S)
      OBVIOUS
    <2>2. QED
      BY <1>1, <1>2, <2>1
  <1>4. PICK base : base = <<>> /\ base \in V
    <2>1. <<>> \in Seq(S)
      OBVIOUS
    <2>2. QED
      BY <1>1, <2>1
  <1>5. PICK g : TakesOut(g, S, V, base, c, op)
    BY <1>3, <1>4, FoldExists
  <1>6. ASSUME NEW T \in SUBSET S
        PROVE  g[T] = Listing(c, g, T)
    <2>1. CASE T = {}
      BY <1>4, <1>5, <2>1 DEF TakesOut, TakeOut, Listing
    <2>2. CASE T # {}
      <3>1. PICK x \in S, r \in SUBSET S : x = c[T] /\ r = T \ {x}
        BY <2>2 DEF Chooses
      <3>2. g[r] \in V
        BY <1>5 DEF TakesOut
      <3>3. op[<<x, g[r]>>] = <<x>> \o g[r]
        BY <1>2, <3>2
      <3>4. g[T] = op[<<x, g[r]>>]
        BY <1>5, <2>2, <3>1 DEF TakesOut, TakeOut
      <3>5. QED
        BY <2>2, <3>1, <3>3, <3>4 DEF Listing
    <2>3. QED
      BY <2>1, <2>2
  <1>7. g = [T \in SUBSET S |-> Listing(c, g, T)]
    BY <1>5, <1>6 DEF TakesOut
  <1>8. QED
    BY <1>7 DEF IsListing

\* Taking the first element out, again and again, gives a list in order.
LEMMA SortFacts ==
    ASSUME NEW S, IsFiniteSet(S), NEW leq, NEW c, Chooses(c, S),
           \A T \in SUBSET S : \A y \in T : <<c[T], y>> \in leq,
           NEW g, IsListing(g, c, S)
    PROVE  ListOf(g[S], S) /\ InOrder(g[S], leq)
  <1> DEFINE Good == {T \in SUBSET S : ListOf(g[T], T) /\ InOrder(g[T], leq)}
  <1>1. {} \in Good
    <2>1. g[{}] = <<>>
      BY DEF IsListing, Listing
    <2>2. PICK e : e = {}
      OBVIOUS
    <2>3. PICK t : t = <<>>
      OBVIOUS
    <2>4. t \in Seq(e) /\ Len(t) = 0
      BY <2>3
    <2>5. ListOf(t, e) /\ InOrder(t, leq)
      BY <2>2, <2>4 DEF ListOf, InOrder
    <2>6. QED
      BY <2>1, <2>2, <2>3, <2>5
  <1>2. ASSUME NEW T \in SUBSET S, T # {}, T \ {c[T]} \in Good
        PROVE  T \in Good
    <2>1. PICK x \in T, r \in SUBSET S : /\ x = c[T] /\ r = T \ {x}
                                         /\ \A y \in T : <<x, y>> \in leq
      BY <1>2 DEF Chooses
    <2>2. PICK t : t = g[r] /\ t \in Seq(r) /\ ListOf(t, r) /\ InOrder(t, leq)
      BY <1>2, <2>1 DEF ListOf
    <2>3. g[T] = <<x>> \o t
      BY <1>2, <2>1, <2>2 DEF IsListing, Listing
    <2>4. PICK s : s = <<x>> \o t
      OBVIOUS
    <2>5. PICK n \in Nat : n = Len(t)
      BY <2>2
    <2>6. /\ s \in Seq(T) /\ Len(s) = n + 1 /\ s[1] = x
          /\ \A k \in 1 .. n : s[k + 1] = t[k]
      <3>1. t \in Seq(T) /\ <<x>> \in Seq(T)
        BY <2>1, <2>2
      <3>2. QED
        BY <2>4, <2>5, <3>1
    <2>7. \A k \in 1 .. n + 1 : k = 1 \/ \E j \in 1 .. n : k = j + 1 /\ s[k] = t[j]
      <3> TAKE k \in 1 .. n + 1
      <3>1. k = 1 \/ (k - 1 \in 1 .. n /\ k = (k - 1) + 1)
        OBVIOUS
      <3>2. QED
        BY <2>6, <3>1
    <2>8. \A k \in 1 .. n : t[k] \in T /\ t[k] # x
      BY <2>1, <2>2, <2>5
    <2>9. ListOf(s, T)
      <3>1. ASSUME NEW y \in T
            PROVE  \E k \in 1 .. n + 1 : s[k] = y
        <4>1. CASE y = x
          BY <2>6, <4>1
        <4>2. CASE y # x
          <5>1. PICK k \in 1 .. n : t[k] = y
            BY <2>1, <2>2, <2>5, <4>2 DEF ListOf
          <5>2. k + 1 \in 1 .. n + 1 /\ s[k + 1] = y
            BY <2>6, <5>1
          <5>3. QED
            BY <5>2
        <4>3. QED
          BY <4>1, <4>2
      <3>2. ASSUME NEW j \in 1 .. n + 1, NEW k \in 1 .. n + 1, s[j] = s[k]
            PROVE  j = k
        <4>1. CASE j = 1 /\ k = 1
          BY <4>1
        <4>2. CASE j # 1 /\ k # 1
          BY <2>2, <2>5, <2>7, <3>2, <4>2 DEF ListOf
        <4>3. CASE j = 1 /\ k # 1
          BY <2>6, <2>7, <2>8, <3>2, <4>3
        <4>4. CASE j # 1 /\ k = 1
          BY <2>6, <2>7, <2>8, <3>2, <4>4
        <4>5. QED
          BY <4>1, <4>2, <4>3, <4>4
      <3>3. QED
        BY <2>6, <3>1, <3>2 DEF ListOf
    <2>10. InOrder(s, leq)
      <3> SUFFICES ASSUME NEW j \in 1 .. n + 1, NEW k \in 1 .. n + 1, j <= k
                   PROVE  <<s[j], s[k]>> \in leq
        BY <2>6 DEF InOrder
      <3>1. s[k] \in T
        BY <2>6
      <3>2. CASE j = 1
        BY <2>1, <2>6, <3>1, <3>2
      <3>3. CASE j # 1
        <4>1. PICK a \in 1 .. n : j = a + 1 /\ s[j] = t[a]
          BY <2>7, <3>3
        <4>2. PICK b \in 1 .. n : k = b + 1 /\ s[k] = t[b]
          BY <2>7, <3>3
        <4>3. a <= b
          BY <4>1, <4>2
        <4>4. QED
          BY <2>2, <2>5, <4>1, <4>2, <4>3 DEF InOrder
      <3>4. QED
        BY <3>2, <3>3
    <2>11. QED
      BY <2>3, <2>4, <2>9, <2>10
  <1> HIDE DEF Good
  <1>3. S \in Good
    BY <1>1, <1>2, FoldHas
  <1>4. QED
    BY <1>3 DEF Good

\* A list of a set is as long as the set is large.
LEMMA ListsAll ==
    ASSUME NEW S, NEW s, ListOf(s, S)
    PROVE  /\ IsFiniteSet(S) /\ Len(s) \in Nat /\ Cardinality(S) = Len(s)
           /\ S = {s[k] : k \in 1 .. Len(s)}
  <1>1. PICK n \in Nat : n = Len(s) /\ DOMAIN s = 1 .. n
    BY DEF ListOf
  <1>2. PICK N : N = 1 .. n /\ IsFiniteSet(N) /\ Cardinality(N) = n
    <2>1. IsFiniteSet(1 .. n) /\ Cardinality(1 .. n) = n
      BY FS_Interval
    <2>2. QED
      BY <2>1
  <1>3. PICK f : f = [k \in N |-> s[k]]
    OBVIOUS
  <1>4. \A k \in N : s[k] \in S
    BY <1>1, <1>2 DEF ListOf
  <1>5. f \in Surjection(N, S)
    BY <1>1, <1>2, <1>3, <1>4 DEF Surjection, ListOf
  <1>6. f \in Injection(N, S)
    BY <1>1, <1>2, <1>3, <1>4 DEF Injection, IsInjective, ListOf
  <1>7. IsFiniteSet(S) /\ Cardinality(S) = Cardinality(N)
    BY <1>2, <1>5, <1>6, FS_Surjection
  <1>8. S = {s[k] : k \in 1 .. Len(s)}
    BY <1>1, <1>2, <1>4 DEF ListOf
  <1>9. QED
    BY <1>1, <1>2, <1>7, <1>8

\* What comes first in the order is the beginning of the list.
LEMMA PrefixIs ==
    ASSUME NEW S, NEW s, NEW leq, ListOf(s, S), InOrder(s, leq),
           NEW A \in SUBSET S,
           \A x \in A : \A y \in S \ A : <<y, x>> \notin leq
    PROVE  /\ Cardinality(A) \in 0 .. Len(s)
           /\ A = {s[k] : k \in 1 .. Cardinality(A)}
           /\ \A k \in 1 .. Len(s) : s[k] \in A <=> k <= Cardinality(A)
  <1>1. PICK n \in Nat : n = Len(s) /\ DOMAIN s = 1 .. n
    BY DEF ListOf
  <1> DEFINE I == {k \in 1 .. n : s[k] \in A}
  <1>2. ASSUME NEW j \in 1 .. n, NEW k \in I, j <= k
        PROVE  j \in I
    <2>1. <<s[j], s[k]>> \in leq /\ s[j] \in S
      BY <1>1, <1>2 DEF ListOf, InOrder
    <2>2. QED
      BY <2>1
  <1>3. \E c \in 0 .. n : I = 1 .. c
    <2>1. CASE I = {}
      BY <2>1
    <2>2. CASE I # {}
      <3>1. I \in SUBSET Nat /\ \A k \in I : k <= n
        OBVIOUS
      <3>2. PICK c \in I : \A k \in I : k <= c
        <4> HIDE DEF I
        <4>1. QED
          BY <2>2, <3>1, GreatestOf
      <3>3. c \in 0 .. n /\ \A k \in 1 .. c : k \in 1 .. n /\ k <= c
        OBVIOUS
      <3>4. 1 .. c \subseteq I
        BY <1>2, <3>2, <3>3
      <3>5. I \subseteq 1 .. c
        BY <3>2
      <3>6. QED
        BY <3>3, <3>4, <3>5
    <2>3. QED
      BY <2>1, <2>2
  <1>4. PICK c \in 0 .. n : I = 1 .. c
    BY <1>3
  <1>5. \A k \in 1 .. n : s[k] \in A <=> k <= c
    BY <1>4
  <1>6. A = {s[k] : k \in 1 .. c}
    <2>1. ASSUME NEW x \in A PROVE \E k \in 1 .. c : x = s[k]
      <3>1. PICK k \in 1 .. n : s[k] = x
        BY <1>1 DEF ListOf
      <3>2. QED
        BY <1>4, <3>1
    <2>2. \A k \in 1 .. c : s[k] \in A
      BY <1>4
    <2>3. QED
      BY <2>1, <2>2
  <1>7. Cardinality(A) = c
    <2>1. PICK N : N = 1 .. c /\ IsFiniteSet(N) /\ Cardinality(N) = c
      <3>1. IsFiniteSet(1 .. c) /\ Cardinality(1 .. c) = c
        BY FS_Interval
      <3>2. QED
        BY <3>1
    <2>2. PICK f : f = [k \in N |-> s[k]]
      OBVIOUS
    <2>3. f \in Surjection(N, A)
      BY <1>6, <2>1, <2>2 DEF Surjection
    <2>4. f \in Injection(N, A)
      <3>1. \A j, k \in N : s[j] = s[k] => j = k
        BY <1>1, <2>1 DEF ListOf
      <3>2. QED
        BY <1>6, <2>1, <2>2, <3>1 DEF Injection, IsInjective
    <2>5. QED
      BY <2>1, <2>3, <2>4, FS_Surjection
  <1>8. QED
    BY <1>1, <1>5, <1>6, <1>7

\* A sequence of elements of a set is one of those of a larger set.
LEMMA SeqOfMore ==
    ASSUME NEW S, NEW T, S \subseteq T, NEW s \in Seq(S)
    PROVE  s \in Seq(T)
  <1>1. PICK n \in Nat : n = Len(s)
    OBVIOUS
  <1>2. s = [k \in 1 .. n |-> s[k]] /\ \A k \in 1 .. n : s[k] \in S
    BY <1>1
  <1>3. \A k \in 1 .. n : s[k] \in T
    BY <1>2
  <1>4. s \in [1 .. n -> T]
    BY <1>2, <1>3
  <1>5. QED
    BY <1>4

\* Sequences behind one another.
LEMMA ConcatFacts ==
    ASSUME NEW X, NEW g \in Seq(X), NEW h \in Seq(X), NEW m \in Nat, NEW n \in Nat,
           m = Len(g), n = Len(h)
    PROVE  /\ g \o h \in Seq(X) /\ Len(g \o h) = m + n
           /\ \A k \in 1 .. m : (g \o h)[k] = g[k]
           /\ \A k \in 1 .. n : (g \o h)[m + k] = h[k]
  OBVIOUS

\* One list behind another, of other things, that come later.
LEMMA ListsJoin ==
    ASSUME NEW S, NEW s, NEW T, NEW t, NEW leq, ListOf(s, S), ListOf(t, T), S \cap T = {},
           InOrder(s, leq), InOrder(t, leq), \A x \in S, y \in T : <<x, y>> \in leq
    PROVE  ListOf(s \o t, S \cup T) /\ InOrder(s \o t, leq)
  <1>1. PICK m \in Nat, n \in Nat : m = Len(s) /\ n = Len(t)
    BY DEF ListOf
  <1>2. PICK u : u = s \o t
    OBVIOUS
  <1>3. /\ u \in Seq(S \cup T) /\ Len(u) = m + n
        /\ \A k \in 1 .. m : u[k] = s[k]
        /\ \A k \in 1 .. n : u[m + k] = t[k]
    <2>1. s \in Seq(S \cup T) /\ t \in Seq(S \cup T)
      BY DEF ListOf
    <2>2. QED
      BY <1>1, <1>2, <2>1
  <1>4. ASSUME NEW k \in 1 .. m + n
        PROVE  \/ k \in 1 .. m /\ u[k] = s[k] /\ u[k] \in S
               \/ \E j \in 1 .. n : k = m + j /\ u[k] = t[j] /\ u[k] \in T
    <2>1. CASE k <= m
      <3>1. k \in 1 .. m /\ u[k] = s[k]
        BY <1>3, <2>1
      <3>2. s[k] \in S
        BY <1>1, <3>1 DEF ListOf
      <3>3. QED
        BY <3>1, <3>2
    <2>2. CASE k > m
      <3>1. PICK j \in 1 .. n : k = m + j
        <4>1. k - m \in 1 .. n /\ k = m + (k - m)
          BY <2>2
        <4>2. QED
          BY <4>1
      <3>2. u[k] = t[j] /\ t[j] \in T
        BY <1>1, <1>3, <3>1 DEF ListOf
      <3>3. QED
        BY <3>1, <3>2
    <2>3. QED
      BY <2>1, <2>2
  <1>5. ListOf(u, S \cup T)
    <2>1. ASSUME NEW x \in S \cup T PROVE \E k \in 1 .. m + n : u[k] = x
      <3>1. CASE x \in S
        <4>1. PICK k \in 1 .. m : s[k] = x
          BY <1>1, <3>1 DEF ListOf
        <4>2. k \in 1 .. m + n /\ u[k] = x
          BY <1>3, <4>1
        <4>3. QED
          BY <4>2
      <3>2. CASE x \in T
        <4>1. PICK k \in 1 .. n : t[k] = x
          BY <1>1, <3>2 DEF ListOf
        <4>2. m + k \in 1 .. m + n /\ u[m + k] = x
          BY <1>3, <4>1
        <4>3. QED
          BY <4>2
      <3>3. QED
        BY <3>1, <3>2
    <2>2. ASSUME NEW j \in 1 .. m + n, NEW k \in 1 .. m + n, u[j] = u[k]
          PROVE  j = k
      <3>1. \A a, b \in 1 .. m : s[a] = s[b] => a = b
        BY <1>1 DEF ListOf
      <3>2. \A a, b \in 1 .. n : t[a] = t[b] => a = b
        BY <1>1 DEF ListOf
      <3>3. CASE j \in 1 .. m /\ u[j] = s[j] /\ u[j] \in S
        BY <1>4, <2>2, <3>1, <3>3
      <3>4. CASE \E a \in 1 .. n : j = m + a /\ u[j] = t[a] /\ u[j] \in T
        BY <1>4, <2>2, <3>2, <3>4
      <3>5. QED
        BY <1>4, <3>3, <3>4
    <2>3. QED
      BY <1>3, <2>1, <2>2 DEF ListOf
  <1>6. InOrder(u, leq)
    <2> SUFFICES ASSUME NEW j \in 1 .. m + n, NEW k \in 1 .. m + n, j <= k
                 PROVE  <<u[j], u[k]>> \in leq
      BY <1>3 DEF InOrder
    <2>1. \A a, b \in 1 .. m : a <= b => <<s[a], s[b]>> \in leq
      BY <1>1 DEF InOrder
    <2>2. \A a, b \in 1 .. n : a <= b => <<t[a], t[b]>> \in leq
      BY <1>1 DEF InOrder
    <2>3. CASE j \in 1 .. m /\ u[j] = s[j] /\ u[j] \in S
      <3>1. CASE k \in 1 .. m /\ u[k] = s[k] /\ u[k] \in S
        BY <2>1, <2>3, <3>1
      <3>2. CASE u[k] \in T
        BY <2>3, <3>2
      <3>3. QED
        BY <1>4, <3>1, <3>2
    <2>4. CASE \E a \in 1 .. n : j = m + a /\ u[j] = t[a] /\ u[j] \in T
      <3>1. PICK a \in 1 .. n : j = m + a /\ u[j] = t[a]
        BY <2>4
      <3>2. ~(k \in 1 .. m)
        BY <3>1
      <3>3. PICK b \in 1 .. n : k = m + b /\ u[k] = t[b]
        BY <1>4, <3>2
      <3>4. a <= b
        BY <3>1, <3>3
      <3>5. QED
        BY <2>2, <3>1, <3>3, <3>4
    <2>5. QED
      BY <1>4, <2>3, <2>4
  <1>7. QED
    BY <1>2, <1>5, <1>6

-----------------------------------------------------------------------------
(* Sums.                                                                   *)

\* What MapThenSumSet does with the summands a, one after the other.
AnyOf(s) == CHOOSE y \in s : TRUE
Summing(a, g, s) == IF s = {} THEN 0 ELSE a[AnyOf(s)] + g[s \ {AnyOf(s)}]
IsSum(g, a, S) == g = [s \in SUBSET S |-> Summing(a, g, s)]

\* The sum of the sizes of sets that have no element in common is the size of
\* their union.
LEMMA SumOfSizes ==
    ASSUME NEW S, IsFiniteSet(S), NEW A, NEW a,
           \A x \in S : IsFiniteSet(A[x]) /\ a[x] = Cardinality(A[x]),
           \A x, y \in S : x # y => A[x] \cap A[y] = {}
    PROVE  /\ \E g : IsSum(g, a, S)
           /\ \A g : IsSum(g, a, S) => g[S] = Cardinality(UNION {A[x] : x \in S})
  <1> DEFINE All(s) == UNION {A[x] : x \in s}
             h == [s \in SUBSET S |-> Cardinality(All(s))]
  <1>1. ASSUME NEW s \in SUBSET S
        PROVE  IsFiniteSet(s) /\ IsFiniteSet(All(s)) /\ Cardinality(All(s)) \in Nat
    <2>1. IsFiniteSet(s)
      BY FS_Subset
    <2>2. IsFiniteSet({A[x] : x \in s})
      <3> DEFINE f == [x \in s |-> A[x]]
      <3>1. f \in Surjection(s, {A[x] : x \in s})
        BY DEF Surjection
      <3>2. QED
        BY <2>1, <3>1, FS_Surjection
    <2>3. \A T \in {A[x] : x \in s} : IsFiniteSet(T)
      OBVIOUS
    <2>4. IsFiniteSet(All(s))
      BY <2>2, <2>3, FS_UNION
    <2>5. QED
      BY <2>1, <2>4, FS_CardinalityType
  <1>2. ASSUME NEW s \in SUBSET S, s # {}
        PROVE  /\ AnyOf(s) \in s /\ s \ {AnyOf(s)} \in SUBSET S
               /\ Cardinality(s \ {AnyOf(s)}) = Cardinality(s) - 1 /\ Cardinality(s) \in Nat
               /\ Cardinality(All(s)) = a[AnyOf(s)] + Cardinality(All(s \ {AnyOf(s)}))
    <2>1. PICK y : y = AnyOf(s)
      OBVIOUS
    <2>2. y \in s /\ y \in S
      BY <1>2, <2>1 DEF AnyOf
    <2>3. PICK r \in SUBSET S : r = s \ {y}
      BY <1>1
    <2>4. Cardinality(r) = Cardinality(s) - 1 /\ Cardinality(s) \in Nat
      BY <1>1, <2>2, <2>3, FS_RemoveElement, FS_CardinalityType
    <2>5. PICK T1, T2 : T1 = A[y] /\ T2 = All(r)
      OBVIOUS
    <2>6. All(s) = T1 \cup T2 /\ T1 \cap T2 = {}
      <3>1. All(s) = A[y] \cup All(r)
        BY <2>2, <2>3
      <3>2. A[y] \cap All(r) = {}
        BY <2>2, <2>3
      <3>3. QED
        BY <2>5, <3>1, <3>2
    <2>7. IsFiniteSet(T1) /\ IsFiniteSet(T2) /\ Cardinality(T1) \in Nat /\ Cardinality(T2) \in Nat
      BY <1>1, <2>2, <2>5, FS_CardinalityType
    <2> HIDE DEF All
    <2>8. Cardinality(T1 \cup T2) = Cardinality(T1) + Cardinality(T2) - Cardinality(T1 \cap T2)
          /\ Cardinality(T1 \cap T2) = 0
      BY <2>6, <2>7, FS_Union, FS_EmptySet
    <2>9. Cardinality(All(s)) = Cardinality(T1) + Cardinality(T2)
      BY <2>6, <2>7, <2>8
    <2>10. a[y] = Cardinality(T1)
      BY <2>2, <2>5
    <2>11. QED
      BY <2>1, <2>2, <2>3, <2>4, <2>5, <2>9, <2>10
  <1>3. Cardinality(All({})) = 0
    <2>1. All({}) = {}
      OBVIOUS
    <2>2. QED
      BY <2>1, FS_EmptySet
  <1>4. h = [s \in SUBSET S |-> Summing(a, h, s)]
    <2>1. ASSUME NEW s \in SUBSET S PROVE h[s] = Summing(a, h, s)
      <3>1. CASE s = {}
        BY <1>3, <3>1 DEF Summing
      <3>2. CASE s # {}
        <4>1. h[s] = Cardinality(All(s)) /\ h[s \ {AnyOf(s)}] = Cardinality(All(s \ {AnyOf(s)}))
          BY <1>2, <3>2
        <4> HIDE DEF h, All
        <4>2. QED
          BY <1>2, <3>2, <4>1 DEF Summing
      <3>3. QED
        BY <3>1, <3>2
    <2>2. QED
      BY <2>1
  <1>5. ASSUME NEW g, g = [s \in SUBSET S |-> Summing(a, g, s)]
        PROVE  g[S] = Cardinality(All(S))
    <2> DEFINE wrong == {n \in Nat : \E s \in SUBSET S : Cardinality(s) = n /\ g[s] # Cardinality(All(s))}
    <2>1. wrong = {}
      <3> SUFFICES ASSUME wrong # {} PROVE FALSE
        OBVIOUS
      <3>1. PICK n \in wrong : \A m \in wrong : n <= m
        <4>1. wrong \in SUBSET Nat
          OBVIOUS
        <4> HIDE DEF wrong
        <4>2. QED
          BY <4>1, LeastOf
      <3>2. PICK s \in SUBSET S : Cardinality(s) = n /\ g[s] # Cardinality(All(s))
        BY <3>1
      <3>3. g[s] = Summing(a, g, s)
        <4> HIDE DEF All
        <4>1. QED
          BY <1>5
      <3>4. s # {}
        <4> HIDE DEF All
        <4>1. QED
          BY <1>3, <3>2, <3>3 DEF Summing
      <3>5. PICK r \in SUBSET S : r = s \ {AnyOf(s)} /\ Cardinality(r) = n - 1 /\ n \in Nat
        <4> HIDE DEF All
        <4>1. QED
          BY <1>2, <3>2, <3>4
      <3>6. Cardinality(r) \in Nat
        <4> HIDE DEF All
        <4>1. QED
          BY <1>1, FS_CardinalityType
      <3>7. ~(n <= n - 1) /\ n - 1 \in Nat
        <4> HIDE DEF All, wrong
        <4>1. QED
          BY <3>5, <3>6
      <3>8. g[r] = Cardinality(All(r))
        <4>1. n - 1 \notin wrong
          <5> HIDE DEF wrong
          <5>1. QED
            BY <3>1, <3>7
        <4>2. QED
          BY <3>5, <3>7, <4>1
      <3>9. QED
        <4> HIDE DEF All
        <4>1. QED
          BY <1>2, <3>2, <3>3, <3>4, <3>5, <3>8 DEF Summing
    <2>2. IsFiniteSet(S) /\ Cardinality(S) \in Nat
      BY FS_CardinalityType
    <2>3. QED
      BY <2>1, <2>2
  <1>6. QED
    <2> HIDE DEF h
    <2>1. QED
      BY <1>4, <1>5 DEF IsSum

\* There always is such a function.
LEMMA SumExists ==
    ASSUME NEW S, IsFiniteSet(S), NEW a, \A x \in S : a[x] \in Nat
    PROVE  \E g : IsSum(g, a, S)
  <1>1. PICK c : c = [T \in SUBSET S |-> AnyOf(T)]
    OBVIOUS
  <1>2. \A T \in SUBSET S : T # {} => AnyOf(T) \in T
    BY DEF AnyOf
  <1>3. Chooses(c, S)
    BY <1>1, <1>2 DEF Chooses
  <1>4. PICK op : op = [p \in S \X Nat |-> a[p[1]] + p[2]]
    OBVIOUS
  <1>5. op \in [S \X Nat -> Nat]
    BY <1>4
  <1>6. PICK zero \in Nat : zero = 0
    OBVIOUS
  <1>7. PICK g : TakesOut(g, S, Nat, zero, c, op)
    BY <1>3, <1>5, FoldExists
  <1>8. ASSUME NEW T \in SUBSET S PROVE g[T] = Summing(a, g, T)
    <2>1. g[T] = TakeOut(zero, c, op, g, T)
      BY <1>7 DEF TakesOut
    <2>2. CASE T = {}
      BY <1>6, <2>1, <2>2 DEF TakeOut, Summing
    <2>3. CASE T # {}
      <3>1. PICK x \in S : x = AnyOf(T) /\ x = c[T]
        BY <1>1, <1>2, <2>3
      <3>2. PICK h \in Nat : h = g[T \ {x}]
        BY <1>7 DEF TakesOut
      <3>3. op[<<x, h>>] = a[x] + h
        BY <1>4
      <3>4. QED
        BY <2>1, <2>3, <3>1, <3>2, <3>3 DEF TakeOut, Summing
    <2>4. QED
      BY <2>2, <2>3
  <1>9. g = [T \in SUBSET S |-> g[T]]
    BY <1>7 DEF TakesOut
  <1>10. [T \in SUBSET S |-> g[T]] = [T \in SUBSET S |-> Summing(a, g, T)]
    BY <1>8
  <1>11. QED
    BY <1>9, <1>10 DEF IsSum
=============================================================================
