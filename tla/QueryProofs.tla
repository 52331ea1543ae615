----------------------------- MODULE QueryProofs -----------------------------
(***************************************************************************)
(* What is proved of what is told of an accepted file, for every file. Of  *)
(* the summary of the parse: the relocations that RELR words pack are      *)
(* those the format defines, and an init array has the address and the     *)
(* size that the file gives last. Of the questions: bytes behind           *)
(* everything the file describes are reported by the audit, the statistics *)
(* count the bytes that structures explain, the claim under the cursor is  *)
(* the one that accounts for the byte, and the bands drawn of the file     *)
(* tile it.                                                                *)
(*                                                                         *)
(* The summary's invariant says both of the entries read so far. It needs  *)
(* that a loop over entries has made as many turns as entries fit before   *)
(* where it is, so that a loop which has ended has read all of them, and   *)
(* that RELR's running cursor is where the words read so far put it.       *)
(*                                                                         *)
(* The audit and the cursor rest on what fill_unclaimed leaves behind:     *)
(* filler that ends before the file has a structure behind it, so there is *)
(* one filler behind the last structure; it has no parts, and lies in a    *)
(* structure only if it is parented to one. The bands rest on a walk       *)
(* through the tree that drops a leaf after another.                       *)
(***************************************************************************)
EXTENDS Audit, ParserProofs

-----------------------------------------------------------------------------
(* Numbers.                                                                *)

\* The n-th numbers of a set, for all n, are the set.
LEMMA NthFacts ==
    ASSUME NEW S \in SUBSET Nat, IsFiniteSet(S)
    PROVE  /\ Cardinality(S) \in Nat
           /\ {Nth(S, n) : n \in 1 .. Cardinality(S)} = S
  <1> DEFINE key == [b \in S |-> b]
             Below(b) == {c \in S : c < b}
             size == Cardinality(S)
  <1>1. \A b \in S : Below(b) = Earlier(S, key, b)
    BY DEF Earlier
  <1>2. key \in [S -> Nat] /\ \A a, b \in S : key[a] = key[b] => a = b
    OBVIOUS
  <1>3. \A a, b \in S : a < b => key[a] < key[b]
    OBVIOUS
  <1> HIDE DEF key
  <1>4. /\ size \in Nat
        /\ \A b \in S : Cardinality(Below(b)) \in 0 .. size - 1
        /\ \A a, b \in S : a < b => Cardinality(Below(a)) < Cardinality(Below(b))
        /\ \A n \in 1 .. size : \E b \in S : Cardinality(Below(b)) = n - 1
    <2>1. /\ size \in Nat
          /\ \A b \in S : Cardinality(Earlier(S, key, b)) \in 0 .. size - 1
          /\ \A a, b \in S : key[a] < key[b] =>
                Cardinality(Earlier(S, key, a)) < Cardinality(Earlier(S, key, b))
          /\ \A n \in 1 .. size : \E b \in S : Cardinality(Earlier(S, key, b)) = n - 1
      BY <1>2, RankFacts
    <2> HIDE DEF Below, size
    <2>2. \A b \in S : Cardinality(Below(b)) = Cardinality(Earlier(S, key, b))
      BY <1>1
    <2>3. QED
      BY <1>3, <2>1, <2>2
  <1> HIDE DEF size
  <1>5. \A n \in 1 .. size : Nth(S, n) \in S /\ Cardinality(Below(Nth(S, n))) = n - 1
    <2> TAKE n \in 1 .. size
    <2>1. Nth(S, n) = CHOOSE b \in S : Cardinality(Below(b)) = n - 1
      BY DEF Nth, Below
    <2>2. QED
      BY <1>4, <2>1
  <1>6. \A b \in S : \E n \in 1 .. size : Nth(S, n) = b
    <2> TAKE b \in S
    <2>1. PICK n \in 1 .. size : Cardinality(Below(b)) = n - 1
      <3>1. PICK r \in 0 .. size - 1 : r = Cardinality(Below(b))
        BY <1>4
      <3>2. r + 1 \in 1 .. size /\ r = (r + 1) - 1
        BY <1>4, <3>1
      <3>3. QED
        BY <3>1, <3>2
    <2>2. PICK c \in S : c = Nth(S, n) /\ Cardinality(Below(c)) = n - 1
      BY <1>5
    <2>3. ~(b < c) /\ ~(c < b)
      <3>1. ~(n - 1 < n - 1)
        OBVIOUS
      <3> HIDE DEF Below
      <3>2. QED
        BY <1>4, <2>1, <2>2, <3>1
    <2>4. b = c
      BY <2>3
    <2>5. QED
      BY <2>2, <2>4
  <1>7. QED
    BY <1>4, <1>5, <1>6 DEF size

\* A quotient is the number whose multiple is the last one that is not too large.
LEMMA DivFacts ==
    ASSUME NEW q \in Nat, NEW e \in Nat \ {0}, NEW s \in Nat, q * e <= s, s < q * e + e
    PROVE  s \div e = q
  <1>1. PICK d \in Int : d = s \div e
    OBVIOUS
  <1>2. d * e <= s /\ s < d * e + e
    BY <1>1
  <1>3. \A a, b \in Int : a < b => a * e + e <= b * e
    <2> SUFFICES ASSUME NEW a \in Int, NEW b \in Int, a < b
                 PROVE  a * e + e <= b * e
      OBVIOUS
    <2>1. PICK x \in Nat : b = a + 1 + x
      <3>1. b - a - 1 \in Nat /\ b = a + 1 + (b - a - 1)
        OBVIOUS
      <3>2. QED
        BY <3>1
    <2>2. b * e = a * e + e + x * e
      BY <2>1
    <2>3. x * e \in Nat /\ a * e \in Int
      BY Products
    <2>4. QED
      BY <2>2, <2>3
  <1>4. d * e \in Int /\ q * e \in Int
    OBVIOUS
  <1>5. ~(d < q) /\ ~(q < d)
    BY <1>2, <1>3, <1>4
  <1>6. QED
    BY <1>1, <1>5

\* The greatest of some numbers up to n is one of them.
LEMMA GreatestFacts ==
    ASSUME NEW n \in Nat, NEW S \in SUBSET (1 .. n), S # {}
    PROVE  FX!Max(S) \in S /\ \A m \in S : m <= FX!Max(S)
  <1> DEFINE T == {n - m : m \in S}
  <1>1. T \in SUBSET Nat /\ T # {}
    <2>1. \A m \in S : n - m \in Nat
      OBVIOUS
    <2>2. \E m \in S : TRUE
      OBVIOUS
    <2>3. QED
      BY <2>1, <2>2
  <1>2. PICK t \in T : \A u \in T : t <= u
    <2> HIDE DEF T
    <2>1. QED
      BY <1>1, LeastOf
  <1>3. PICK m \in S : t = n - m
    BY <1>2
  <1>4. \A k \in S : k <= m
    <2> TAKE k \in S
    <2>1. t <= n - k
      BY <1>2
    <2>2. QED
      BY <1>3, <2>1
  <1>5. \E x \in S : \A y \in S : x >= y
    BY <1>4
  <1>6. FX!Max(S) \in S /\ \A y \in S : FX!Max(S) >= y
    BY <1>5 DEF FX!Max
  <1>7. QED
    BY <1>6

\* A number that no greater one of them exceeds is the greatest.
LEMMA GreatestIs ==
    ASSUME NEW n \in Nat, NEW S \in SUBSET (1 .. n), NEW m \in S, \A k \in S : k <= m
    PROVE  FX!Max(S) = m
  <1>1. FX!Max(S) \in S /\ m <= FX!Max(S)
    BY GreatestFacts
  <1>2. FX!Max(S) <= m
    BY <1>1
  <1>3. FX!Max(S) \in 1 .. n /\ m \in 1 .. n
    BY <1>1
  <1>4. QED
    BY <1>1, <1>2, <1>3

-----------------------------------------------------------------------------
(* RELR words.                                                             *)

Capped(a) == IF a > MaxU64 THEN MaxU64 ELSE a

\* An address added to a capped one is the capped sum.
LEMMA CappedFacts ==
    ASSUME NEW a \in Nat, NEW b \in Nat
    PROVE  Capped(a) \in Nat /\ SatAdd(Capped(a), b) = Capped(a + b) /\ SatAdd(a, b) = Capped(a + b)
  BY SizeFacts DEF Capped, SatAdd

\* A word of a section is a word, and 0 where the file has none.
LEMMA EntryFacts ==
    ASSUME NEW s, s.entries \in Seq(U64), NEW k
    PROVE  Entry(s, k, 0) \in Nat
  <1>1. 0 \in Nat
    OBVIOUS
  <1>2. CASE k \in DOMAIN s.entries
    <2>1. PICK q \in Seq(U64) : q = s.entries
      OBVIOUS
    <2>2. q[k] \in U64
      BY <1>2, <2>1
    <2>3. Entry(s, k, 0) = q[k]
      BY <1>2, <2>1 DEF Entry
    <2>4. QED
      BY <2>2, <2>3, SizeFacts
  <1>3. CASE k \notin DOMAIN s.entries
    BY <1>1, <1>3 DEF Entry
  <1>4. QED
    BY <1>2, <1>3

BasesBefore(s, k) == {j \in 1 .. k - 1 : IsBase(Entry(s, j, 0))}

\* Where a bitmap begins follows from the word before it and where that one begins.
LEMMA StartFacts ==
    ASSUME NEW s, s.entries \in Seq(U64), NEW k \in Nat \ {0}
    PROVE  /\ RelrStart(s, k) \in Nat
           /\ IsBase(Entry(s, k, 0)) => RelrStart(s, k + 1) = Entry(s, k, 0) + WordBytes
           /\ ~IsBase(Entry(s, k, 0)) => RelrStart(s, k + 1) = RelrStart(s, k) + RelrBits * WordBytes
  <1>1. PICK w \in Nat : w = RelrBits * WordBytes
    BY SizesAssumption, Products
  <1>2. WordBytes \in Nat
    BY SizesAssumption
  <1> DEFINE Start(n) == IF BasesBefore(s, n) = {} THEN (n - 1) * w
              ELSE Entry(s, FX!Max(BasesBefore(s, n)), 0) + WordBytes
                      + (n - 1 - FX!Max(BasesBefore(s, n))) * w
  <1>3. \A n \in Nat : RelrStart(s, n) = Start(n)
    BY <1>1 DEF RelrStart, BasesBefore
  <1> HIDE DEF Start
  <1>4. \A n \in Nat \ {0} : BasesBefore(s, n) \in SUBSET (1 .. n) /\ BasesBefore(s, n) \in SUBSET (1 .. n - 1)
    BY DEF BasesBefore
  <1>5. \A j : Entry(s, j, 0) \in Nat
    BY EntryFacts
  <1>6. ASSUME NEW n \in Nat \ {0}, BasesBefore(s, n) # {}
        PROVE  /\ FX!Max(BasesBefore(s, n)) \in BasesBefore(s, n)
               /\ FX!Max(BasesBefore(s, n)) \in 1 .. n - 1
    <2>1. FX!Max(BasesBefore(s, n)) \in BasesBefore(s, n)
      BY <1>4, <1>6, GreatestFacts
    <2>2. QED
      BY <1>4, <2>1
  <1>7. RelrStart(s, k) \in Nat
    <2>1. CASE BasesBefore(s, k) = {}
      <3>1. (k - 1) * w \in Nat
        BY Products
      <3>2. QED
        BY <1>3, <2>1, <3>1 DEF Start
    <2>2. CASE BasesBefore(s, k) # {}
      <3>1. PICK last \in 1 .. k - 1 : last = FX!Max(BasesBefore(s, k))
        BY <1>6, <2>2
      <3>2. k - 1 - last \in Nat
        OBVIOUS
      <3>3. (k - 1 - last) * w \in Nat
        BY <3>2, Products
      <3>4. RelrStart(s, k) = Entry(s, last, 0) + WordBytes + (k - 1 - last) * w
        BY <1>3, <2>2, <3>1 DEF Start
      <3>5. QED
        BY <1>2, <1>5, <3>3, <3>4
    <2>3. QED
      BY <2>1, <2>2
  <1>8. PICK n \in Nat \ {0} : n = k + 1
    OBVIOUS
  <1>9. RelrStart(s, n) = Start(n) /\ n - 1 = k /\ BasesBefore(s, n) \in SUBSET (1 .. n)
    BY <1>3, <1>4, <1>8
  <1>10. ASSUME IsBase(Entry(s, k, 0))
         PROVE  RelrStart(s, n) = Entry(s, k, 0) + WordBytes
    <2>1. k \in BasesBefore(s, n) /\ \A j \in BasesBefore(s, n) : j <= k
      BY <1>9, <1>10 DEF BasesBefore
    <2>2. FX!Max(BasesBefore(s, n)) = k
      BY <1>9, <2>1, GreatestIs
    <2>3. RelrStart(s, n) = Entry(s, k, 0) + WordBytes + 0 * w
      <3>1. n - 1 - k = 0
        BY <1>9
      <3>2. QED
        BY <1>9, <2>1, <2>2, <3>1 DEF Start
    <2>4. 0 * w = 0
      OBVIOUS
    <2>5. QED
      BY <1>2, <1>5, <2>3, <2>4
  <1>11. ASSUME ~IsBase(Entry(s, k, 0))
         PROVE  RelrStart(s, n) = RelrStart(s, k) + w
    <2>1. BasesBefore(s, n) = BasesBefore(s, k)
      <3>1. \A j \in 1 .. k : j \in 1 .. k - 1 \/ j = k
        OBVIOUS
      <3>2. \A j \in 1 .. k - 1 : j \in 1 .. k
        OBVIOUS
      <3>3. QED
        BY <1>9, <1>11, <3>1, <3>2 DEF BasesBefore
    <2>2. \A a \in Int : (a + 1) * w = a * w + w
      OBVIOUS
    <2>3. CASE BasesBefore(s, k) = {}
      <3>1. PICK a \in Nat : a = k - 1
        OBVIOUS
      <3>2. RelrStart(s, n) = (a + 1) * w /\ RelrStart(s, k) = a * w
        BY <1>3, <1>9, <2>1, <2>3, <3>1 DEF Start
      <3>3. QED
        BY <2>2, <3>2
    <2>4. CASE BasesBefore(s, k) # {}
      <3>1. PICK last \in 1 .. k - 1 : last = FX!Max(BasesBefore(s, k))
        BY <1>6, <2>4
      <3>2. PICK base \in Nat : base = Entry(s, last, 0) + WordBytes
        BY <1>2, <1>5
      <3>3. PICK a \in Nat : a = k - 1 - last
        OBVIOUS
      <3>4. RelrStart(s, k) = base + a * w
        BY <1>3, <2>4, <3>1, <3>2, <3>3 DEF Start
      <3>5. n - 1 - last = a + 1
        BY <1>9, <3>3
      <3>6. RelrStart(s, n) = base + (a + 1) * w
        BY <1>9, <2>1, <2>4, <3>1, <3>2, <3>5 DEF Start
      <3>7. (a + 1) * w = a * w + w /\ a * w \in Nat
        BY <2>2, Products
      <3>8. QED
        BY <3>4, <3>6, <3>7
    <2>5. QED
      BY <2>3, <2>4
  <1>12. QED
    BY <1>1, <1>7, <1>8, <1>10, <1>11

\* The words that relocations unpack, each with what it relocates.
RelrSet(q) == {<<r.at, r.offset>> : r \in {x \in Elements(q) : x.table = "Relr"}}

LEMMA RelrSetJoins ==
    ASSUME NEW S, NEW T, NEW q \in Seq(S), NEW t \in Seq(T)
    PROVE  RelrSet(q \o t) = RelrSet(q) \cup RelrSet(t)
  <1>1. /\ q \o t \in Seq(S \cup T) /\ Len(q \o t) = Len(q) + Len(t)
        /\ \A k \in 1 .. Len(q) : (q \o t)[k] = q[k]
        /\ \A k \in 1 .. Len(t) : (q \o t)[Len(q) + k] = t[k]
    <2>1. q \in Seq(S \cup T) /\ t \in Seq(S \cup T)
      OBVIOUS
    <2>2. QED
      BY <2>1, ConcatProperties
  <1>2. PICK j : j = q \o t
    OBVIOUS
  <1>3. Elements(j) = Elements(q) \cup Elements(t)
    <2>1. DOMAIN j = 1 .. Len(q) + Len(t) /\ DOMAIN q = 1 .. Len(q) /\ DOMAIN t = 1 .. Len(t)
          /\ Len(q) \in Nat /\ Len(t) \in Nat
      BY <1>1, <1>2
    <2>2. \A x \in Elements(q) : x \in Elements(j)
      BY <1>1, <1>2, <2>1 DEF Elements
    <2>3. \A x \in Elements(t) : x \in Elements(j)
      <3> TAKE x \in Elements(t)
      <3>1. PICK k \in 1 .. Len(t) : x = t[k]
        BY <2>1 DEF Elements
      <3>2. Len(q) + k \in DOMAIN j /\ j[Len(q) + k] = x
        BY <1>1, <1>2, <2>1, <3>1
      <3>3. QED
        BY <3>2 DEF Elements
    <2>4. \A x \in Elements(j) : x \in Elements(q) \/ x \in Elements(t)
      <3> TAKE x \in Elements(j)
      <3>1. PICK k \in 1 .. Len(q) + Len(t) : x = j[k]
        BY <2>1 DEF Elements
      <3>2. CASE k \in 1 .. Len(q)
        BY <1>1, <1>2, <2>1, <3>1, <3>2 DEF Elements
      <3>3. CASE k \notin 1 .. Len(q)
        <4>1. PICK i \in 1 .. Len(t) : k = Len(q) + i
          <5>1. k - Len(q) \in 1 .. Len(t) /\ k = Len(q) + (k - Len(q))
            BY <2>1, <3>3
          <5>2. QED
            BY <5>1
        <4>2. x = t[i]
          BY <1>1, <1>2, <3>1, <4>1
        <4>3. QED
          BY <2>1, <4>2 DEF Elements
      <3>4. QED
        BY <3>2, <3>3
    <2>5. QED
      BY <2>2, <2>3, <2>4
  <1>4. RelrSet(j) = RelrSet(q) \cup RelrSet(t)
    <2> HIDE DEF Elements
    <2>1. QED
      BY <1>3 DEF RelrSet
  <1>5. QED
    BY <1>1, <1>2, <1>4

LEMMA RelrSetSkips ==
    ASSUME NEW S, NEW q \in Seq(S), NEW r, r.table # "Relr"
    PROVE  RelrSet(Append(q, r)) = RelrSet(q)
  <1>1. PICK T, t : T = {r} /\ t = <<r>>
    OBVIOUS
  <1>2. t \in Seq(T) /\ Append(q, r) = q \o t
    BY <1>1
  <1>3. RelrSet(t) = {}
    <2>1. \A x \in Elements(t) : x = r
      BY <1>1 DEF Elements
    <2>2. QED
      BY <2>1 DEF RelrSet
  <1>4. RelrSet(q \o t) = RelrSet(q) \cup RelrSet(t)
    <2>1. t \in Seq(T)
      BY <1>2
    <2>2. QED
      BY <2>1, RelrSetJoins
  <1>5. QED
    BY <1>2, <1>3, <1>4

\* The turn that reads a word unpacks it, if its cursor is right.
LEMMA RelrUnpacks ==
    ASSUME NEW s, s.entries \in Seq(U64), NEW k \in Nat \ {0},
           NEW from, from = Capped(RelrStart(s, k))
    PROVE  /\ \E T : RelrRelocs(s, k, from) \in Seq(T)
           /\ RelrSet(RelrRelocs(s, k, from)) = RelrExpected(s, k)
  <1>1. PICK word \in Nat : word = Entry(s, k, 0)
    BY EntryFacts
  <1>2. PICK at : at = EntryAt(s, k)[1]
    OBVIOUS
  <1> DEFINE bits == BitsOf(word)
             addr == IF IsBase(word) THEN <<word>>
                     ELSE [n \in 1 .. Cardinality(bits) |-> SatAdd(from, Nth(bits, n) * WordBytes)]
             q == [n \in DOMAIN addr |-> Reloc("Relr", addr[n], NoName, FALSE, at)]
  <1>3. RelrRelocs(s, k, from) = q
    BY <1>1, <1>2 DEF RelrRelocs
  <1>4. bits \in SUBSET Nat /\ IsFiniteSet(bits)
    <2>1. RelrBits \in Nat
      BY SizesAssumption
    <2>2. bits \in SUBSET (0 .. RelrBits - 1)
      BY DEF BitsOf
    <2>3. IsFiniteSet(0 .. RelrBits - 1)
      BY <2>1, FS_Interval
    <2>4. QED
      BY <2>1, <2>2, <2>3, FS_Subset
  <1>5. Cardinality(bits) \in Nat /\ {Nth(bits, n) : n \in 1 .. Cardinality(bits)} = bits
    <2> HIDE DEF bits
    <2>1. QED
      BY <1>4, NthFacts
  <1> HIDE DEF bits
  <1>6. PICK size \in Nat : DOMAIN addr = 1 .. size
    <2>1. CASE IsBase(word)
      <3>1. addr = <<word>>
        BY <2>1
      <3>2. DOMAIN <<word>> = 1 .. 1
        OBVIOUS
      <3>3. QED
        BY <3>1, <3>2
    <2>2. CASE ~IsBase(word)
      BY <1>5, <2>2
    <2>3. QED
      BY <2>1, <2>2
  <1>7. {addr[n] : n \in DOMAIN addr}
          = IF IsBase(word) THEN {word} ELSE {SatAdd(from, b * WordBytes) : b \in bits}
    <2>1. CASE IsBase(word)
      <3>1. addr = <<word>> /\ DOMAIN addr = {1} /\ addr[1] = word
        BY <2>1
      <3> HIDE DEF addr
      <3>2. QED
        BY <2>1, <3>1
    <2>2. CASE ~IsBase(word)
      <3>1. {addr[n] : n \in DOMAIN addr}
              = {SatAdd(from, Nth(bits, n) * WordBytes) : n \in 1 .. Cardinality(bits)}
        BY <2>2
      <3>2. QED
        BY <1>5, <2>2, <3>1
    <2>3. QED
      BY <2>1, <2>2
  <1> HIDE DEF addr
  <1>8. q \in Seq({Reloc("Relr", addr[n], NoName, FALSE, at) : n \in DOMAIN addr})
    <2> DEFINE T == {Reloc("Relr", addr[n], NoName, FALSE, at) : n \in DOMAIN addr}
    <2>1. DOMAIN q = 1 .. size /\ \A n \in 1 .. size : q[n] \in T
      BY <1>6
    <2>2. q = [n \in 1 .. size |-> q[n]]
      BY <1>6
    <2> HIDE DEF q, T
    <2>3. q \in [1 .. size -> T]
      BY <2>1, <2>2
    <2>4. q \in Seq(T)
      BY <2>3
    <2>5. QED
      BY <2>4 DEF T
  <1>9. RelrSet(q) = {<<at, addr[n]>> : n \in DOMAIN addr}
    <2>1. \A n \in DOMAIN addr : /\ q[n].table = "Relr" /\ q[n].at = at /\ q[n].offset = addr[n]
      BY DEF Reloc
    <2>2. DOMAIN q = DOMAIN addr
      OBVIOUS
    <2> HIDE DEF q
    <2>3. Elements(q) = {q[n] : n \in DOMAIN addr}
      BY <2>2 DEF Elements
    <2>4. QED
      BY <2>1, <2>3 DEF RelrSet
  <1>10. RelrExpected(s, k) = IF IsBase(word) THEN {<<at, word>>}
            ELSE {<<at, SatAdd(from, b * WordBytes)>> : b \in bits}
    <2>1. \A b \in bits : SatAdd(RelrStart(s, k), b * WordBytes) = SatAdd(from, b * WordBytes)
      <3> TAKE b \in bits
      <3>1. b * WordBytes \in Nat /\ RelrStart(s, k) \in Nat
        BY <1>4, StartFacts, SizesAssumption, Products
      <3>2. QED
        BY <3>1, CappedFacts
    <2>2. QED
      BY <1>1, <1>2, <2>1 DEF RelrExpected, bits
  <1>11. {<<at, addr[n]>> : n \in DOMAIN addr} = {<<at, x>> : x \in {addr[n] : n \in DOMAIN addr}}
    OBVIOUS
  <1>12. RelrSet(q) = RelrExpected(s, k)
    <2>1. {<<at, x>> : x \in {addr[n] : n \in DOMAIN addr}} = RelrExpected(s, k)
      <3>1. CASE IsBase(word)
        BY <1>7, <1>10, <3>1
      <3>2. CASE ~IsBase(word)
        BY <1>7, <1>10, <3>2
      <3>3. QED
        BY <3>1, <3>2
    <2>2. QED
      BY <1>9, <1>11, <2>1
  <1>13. QED
    BY <1>3, <1>8, <1>12

-----------------------------------------------------------------------------
(* What has been read.                                                     *)

\* The entries read so far: those of the sections before, and of the section at
\* hand as many as its loop has turned.
Turns(j) == IF j = sec THEN loop.n - 1 ELSE Count(Sections[j])
Read(type) == UNION {{<<j, k>> : k \in 1 .. Turns(j)} : j \in {i \in 1 .. sec : IsBodyOf(i, type)}}

\* The loop over the entries of a section is over those of the last section
\* come to, and there is one whenever that section has entries.
LoopReads ==
    /\ loop.kind \in EntryTypes => sec \in 1 .. Len(Sections) /\ IsBodyOf(sec, loop.kind)
    /\ \A type \in EntryTypes : sec > 0 /\ IsBodyOf(sec, type) =>
          /\ loop.kind = type
          /\ loop.size = Sections[sec].size /\ loop.entry = SizeOf(Sections[sec])
          /\ loop.off = (loop.n - 1) * loop.entry

\* RELR's running cursor is where the words read so far put it.
RelrCursorInv == loop.kind = "RELR" => loop.cursor = Capped(RelrStart(Sections[sec], loop.n))

IsSeq(q) == \E S : q \in Seq(S)

\* What the summary says is what the entries read so far say.
RelrInv ==
    RelrSet(summary.relocs) = UNION {RelrExpected(Sections[p[1]], p[2]) : p \in Read("RELR")}
PairInv ==
    summary.initArray = Paired(Tagged(Read("DYNAMIC"), "INIT_ARRAY"),
                               Tagged(Read("DYNAMIC"), "INIT_ARRAYSZ"))

\* Nothing has been read before the first section.
LEMMA NothingRead ==
    ASSUME NEW type, sec = 0
    PROVE  Read(type) = {}
  BY DEF Read

\* The file does not change, so neither does what a section is.
LEMMA SameBodies ==
    ASSUME UNCHANGED elf
    PROVE  Sections' = Sections /\ \A j, type : IsBodyOf(j, type)' <=> IsBodyOf(j, type)
  <1>1. Sections' = Sections
    BY SameRegions
  <1>2. QED
    BY <1>1 DEF IsBodyOf, HasBody, InFile

\* What has been read stays the same while no loop over entries turns.
LEMMA ReadSame ==
    ASSUME UNCHANGED <<elf, sec>>, sec = 0 \/ loop'.n = loop.n, NEW type
    PROVE  Read(type)' = Read(type)
  <1>1. CASE sec = 0
    BY <1>1 DEF Read
  <1>2. CASE loop'.n = loop.n
    <2>1. Sections' = Sections /\ \A j : IsBodyOf(j, type)' <=> IsBodyOf(j, type)
      BY SameBodies
    <2>2. \A j : Turns(j)' = Turns(j)
      BY <1>2, <2>1 DEF Turns
    <2>3. QED
      BY <2>1, <2>2 DEF Read
  <1>3. QED
    BY <1>1, <1>2

\* An entry is not of size 0.
LEMMA SizeOfFacts ==
    ASSUME elf \in Elfs, TableRead, NEW j \in 1 .. Len(Sections), NEW type \in EntryTypes,
           IsBodyOf(j, type)
    PROVE  SizeOf(Sections[j]) \in Nat \ {0} /\ Sections[j].size \in Nat /\ Sections[j].type = type
  <1>1. Sections[j].entsize \in Nat /\ Sections[j].size \in Nat
    BY SectionFacts
  <1>2. Sections[j].type = type
    BY DEF IsBodyOf
  <1>3. EntrySize[type] \in Nat \ {0}
    BY SizesAssumption
  <1>4. QED
    BY <1>1, <1>2, <1>3 DEF SizeOf

\* A loop over entries that has ended has read as many as there are.
LEMMA AllTurned ==
    ASSUME elf \in Elfs, TableRead, LoopInv, LoopReads, ~More,
           sec \in 1 .. Len(Sections), NEW type \in EntryTypes, IsBodyOf(sec, type)
    PROVE  Turns(sec) = Count(Sections[sec])
  <1>1. /\ loop.kind = type /\ loop.size = Sections[sec].size
        /\ loop.entry = SizeOf(Sections[sec]) /\ loop.off = (loop.n - 1) * loop.entry
    BY DEF LoopReads
  <1>2. /\ loop.n \in Nat \ {0} /\ loop.off \in 0 .. loop.size
        /\ loop.entry \in Nat \ {0} /\ loop.size \in Nat
    BY <1>1, SizeOfFacts DEF LoopInv, EntryTypes
  <1>3. ~(loop.off + loop.entry <= loop.size)
    BY <1>1 DEF More, EntryLen, EntryTypes
  <1>4. PICK q \in Nat, e \in Nat \ {0}, s \in Nat, o \in Nat :
           q = loop.n - 1 /\ e = loop.entry /\ s = loop.size /\ o = loop.off
    BY <1>2
  <1>5. q * e <= s /\ s < q * e + e
    <2>1. o = q * e
      BY <1>1, <1>4
    <2>2. o <= s /\ ~(o + e <= s)
      BY <1>2, <1>3, <1>4
    <2>3. QED
      BY <2>1, <2>2
  <1>6. s \div e = q
    BY <1>5, DivFacts
  <1>7. QED
    BY <1>1, <1>4, <1>6 DEF Turns, Count

\* The next section is come to: nothing is read of it yet, and all of the one before.
LEMMA ReadBody ==
    ASSUME UNCHANGED elf, elf \in Elfs, TableRead, LoopInv, LoopReads, ~More,
           sec \in Nat, sec < Len(Sections), sec' = sec + 1, loop'.n = 1,
           NEW type \in EntryTypes
    PROVE  Read(type)' = Read(type)
  <1>1. Sections' = Sections /\ \A j : IsBodyOf(j, type)' <=> IsBodyOf(j, type)
    BY SameBodies
  <1>2. Len(Sections) \in Nat
    BY SectionFacts
  <1>3. \A j \in 1 .. sec : IsBodyOf(j, type) => Turns(j)' = Turns(j)
    <2> SUFFICES ASSUME NEW j \in 1 .. sec, IsBodyOf(j, type)
                 PROVE  Turns(j)' = Turns(j)
      OBVIOUS
    <2>1. j # sec' /\ Turns(j)' = Count(Sections[j])
      <3>1. j # sec + 1
        OBVIOUS
      <3>2. QED
        BY <1>1, <3>1 DEF Turns
    <2>2. CASE j = sec
      <3>1. sec \in 1 .. Len(Sections) /\ IsBodyOf(sec, type)
        BY <1>2, <2>2
      <3>2. QED
        BY <2>1, <2>2, <3>1, AllTurned
    <2>3. CASE j # sec
      BY <2>1, <2>3 DEF Turns
    <2>4. QED
      BY <2>2, <2>3
  <1>4. PICK m \in Nat : m = sec + 1
    OBVIOUS
  <1>5. /\ Turns(m)' = 0
        /\ \A j : j \in 1 .. sec' <=> j \in 1 .. sec \/ j = m
    BY <1>4 DEF Turns
  <1> DEFINE Of(j) == {<<j, k>> : k \in 1 .. Turns(j)}
             J == {i \in 1 .. sec : IsBodyOf(i, type)}
  <1>6. Read(type) = UNION {Of(j) : j \in J}
    BY DEF Read
  <1>7. Read(type)' = UNION {{<<j, k>> : k \in 1 .. Turns(j)'} :
                               j \in {i \in 1 .. sec' : IsBodyOf(i, type)}}
    BY <1>1 DEF Read
  <1>8. \A j \in J : {<<j, k>> : k \in 1 .. Turns(j)'} = Of(j)
    BY <1>3
  <1>9. {<<m, k>> : k \in 1 .. Turns(m)'} = {}
    BY <1>5
  <1>10. {i \in 1 .. sec' : IsBodyOf(i, type)} = J \cup {i \in {m} : IsBodyOf(i, type)}
    BY <1>5
  <1> HIDE DEF J, Of
  <1>11. QED
    BY <1>6, <1>7, <1>8, <1>9, <1>10

\* A turn reads one entry more of the section at hand, and none of another.
LEMMA ReadTurn ==
    ASSUME UNCHANGED <<elf, sec>>, LoopReads, loop.n \in Nat \ {0}, loop'.n = loop.n + 1,
           sec \in Nat, NEW type \in EntryTypes
    PROVE  Read(type)' = IF loop.kind = type THEN Read(type) \cup {<<sec, loop.n>>} ELSE Read(type)
  <1>1. Sections' = Sections /\ \A j : IsBodyOf(j, type)' <=> IsBodyOf(j, type)
    BY SameBodies
  <1>2. loop.kind = type <=> sec > 0 /\ IsBodyOf(sec, type)
    BY DEF LoopReads
  <1>3. PICK m \in Nat \ {0} : m = loop.n
    OBVIOUS
  <1>4. Turns(sec) = m - 1 /\ Turns(sec)' = m
    BY <1>3 DEF Turns
  <1>5. \A j : j # sec => Turns(j)' = Turns(j)
    BY <1>1 DEF Turns
  <1> DEFINE Of(j) == {<<j, k>> : k \in 1 .. Turns(j)}
             NewOf(j) == {<<j, k>> : k \in 1 .. Turns(j)'}
             J == {i \in 1 .. sec : IsBodyOf(i, type)}
  <1>6. Read(type) = UNION {Of(j) : j \in J}
    BY DEF Read
  <1>7. Read(type)' = UNION {NewOf(j) : j \in J}
    BY <1>1 DEF Read
  <1>8. \A j \in J : j # sec => NewOf(j) = Of(j)
    BY <1>5
  <1>9. NewOf(sec) = Of(sec) \cup {<<sec, m>>}
    <2>1. \A k : k \in 1 .. m <=> k \in 1 .. m - 1 \/ k = m
      OBVIOUS
    <2>2. QED
      BY <1>4, <2>1
  <1>10. sec \in J <=> loop.kind = type
    BY <1>2
  <1> HIDE DEF J, Of, NewOf
  <1>11. CASE loop.kind = type
    BY <1>3, <1>6, <1>7, <1>8, <1>9, <1>10, <1>11
  <1>12. CASE loop.kind # type
    BY <1>6, <1>7, <1>8, <1>10, <1>12
  <1>13. QED
    BY <1>11, <1>12

\* In the end all is read.
LEMMA AllRead ==
    ASSUME elf \in Elfs, TableRead, LoopInv, LoopReads, ~More, sec = Len(Sections),
           NEW type \in EntryTypes
    PROVE  Read(type) = EntriesOf(type)
  <1>1. Len(Sections) \in Nat /\ DOMAIN Sections = 1 .. Len(Sections)
    BY SectionFacts
  <1>2. \A j \in 1 .. sec : IsBodyOf(j, type) => Turns(j) = Count(Sections[j])
    <2> SUFFICES ASSUME NEW j \in 1 .. sec, IsBodyOf(j, type)
                 PROVE  Turns(j) = Count(Sections[j])
      OBVIOUS
    <2>1. CASE j = sec
      <3>1. sec \in 1 .. Len(Sections) /\ IsBodyOf(sec, type)
        BY <1>1, <2>1
      <3>2. QED
        BY <2>1, <3>1, AllTurned
    <2>2. CASE j # sec
      BY <2>2 DEF Turns
    <2>3. QED
      BY <2>1, <2>2
  <1>3. QED
    BY <1>1, <1>2 DEF Read, EntriesOf

-----------------------------------------------------------------------------
(* What a turn adds to the summary.                                        *)

HasFields(m) == {"relocs", "initArray"} \subseteq DOMAIN m

\* A dynamic entry sets at most one half of the init array.
LEMMA DynamicFacts ==
    ASSUME NEW m, HasFields(m), NEW s, NEW e
    PROVE  /\ HasFields(ReadDynamic(m, s, e))
           /\ ReadDynamic(m, s, e).relocs = m.relocs
           /\ ReadDynamic(m, s, e).initArray =
                 IF e.tag = "INIT_ARRAY" THEN {<<e.val, SizeIn(m.initArray)>>}
                 ELSE IF e.tag = "INIT_ARRAYSZ" THEN {<<AddressIn(m.initArray), e.val>>}
                 ELSE m.initArray
  <1>1. PICK name : name = Name(SectionAt(s.link), NameOffset(e.val))
    OBVIOUS
  <1>2. CASE e.tag = "NEEDED"
    BY <1>1, <1>2 DEF ReadDynamic, HasFields
  <1>3. CASE e.tag = "SONAME"
    BY <1>1, <1>3 DEF ReadDynamic, HasFields
  <1>4. CASE e.tag = "FLAGS"
    BY <1>1, <1>4 DEF ReadDynamic, HasFields
  <1>5. CASE e.tag = "INIT"
    BY <1>1, <1>5 DEF ReadDynamic, HasFields
  <1>6. CASE e.tag = "INIT_ARRAY"
    BY <1>1, <1>6 DEF ReadDynamic, HasFields
  <1>7. CASE e.tag = "INIT_ARRAYSZ"
    BY <1>1, <1>7 DEF ReadDynamic, HasFields
  <1>8. CASE e.tag \notin {"NEEDED", "SONAME", "FLAGS", "INIT", "INIT_ARRAY", "INIT_ARRAYSZ"}
    <2>1. ReadDynamic(m, s, e) = m
      BY <1>1, <1>8 DEF ReadDynamic
    <2>2. QED
      BY <1>8, <2>1
  <1>9. QED
    BY <1>2, <1>3, <1>4, <1>5, <1>6, <1>7, <1>8

\* So does a turn, and only one over relocations adds any.
LEMMA TurnSummary ==
    ASSUME NEW m, HasFields(m), NEW k, k = WithEntry(m), NEW s, s = Sections[sec]
    PROVE  /\ HasFields(k)
           /\ k.relocs = IF loop.kind \in {"RELA", "REL"} THEN Append(m.relocs, RelocOf(s, loop.n))
                         ELSE IF loop.kind = "RELR"
                              THEN m.relocs \o RelrRelocs(s, loop.n, loop.cursor)
                         ELSE m.relocs
           /\ k.initArray = IF loop.kind = "DYNAMIC"
                            THEN ReadDynamic(m, s, Entry(s, loop.n, NoEntry)).initArray
                            ELSE m.initArray
  <1>1. CASE loop.kind = "PHDR"
    <2>1. PICK seg : seg = Segments[loop.n]
      OBVIOUS
    <2>2. k = WithSegment(m, seg)
      BY <1>1, <2>1 DEF WithEntry
    <2>3. HasFields(k) /\ k.relocs = m.relocs /\ k.initArray = m.initArray
      BY <2>2 DEF WithSegment, HasFields
    <2>4. QED
      BY <1>1, <2>3
  <1>2. CASE loop.kind \in {"RELA", "REL"}
    <2>1. PICK r : r = RelocOf(s, loop.n)
      OBVIOUS
    <2>2. k = [m EXCEPT !.relocs = Append(@, r)]
      BY <1>2, <2>1 DEF WithEntry
    <2>3. HasFields(k) /\ k.relocs = Append(m.relocs, r) /\ k.initArray = m.initArray
      BY <2>2 DEF HasFields
    <2>4. QED
      BY <1>2, <2>1, <2>3
  <1>3. CASE loop.kind = "RELR"
    <2>1. PICK t : t = RelrRelocs(s, loop.n, loop.cursor)
      OBVIOUS
    <2>2. k = [m EXCEPT !.relocs = @ \o t]
      BY <1>3, <2>1 DEF WithEntry
    <2>3. HasFields(k) /\ k.relocs = m.relocs \o t /\ k.initArray = m.initArray
      BY <2>2 DEF HasFields
    <2>4. QED
      BY <1>3, <2>1, <2>3
  <1>4. CASE loop.kind = "DYNAMIC"
    <2>1. PICK e : e = Entry(s, loop.n, NoEntry)
      OBVIOUS
    <2>2. k = ReadDynamic(m, s, e)
      BY <1>4, <2>1 DEF WithEntry
    <2>3. HasFields(k) /\ k.relocs = m.relocs
      <3>1. HasFields(ReadDynamic(m, s, e)) /\ ReadDynamic(m, s, e).relocs = m.relocs
        BY DynamicFacts, ZenonT(60)
      <3>2. QED
        BY <2>2, <3>1
    <2>4. QED
      BY <1>4, <2>1, <2>2, <2>3
  <1>5. CASE loop.kind \notin {"PHDR", "RELA", "REL", "RELR", "DYNAMIC"}
    <2>1. k = m
      BY <1>5 DEF WithEntry
    <2>2. QED
      BY <1>5, <2>1
  <1>6. QED
    BY <1>1, <1>2, <1>3, <1>4, <1>5

-----------------------------------------------------------------------------
(* The init array.                                                         *)

\* An entry after the others is the last.
LEMMA LastFacts ==
    ASSUME NEW P \in SUBSET (Nat \X Nat), NEW p \in Nat \X Nat, \A q \in P : NotAfter(q, p)
    PROVE  LastVal(P \cup {p}) = Dynamic(p).val
  <1> DEFINE Q == P \cup {p}
             q == CHOOSE x \in Q : \A y \in Q : NotAfter(y, x)
  <1>1. Q # {} /\ Q \in SUBSET (Nat \X Nat) /\ p \in Q
    OBVIOUS
  <1>2. \A y \in Q : NotAfter(y, p)
    <2>1. NotAfter(p, p)
      BY DEF NotAfter
    <2>2. QED
      BY <2>1
  <1>3. LastVal(Q) = Dynamic(q).val
    BY <1>1 DEF LastVal
  <1> HIDE DEF Q
  <1>4. q \in Q /\ NotAfter(p, q)
    BY <1>1, <1>2
  <1> HIDE DEF q
  <1>5. q \in Nat \X Nat /\ NotAfter(q, p)
    BY <1>1, <1>2, <1>4
  <1>6. q[1] = p[1] /\ q[2] = p[2]
    BY <1>4, <1>5 DEF NotAfter
  <1>7. q = p
    BY <1>5, <1>6
  <1>8. QED
    BY <1>3, <1>7 DEF Q

\* What a pair says of either half.
LEMMA PairedFacts ==
    ASSUME NEW P, NEW Q
    PROVE  /\ AddressIn(Paired(P, Q)) = LastVal(P)
           /\ SizeIn(Paired(P, Q)) = LastVal(Q)
  <1>1. CASE P \cup Q = {}
    BY <1>1 DEF Paired, AddressIn, SizeIn, LastVal
  <1>2. CASE P \cup Q # {}
    <2>1. PICK a, b : a = LastVal(P) /\ b = LastVal(Q)
      OBVIOUS
    <2>2. Paired(P, Q) = {<<a, b>>}
      BY <1>2, <2>1 DEF Paired
    <2>3. (CHOOSE p \in {<<a, b>>} : TRUE) = <<a, b>>
      OBVIOUS
    <2>4. QED
      BY <2>1, <2>2, <2>3 DEF AddressIn, SizeIn
  <1>3. QED
    BY <1>1, <1>2

\* The pair that some dynamic entries make.
PairOf(P) == Paired(Tagged(P, "INIT_ARRAY"), Tagged(P, "INIT_ARRAYSZ"))

\* An entry that comes after the others sets the half it has the tag of.
LEMMA PairedGrows ==
    ASSUME NEW R \in SUBSET (Nat \X Nat), NEW p \in Nat \X Nat, \A q \in R : NotAfter(q, p)
    PROVE  LET old == PairOf(R)
               e == Dynamic(p)
           IN  PairOf(R \cup {p}) =
                  IF e.tag = "INIT_ARRAY" THEN {<<e.val, SizeIn(old)>>}
                  ELSE IF e.tag = "INIT_ARRAYSZ" THEN {<<AddressIn(old), e.val>>}
                  ELSE old
  <1> DEFINE e == Dynamic(p)
             old == PairOf(R)
  <1>1. PICK A, Z : /\ A = Tagged(R, "INIT_ARRAY") /\ Z = Tagged(R, "INIT_ARRAYSZ")
                    /\ old = Paired(A, Z)
    BY DEF PairOf
  <1> HIDE DEF e, old
  <1>2. \A tag : Tagged(R \cup {p}, tag) = IF e.tag = tag THEN Tagged(R, tag) \cup {p}
                                           ELSE Tagged(R, tag)
    BY DEF Tagged, e
  <1>3. /\ A \in SUBSET (Nat \X Nat) /\ Z \in SUBSET (Nat \X Nat)
        /\ \A q \in A \cup Z : NotAfter(q, p)
    BY <1>1 DEF Tagged
  <1>4. AddressIn(old) = LastVal(A) /\ SizeIn(old) = LastVal(Z)
    BY <1>1, PairedFacts
  <1>5. PairOf(R \cup {p}) =
           IF e.tag = "INIT_ARRAY" THEN {<<e.val, SizeIn(old)>>}
           ELSE IF e.tag = "INIT_ARRAYSZ" THEN {<<AddressIn(old), e.val>>}
           ELSE old
    <2>1. CASE e.tag = "INIT_ARRAY"
      <3>1. Tagged(R \cup {p}, "INIT_ARRAY") = A \cup {p} /\ Tagged(R \cup {p}, "INIT_ARRAYSZ") = Z
        BY <1>1, <1>2, <2>1
      <3>2. LastVal(A \cup {p}) = e.val
        BY <1>3, LastFacts DEF e
      <3>3. (A \cup {p}) \cup Z # {}
        OBVIOUS
      <3>4. Paired(A \cup {p}, Z) = {<<e.val, LastVal(Z)>>}
        BY <3>2, <3>3 DEF Paired
      <3>5. QED
        BY <1>4, <2>1, <3>1, <3>4 DEF PairOf
    <2>2. CASE e.tag = "INIT_ARRAYSZ"
      <3>1. Tagged(R \cup {p}, "INIT_ARRAY") = A /\ Tagged(R \cup {p}, "INIT_ARRAYSZ") = Z \cup {p}
        BY <1>1, <1>2, <2>2
      <3>2. LastVal(Z \cup {p}) = e.val
        BY <1>3, LastFacts DEF e
      <3>3. A \cup (Z \cup {p}) # {}
        OBVIOUS
      <3>4. Paired(A, Z \cup {p}) = {<<LastVal(A), e.val>>}
        BY <3>2, <3>3 DEF Paired
      <3>5. QED
        BY <1>4, <2>2, <3>1, <3>4 DEF PairOf
    <2>3. CASE e.tag \notin {"INIT_ARRAY", "INIT_ARRAYSZ"}
      <3>1. Tagged(R \cup {p}, "INIT_ARRAY") = A /\ Tagged(R \cup {p}, "INIT_ARRAYSZ") = Z
        BY <1>1, <1>2, <2>3
      <3>2. QED
        BY <1>1, <2>3, <3>1 DEF PairOf
    <2>4. QED
      BY <2>1, <2>2, <2>3
  <1>6. QED
    BY <1>5 DEF e, old

\* The entry at hand comes after those read.
LEMMA ReadBefore ==
    ASSUME sec \in Nat, loop.n \in Nat \ {0}, NEW type
    PROVE  /\ Read(type) \in SUBSET (Nat \X Nat) /\ <<sec, loop.n>> \in Nat \X Nat
           /\ \A q \in Read(type) : NotAfter(q, <<sec, loop.n>>)
  <1>1. ASSUME NEW q \in Read(type)
        PROVE  q \in Nat \X Nat /\ NotAfter(q, <<sec, loop.n>>)
    <2>1. PICK j \in 1 .. sec : \E k \in 1 .. Turns(j) : q = <<j, k>>
      BY DEF Read
    <2>2. PICK k \in 1 .. Turns(j) : q = <<j, k>>
      BY <2>1
    <2>3. j \in Nat /\ k \in Nat /\ j <= sec
      OBVIOUS
    <2>4. CASE j = sec
      <3>1. k <= loop.n
        BY <2>3, <2>4 DEF Turns
      <3>2. QED
        BY <2>2, <2>3, <2>4, <3>1 DEF NotAfter
    <2>5. CASE j # sec
      BY <2>2, <2>3, <2>5 DEF NotAfter
    <2>6. QED
      BY <2>4, <2>5
  <1>2. QED
    BY <1>1

-----------------------------------------------------------------------------
(* The steps of parse.                                                     *)

SummaryInv ==
    /\ HasFields(summary) /\ IsSeq(summary.relocs)
    /\ LoopReads /\ RelrCursorInv
    /\ RelrInv /\ PairInv

LEMMA SummaryInit == ParserInit => SummaryInv
  <1> SUFFICES ASSUME ParserInit PROVE SummaryInv
    OBVIOUS
  <1>1. sec = 0 /\ loop = NoLoop /\ summary = NoSummary
    BY DEF ParserInit
  <1>2. \A type : Read(type) = {}
    BY <1>1, NothingRead
  <1>3. HasFields(summary) /\ summary.relocs = <<>> /\ summary.initArray = {}
    BY <1>1 DEF HasFields, NoSummary
  <1>4. IsSeq(summary.relocs) /\ RelrSet(summary.relocs) = {}
    <2>1. <<>> \in Seq({}) /\ Elements(<<>>) = {}
      BY DEF Elements
    <2>2. QED
      BY <1>3, <2>1 DEF IsSeq, RelrSet
  <1>5. LoopReads /\ RelrCursorInv
    BY <1>1 DEF LoopReads, RelrCursorInv, NoLoop, EntryTypes
  <1>6. RelrInv
    BY <1>2, <1>4 DEF RelrInv
  <1>7. PairInv
    BY <1>2, <1>3 DEF PairInv, Paired, Tagged
  <1>8. QED
    BY <1>3, <1>4, <1>5, <1>6, <1>7 DEF SummaryInv

\* The file does not change, so neither does what its entries pair.
LEMMA SamePairs ==
    ASSUME UNCHANGED elf
    PROVE  /\ \A P, tag : Tagged(P, tag)' = Tagged(P, tag)
           /\ \A P, Q : Paired(P, Q)' = Paired(P, Q)
  <1>1. Sections' = Sections
    BY SameRegions
  <1>2. \A p : Dynamic(p)' = Dynamic(p)
    BY <1>1 DEF Dynamic
  <1>3. \A P, tag : Tagged(P, tag)' = Tagged(P, tag)
    BY <1>2 DEF Tagged
  <1>4. \A P : LastVal(P)' = LastVal(P)
    BY <1>2 DEF LastVal
  <1>5. \A P, Q : Paired(P, Q)' = Paired(P, Q)
    BY <1>4 DEF Paired
  <1>6. QED
    BY <1>3, <1>5

\* What nothing is added to stays right.
LEMMA SummaryKept ==
    ASSUME SummaryInv, UNCHANGED elf, \A type \in EntryTypes : Read(type)' = Read(type),
           HasFields(summary'), summary'.relocs = summary.relocs,
           summary'.initArray = summary.initArray
    PROVE  HasFields(summary)' /\ IsSeq(summary.relocs)' /\ RelrInv' /\ PairInv'
  <1>1. Sections' = Sections
    BY SameRegions
  <1>2. Read("RELR")' = Read("RELR") /\ Read("DYNAMIC")' = Read("DYNAMIC")
    BY DEF EntryTypes
  <1>3. HasFields(summary)' /\ IsSeq(summary.relocs)'
    BY DEF SummaryInv
  <1>4. RelrInv'
    BY <1>1, <1>2 DEF SummaryInv, RelrInv
  <1>5. PairInv'
    BY <1>2, SamePairs DEF SummaryInv, PairInv
  <1>6. QED
    BY <1>3, <1>4, <1>5

\* Most steps neither read an entry nor come to another section.
LEMMA SummarySame ==
    ASSUME SummaryInv, UNCHANGED <<elf, loop, sec, summary>>
    PROVE  SummaryInv'
  <1>1. Sections' = Sections /\ \A j, type : IsBodyOf(j, type)' <=> IsBodyOf(j, type)
    BY SameBodies
  <1>2. \A type : Read(type)' = Read(type)
    BY ReadSame
  <1>3. HasFields(summary)' /\ IsSeq(summary.relocs)' /\ RelrInv' /\ PairInv'
    BY <1>2, SummaryKept DEF SummaryInv
  <1>4. LoopReads' /\ RelrCursorInv'
    BY <1>1 DEF SummaryInv, LoopReads, RelrCursorInv
  <1>5. QED
    BY <1>3, <1>4 DEF SummaryInv

\* The header and the tables come before the sections.
LEMMA SummaryHeaders ==
    ASSUME SummaryInv, sec = 0, UNCHANGED <<elf, sec, summary>>, loop'.kind \notin EntryTypes
    PROVE  SummaryInv'
  <1>1. \A type : Read(type)' = Read(type)
    BY ReadSame
  <1>2. HasFields(summary)' /\ IsSeq(summary.relocs)' /\ RelrInv' /\ PairInv'
    BY <1>1, SummaryKept DEF SummaryInv
  <1>3. LoopReads' /\ RelrCursorInv'
    BY DEF LoopReads, RelrCursorInv, EntryTypes
  <1>4. QED
    BY <1>2, <1>3 DEF SummaryInv

\* Of the section that is next, nothing has been read yet.
LEMMA SummaryBody ==
    ASSUME SummaryInv, PlanInv, StepInv, ParseBody
    PROVE  SummaryInv'
  <1>1. /\ step = "bodies" /\ ~More /\ sec < Len(Sections) /\ sec' = sec + 1
        /\ UNCHANGED <<elf, step, error, vars>>
    BY DEF ParseBody, Ready
  <1>2. elf \in Elfs /\ TableRead /\ sec \in Nat /\ LoopInv /\ LoopReads
    BY <1>1 DEF StepInv, PlanInv, SummaryInv
  <1>3. PICK s : s = Sections[sec + 1]
    OBVIOUS
  <1>4. /\ \/ ~HasBody(s) /\ summary' = summary /\ loop' = NoLoop
           \/ /\ HasBody(s)
              /\ summary' = [summary EXCEPT !.hasRelr = @ \/ s.type = "RELR"]
              /\ \/ s.type \in EntryTypes
                    /\ loop' = Loop(s.type, NextId, s.offset, s.size, SizeOf(s))
                 \/ s.type \in {"STRTAB", "NOTE"}
                    /\ loop' = Loop(s.type, NextId, s.offset, s.size, 0)
                 \/ s.type \notin EntryTypes \cup {"STRTAB", "NOTE"} /\ loop' = NoLoop
    BY <1>3 DEF ParseBody
  <1>5. loop'.n = 1 /\ (loop'.kind \in EntryTypes =>
           /\ HasBody(s) /\ s.type = loop'.kind /\ loop'.size = s.size
           /\ loop'.entry = SizeOf(s) /\ loop'.off = 0 /\ loop'.cursor = 0)
    <2>1. \A kind, id, start, size, entry : Loop(kind, id, start, size, entry).cursor = 0
      BY DEF Loop, NoLoop
    <2>2. CASE loop' = NoLoop
      BY <2>2 DEF NoLoop, EntryTypes
    <2>3. CASE s.type \in EntryTypes /\ HasBody(s)
               /\ loop' = Loop(s.type, NextId, s.offset, s.size, SizeOf(s))
      BY <2>1, <2>3, LoopFields
    <2>4. CASE s.type \in {"STRTAB", "NOTE"}
               /\ loop' = Loop(s.type, NextId, s.offset, s.size, 0)
      <3>1. loop'.n = 1 /\ loop'.kind = s.type
        BY <2>4, LoopFields
      <3>2. QED
        BY <2>4, <3>1 DEF EntryTypes
    <2>5. QED
      BY <1>4, <2>2, <2>3, <2>4
  <1>6. HasBody(s) /\ s.type \in EntryTypes => loop'.kind = s.type
    BY <1>4 DEF Loop, NoLoop, EntryTypes
  <1>7. \A type \in EntryTypes : Read(type)' = Read(type)
    BY <1>1, <1>2, <1>5, ReadBody
  <1>8. HasFields(summary') /\ summary'.relocs = summary.relocs
        /\ summary'.initArray = summary.initArray
    BY <1>4 DEF SummaryInv, HasFields
  <1>9. HasFields(summary)' /\ IsSeq(summary.relocs)' /\ RelrInv' /\ PairInv'
    BY <1>1, <1>7, <1>8, SummaryKept
  <1>10. /\ sec' \in 1 .. Len(Sections) /\ Sections' = Sections /\ Sections[sec'] = s
         /\ HasBody(s)' = HasBody(s)
    <2>1. Sections' = Sections /\ Len(Sections) \in Nat
      BY <1>1, <1>2, SameRegions, SectionFacts
    <2>2. QED
      BY <1>1, <1>2, <1>3, <2>1 DEF HasBody, InFile
  <1>11. \A type : IsBodyOf(sec, type)' <=> HasBody(s) /\ s.type = type
    BY <1>10 DEF IsBodyOf, HasBody, InFile
  <1>12. (loop'.n - 1) * loop'.entry = 0 \/ loop'.kind \notin EntryTypes
    <2>1. CASE loop'.kind \in EntryTypes
      <3>1. s.type \in EntryTypes /\ IsBodyOf(sec', s.type) /\ sec' \in 1 .. Len(Sections)
        BY <1>1, <1>5, <1>10, <2>1 DEF IsBodyOf
      <3>2. loop'.entry \in Nat
        BY <1>2, <1>5, <1>10, <2>1, <3>1, SizeOfFacts
      <3>3. \A e \in Nat : (1 - 1) * e = 0
        OBVIOUS
      <3>4. QED
        BY <1>5, <3>2, <3>3
    <2>2. QED
      BY <2>1
  <1>13. LoopReads'
    BY <1>5, <1>6, <1>10, <1>11, <1>12 DEF LoopReads
  <1>14. RelrCursorInv'
    <2>1. CASE loop'.kind = "RELR"
      <3>1. BasesBefore(s, 1) = {} /\ RelrStart(s, 1) = (1 - 1) * (RelrBits * WordBytes)
        <4>1. 1 .. 1 - 1 = {}
          OBVIOUS
        <4>2. BasesBefore(s, 1) = {}
          BY <4>1 DEF BasesBefore
        <4>3. QED
          BY <4>2 DEF RelrStart, BasesBefore
      <3>2. \A w \in Nat : (1 - 1) * w = 0
        OBVIOUS
      <3>3. RelrStart(s, 1) = 0
        BY <3>1, <3>2, SizesAssumption, Products
      <3>4. Capped(0) = 0
        BY SizeFacts DEF Capped
      <3>5. QED
        BY <1>5, <1>10, <2>1, <3>3, <3>4 DEF RelrCursorInv, EntryTypes
    <2>2. QED
      BY <2>1 DEF RelrCursorInv
  <1>15. QED
    BY <1>9, <1>13, <1>14 DEF SummaryInv

\* A turn reads the entry at hand.
LEMMA SummaryTurn ==
    ASSUME SummaryInv, PlanInv, StepInv, NextEntry
    PROVE  SummaryInv'
  <1>1. /\ step # "stopped" /\ More
        /\ UNCHANGED <<elf, step, sec>>
        /\ summary' = WithEntry(summary)
        /\ loop'.kind = loop.kind /\ loop'.size = loop.size /\ loop'.entry = loop.entry
        /\ loop'.off = loop.off + EntryLen /\ loop'.n = loop.n + 1
        /\ loop.kind = "RELR" =>
              loop'.cursor = NextCursor(loop.cursor, Entry(Sections[sec], loop.n, 0))
    BY DEF NextEntry
  <1>2. loop.n \in Nat \ {0} /\ sec \in Nat /\ elf \in Elfs /\ LoopReads
    BY <1>1 DEF PlanInv, LoopInv, More, StepInv, SummaryInv
  <1>3. Sections' = Sections /\ \A j, type : IsBodyOf(j, type)' <=> IsBodyOf(j, type)
    BY <1>1, SameBodies
  <1>4. PICK s : s = Sections[sec]
    OBVIOUS
  <1>5. PICK n \in Nat \ {0} : n = loop.n
    BY <1>2
  <1>6. \A type \in EntryTypes :
           Read(type)' = IF loop.kind = type THEN Read(type) \cup {<<sec, n>>} ELSE Read(type)
    BY <1>1, <1>2, <1>5, ReadTurn
  \* The loop.
  <1>7. LoopReads'
    <2>1. loop.kind \in EntryTypes => loop'.off = (loop'.n - 1) * loop'.entry
      <3> SUFFICES ASSUME loop.kind \in EntryTypes
                   PROVE  loop'.off = (loop'.n - 1) * loop'.entry
        OBVIOUS
      <3>1. PICK e \in Nat, q \in Nat : e = loop.entry /\ q = n - 1
        BY <1>1, <1>5 DEF PlanInv, LoopInv, More
      <3>2. loop.off = q * e /\ EntryLen = e
        <4>1. sec > 0 /\ IsBodyOf(sec, loop.kind)
          BY <1>2 DEF LoopReads
        <4>2. loop.off = (loop.n - 1) * loop.entry
          BY <1>2, <4>1 DEF LoopReads
        <4>3. EntryLen = loop.entry
          BY DEF EntryLen, EntryTypes
        <4>4. QED
          BY <1>5, <3>1, <4>2, <4>3
      <3>3. loop'.off = q * e + e /\ loop'.n - 1 = q + 1
        BY <1>1, <1>5, <3>1, <3>2
      <3>4. q * e + e = (q + 1) * e
        OBVIOUS
      <3>5. QED
        BY <1>1, <3>1, <3>3, <3>4
    <2>2. QED
      BY <1>1, <1>2, <1>3, <2>1 DEF LoopReads
  \* RELR.
  <1>8. loop.kind = "RELR" => /\ s.entries \in Seq(U64)
                              /\ loop.cursor = Capped(RelrStart(s, n))
    <2> SUFFICES ASSUME loop.kind = "RELR"
                 PROVE  s.entries \in Seq(U64) /\ loop.cursor = Capped(RelrStart(s, n))
      OBVIOUS
    <2>1. sec \in 1 .. Len(Sections) /\ s.type = "RELR"
      BY <1>2, <1>4 DEF LoopReads, IsBodyOf, EntryTypes
    <2>2. TableRead
      <3>1. sec # 0
        BY <2>1
      <3>2. step \notin {"ident", "shdrs"}
        BY <3>1 DEF StepInv
      <3>3. QED
        BY <1>1, <3>2 DEF StepInv, Steps
    <2>3. s.entries \in Seq(U64)
      BY <1>2, <1>4, <2>1, <2>2, SectionFacts
    <2>4. QED
      BY <1>4, <1>5, <2>3 DEF SummaryInv, RelrCursorInv
  <1>9. RelrCursorInv'
    <2>1. CASE loop.kind = "RELR"
      <3>1. PICK word \in Nat : word = Entry(s, n, 0)
        BY <1>8, <2>1, EntryFacts
      <3>2. PICK start \in Nat : start = RelrStart(s, n)
        BY <1>8, <2>1, StartFacts
      <3>3. PICK w \in Nat : w = RelrBits * WordBytes
        BY SizesAssumption, Products
      <3>4. loop'.cursor = IF IsBase(word) THEN SatAdd(word, WordBytes) ELSE SatAdd(Capped(start), w)
        BY <1>1, <1>4, <1>5, <1>8, <2>1, <3>1, <3>2, <3>3 DEF NextCursor
      <3>5. RelrStart(s, n + 1) = IF IsBase(word) THEN word + WordBytes ELSE start + w
        BY <1>8, <2>1, <3>1, <3>2, <3>3, StartFacts
      <3>6. SatAdd(word, WordBytes) = Capped(word + WordBytes)
            /\ SatAdd(Capped(start), w) = Capped(start + w)
        BY SizesAssumption, CappedFacts
      <3>7. loop'.cursor = Capped(RelrStart(s, n + 1))
        BY <3>4, <3>5, <3>6
      <3>8. QED
        BY <1>1, <1>3, <1>4, <1>5, <3>7 DEF RelrCursorInv
    <2>2. CASE loop.kind # "RELR"
      BY <1>1, <2>2 DEF RelrCursorInv
    <2>3. QED
      BY <2>1, <2>2
  \* The summary.
  <1>10. PICK m, k : m = summary /\ k = summary'
    OBVIOUS
  <1>11. /\ HasFields(k)
         /\ k.relocs = IF loop.kind \in {"RELA", "REL"} THEN Append(m.relocs, RelocOf(s, n))
                       ELSE IF loop.kind = "RELR" THEN m.relocs \o RelrRelocs(s, n, loop.cursor)
                       ELSE m.relocs
         /\ k.initArray = IF loop.kind = "DYNAMIC"
                          THEN ReadDynamic(m, s, Entry(s, n, NoEntry)).initArray
                          ELSE m.initArray
    <2>1. HasFields(m) /\ k = WithEntry(m)
      BY <1>1, <1>10 DEF SummaryInv
    <2>2. QED
      BY <1>4, <1>5, <2>1, TurnSummary
  <1>12. PICK S : m.relocs \in Seq(S)
    BY <1>10 DEF SummaryInv, IsSeq
  <1>13. IsSeq(k.relocs) /\ RelrSet(k.relocs) =
            IF loop.kind = "RELR" THEN RelrSet(m.relocs) \cup RelrExpected(s, n)
            ELSE RelrSet(m.relocs)
    <2>1. CASE loop.kind \in {"RELA", "REL"}
      <3>1. PICK r : r = RelocOf(s, n)
        OBVIOUS
      <3>2. r.table # "Relr"
        BY <3>1 DEF RelocOf, Reloc
      <3>3. k.relocs = Append(m.relocs, r)
        BY <1>11, <2>1, <3>1
      <3>4. RelrSet(Append(m.relocs, r)) = RelrSet(m.relocs)
        BY <1>12, <3>2, RelrSetSkips
      <3>5. Append(m.relocs, r) \in Seq(S \cup {r})
        BY <1>12
      <3>6. QED
        BY <2>1, <3>3, <3>4, <3>5 DEF IsSeq
    <2>2. CASE loop.kind = "RELR"
      <3>1. PICK t : t = RelrRelocs(s, n, loop.cursor)
        OBVIOUS
      <3>2. (\E T : t \in Seq(T)) /\ RelrSet(t) = RelrExpected(s, n)
        BY <1>8, <2>2, <3>1, RelrUnpacks
      <3>3. PICK T : t \in Seq(T)
        BY <3>2
      <3>4. RelrSet(m.relocs \o t) = RelrSet(m.relocs) \cup RelrSet(t)
        BY <1>12, <3>3, RelrSetJoins
      <3>5. m.relocs \o t \in Seq(S \cup T)
        BY <1>12, <3>3
      <3>6. k.relocs = m.relocs \o t
        BY <1>11, <2>2, <3>1
      <3>7. QED
        BY <2>2, <3>2, <3>4, <3>5, <3>6 DEF IsSeq
    <2>3. CASE loop.kind \notin {"RELA", "REL", "RELR"}
      BY <1>11, <1>12, <2>3 DEF IsSeq
    <2>4. QED
      BY <2>1, <2>2, <2>3
  <1>14. RelrInv'
    <2>1. RelrSet(m.relocs) = UNION {RelrExpected(Sections[p[1]], p[2]) : p \in Read("RELR")}
      BY <1>10 DEF SummaryInv, RelrInv
    <2>2. Read("RELR")' = IF loop.kind = "RELR" THEN Read("RELR") \cup {<<sec, n>>} ELSE Read("RELR")
      BY <1>6 DEF EntryTypes
    <2>3. RelrSet(k.relocs) =
             UNION {RelrExpected(Sections[p[1]], p[2]) : p \in Read("RELR")'}
      <3>1. CASE loop.kind = "RELR"
        <4> DEFINE X(p) == RelrExpected(Sections[p[1]], p[2])
        <4>1. X(<<sec, n>>) = RelrExpected(Sections[sec], n)
          OBVIOUS
        <4> HIDE DEF X
        <4>2. \A R, p : UNION {X(q) : q \in R \cup {p}} = (UNION {X(q) : q \in R}) \cup X(p)
          OBVIOUS
        <4>3. UNION {X(p) : p \in Read("RELR") \cup {<<sec, n>>}} =
                 (UNION {X(p) : p \in Read("RELR")}) \cup RelrExpected(Sections[sec], n)
          BY <4>1, <4>2
        <4> USE DEF X
        <4>4. QED
          BY <1>4, <1>13, <2>1, <2>2, <3>1, <4>3
      <3>2. CASE loop.kind # "RELR"
        BY <1>13, <2>1, <2>2, <3>2
      <3>3. QED
        BY <3>1, <3>2
    <2>4. QED
      BY <1>3, <1>10, <2>3 DEF RelrInv
  <1>15. PairInv'
    <2>1. m.initArray = Paired(Tagged(Read("DYNAMIC"), "INIT_ARRAY"),
                               Tagged(Read("DYNAMIC"), "INIT_ARRAYSZ"))
      BY <1>10 DEF SummaryInv, PairInv
    <2>2. PICK R, Q : R = Read("DYNAMIC") /\ Q = Read("DYNAMIC")'
      OBVIOUS
    <2>3. Q = IF loop.kind = "DYNAMIC" THEN R \cup {<<sec, n>>} ELSE R
      BY <1>6, <2>2 DEF EntryTypes
    <2>4. k.initArray = Paired(Tagged(Q, "INIT_ARRAY"), Tagged(Q, "INIT_ARRAYSZ"))
      <3>1. CASE loop.kind = "DYNAMIC"
        <4>1. PICK p, e : p = <<sec, n>> /\ e = Dynamic(p)
          OBVIOUS
        <4>2. e = Entry(s, n, NoEntry)
          BY <1>4, <4>1 DEF Dynamic
        <4>3. R \in SUBSET (Nat \X Nat) /\ p \in Nat \X Nat /\ \A q \in R : NotAfter(q, p)
          BY <1>2, <1>5, <2>2, <4>1, ReadBefore
        <4>4. PICK old : old = m.initArray
          OBVIOUS
        <4>5. old = PairOf(R)
          BY <2>1, <2>2, <4>4 DEF PairOf
        <4>6. PairOf(R \cup {p}) =
                 IF e.tag = "INIT_ARRAY" THEN {<<e.val, SizeIn(old)>>}
                 ELSE IF e.tag = "INIT_ARRAYSZ" THEN {<<AddressIn(old), e.val>>}
                 ELSE old
          <5>1. PairOf(R \cup {p}) =
                   IF Dynamic(p).tag = "INIT_ARRAY" THEN {<<Dynamic(p).val, SizeIn(PairOf(R))>>}
                   ELSE IF Dynamic(p).tag = "INIT_ARRAYSZ" THEN {<<AddressIn(PairOf(R)), Dynamic(p).val>>}
                   ELSE PairOf(R)
            BY <4>3, PairedGrows
          <5>2. QED
            BY <4>1, <4>5, <5>1
        <4>7. HasFields(m)
          BY <1>10 DEF SummaryInv
        <4>8. ReadDynamic(m, s, e).initArray =
                 IF e.tag = "INIT_ARRAY" THEN {<<e.val, SizeIn(old)>>}
                 ELSE IF e.tag = "INIT_ARRAYSZ" THEN {<<AddressIn(old), e.val>>}
                 ELSE old
          BY <4>4, <4>7, DynamicFacts, ZenonT(60)
        <4>9. k.initArray = ReadDynamic(m, s, e).initArray
          BY <1>11, <3>1, <4>2
        <4>10. QED
          BY <2>3, <3>1, <4>1, <4>6, <4>8, <4>9 DEF PairOf
      <3>2. CASE loop.kind # "DYNAMIC"
        BY <1>11, <2>1, <2>2, <2>3, <3>2
      <3>3. QED
        BY <3>1, <3>2
    <2>5. QED
      BY <1>1, <1>10, <2>2, <2>4, SamePairs DEF PairInv
  <1>16. QED
    BY <1>7, <1>9, <1>10, <1>11, <1>13, <1>14, <1>15 DEF SummaryInv

LEMMA SummaryNext == ParserInv /\ SummaryInv /\ [ParserNext]_allVars => SummaryInv'
  <1> SUFFICES ASSUME ParserInv, SummaryInv, [ParserNext]_allVars PROVE SummaryInv'
    OBVIOUS
  <1>1. PlanInv /\ StepInv
    BY DEF ParserInv
  <1>2. CASE Reject \/ PushClaim \/ FillUnclaimed \/ Finish \/ Scan \/ UNCHANGED allVars
    <2>1. UNCHANGED <<elf, loop, sec, summary>>
      BY <1>2 DEF Reject, Fail, PushClaim, FillUnclaimed, Finish, Scan, allVars, parserVars
    <2>2. QED
      BY <2>1, SummarySame
  <1>3. CASE ParseEhdr
    <2>1. /\ sec = 0 /\ UNCHANGED <<elf, sec, summary>>
          /\ loop' = Loop("EHDR", NextId, 0, EHDR64_SIZE, 0)
      BY <1>1, <1>3 DEF ParseEhdr, Ready, StepInv
    <2>2. loop'.kind = "EHDR"
      BY <2>1, LoopFields
    <2>3. QED
      BY <2>1, <2>2, SummaryHeaders DEF EntryTypes
  <1>4. ASSUME NEW here \in {"shdrs", "phdrs"}, NEW next, NEW kind \in {"SHDR", "PHDR"},
               NEW off, NEW num, NEW size, ParseTable(here, next, kind, off, num, size)
        PROVE  SummaryInv'
    <2>1. sec = 0 /\ UNCHANGED <<elf, sec, summary>>
      BY <1>1, <1>4 DEF ParseTable, Fail, Ready, StepInv
    <2>2. \/ UNCHANGED loop \/ loop' = NoLoop
          \/ loop' = Loop(kind, NextId, off, SatMul(num, size), size)
      BY <1>4 DEF ParseTable, Fail
    <2>3. CASE UNCHANGED loop
      BY <2>1, <2>3, SummarySame
    <2>4. CASE loop' = NoLoop
      BY <2>1, <2>4, SummaryHeaders DEF NoLoop, EntryTypes
    <2>5. CASE loop' = Loop(kind, NextId, off, SatMul(num, size), size)
      <3>1. loop'.kind = kind
        BY <2>5, LoopFields
      <3>2. QED
        BY <2>1, <3>1, SummaryHeaders DEF EntryTypes
    <2>6. QED
      BY <2>2, <2>3, <2>4, <2>5
  <1>5. CASE ParseShdrs \/ ParsePhdrs
    BY <1>4, <1>5 DEF ParseShdrs, ParsePhdrs
  <1>6. CASE ParseBody
    BY <1>1, <1>6, SummaryBody
  <1>7. CASE NextEntry
    BY <1>1, <1>7, SummaryTurn
  <1>8. QED
    BY <1>2, <1>3, <1>5, <1>6, <1>7 DEF ParserNext

LEMMA SummaryInvAlways == ParserSpec => [](ParserInv /\ SummaryInv)
  BY SummaryInit, SummaryNext, ParserInvAlways, PTL DEF ParserSpec

\* When parse has returned, every entry has been read.
LEMMA DoneIsRead ==
    ASSUME ParserInv, SummaryInv, stage = "done", NEW type \in EntryTypes
    PROVE  Read(type) = EntriesOf(type)
  <1>1. PlanInv /\ StepInv
    BY DEF ParserInv
  <1>2. step = "finished"
    BY <1>1 DEF StepInv, Steps, FillStages
  <1>3. elf \in Elfs /\ TableRead /\ LoopInv /\ LoopReads /\ ~More /\ sec = Len(Sections)
    BY <1>1, <1>2 DEF StepInv, PlanInv, SummaryInv
  <1>4. QED
    BY <1>3, AllRead

-----------------------------------------------------------------------------
(* The theorems.                                                           *)

\* In the end the summary has every relocation that RELR words pack, each at the
\* address the format defines for it, and no other from that table.
THEOREM RelrWordsAreUnpacked == ParserSpec => []RelrIsUnpacked
  <1>1. ParserInv /\ SummaryInv => RelrIsUnpacked
    <2> SUFFICES ASSUME ParserInv, SummaryInv, stage = "done"
                 PROVE  RelrSet(summary.relocs) =
                           UNION {RelrExpected(Sections[p[1]], p[2]) : p \in EntriesOf("RELR")}
      BY DEF RelrIsUnpacked, RelrSet
    <2>1. Read("RELR") = EntriesOf("RELR")
      BY DoneIsRead DEF EntryTypes
    <2>2. QED
      BY <2>1 DEF SummaryInv, RelrInv
  <1>2. QED
    BY <1>1, SummaryInvAlways, PTL

\* In the end the init array has the address and the size that the dynamic entries
\* give last, in whichever order those come, those behind the DT_NULL of their table
\* included: what the notes call padding is read like the rest.
PaddingIsRead == stage = "done" => summary.initArray = PairOf(EntriesOf("DYNAMIC"))

THEOREM LastInitArrayCounts == ParserSpec => []PaddingIsRead
  <1>1. ParserInv /\ SummaryInv => PaddingIsRead
    <2> SUFFICES ASSUME ParserInv, SummaryInv, stage = "done"
                 PROVE  summary.initArray = PairOf(EntriesOf("DYNAMIC"))
      BY DEF PaddingIsRead
    <2>1. Read("DYNAMIC") = EntriesOf("DYNAMIC")
      BY DoneIsRead DEF EntryTypes
    <2>2. QED
      BY <2>1 DEF SummaryInv, PairInv, PairOf
  <1>2. QED
    BY <1>1, SummaryInvAlways, PTL

\* Where no such entry stands in the padding, the pair is that of the tables.
THEOREM InitArraysArePaired == ParserSpec => []InitArrayIsPaired
  <1>1. PaddingIsRead => InitArrayIsPaired
    BY DEF PaddingIsRead, PairOf, InitArrayIsPaired
  <1>2. QED
    BY <1>1, LastInitArrayCounts, PTL

-----------------------------------------------------------------------------
(* The length of the file.                                                *)

\* A sum over one file is what it is of this file.
LEMMA SumOverOne ==
    ASSUME NEW v, v[F] \in Nat
    PROVE  (\E g : IsSum(g, v, {F})) /\ \A g : IsSum(g, v, {F}) => g[{F}] = v[F]
  <1> DEFINE h == [s \in SUBSET {F} |-> IF s = {} THEN 0 ELSE v[F]]
  <1>1. AnyOf({F}) = F /\ {F} \ {F} = {}
    BY DEF AnyOf
  <1>2. \A s \in SUBSET {F} : h[s] = Summing(v, h, s)
    <2> SUFFICES ASSUME NEW s \in SUBSET {F} PROVE h[s] = Summing(v, h, s)
      OBVIOUS
    <2>1. s = {} \/ s = {F}
      OBVIOUS
    <2>2. QED
      BY <1>1, <2>1 DEF Summing
  <1>3. h = [s \in SUBSET {F} |-> Summing(v, h, s)]
    BY <1>2
  <1>4. ASSUME NEW g, IsSum(g, v, {F}) PROVE g[{F}] = v[F]
    <2>1. g[{}] = 0 /\ g[{F}] = Summing(v, g, {F})
      BY <1>4 DEF IsSum, Summing
    <2>2. QED
      BY <1>1, <2>1 DEF Summing
  <1>5. \E g : IsSum(g, v, {F})
    BY <1>3 DEF IsSum
  <1>6. QED
    BY <1>4, <1>5

\* The length of a parsed file is what the statistics call the total.
LEMMA OneFile ==
    ASSUME Declared = {F}, files[F] \in Nat
    PROVE  Stats.total = files[F]
  <1> DEFINE v == [f \in {F} |-> files[f]]
             next(g, s) == IF s = {} THEN 0
                           ELSE files[CHOOSE y \in s : TRUE] + g[s \ {CHOOSE y \in s : TRUE}]
             iter == CHOOSE g : g = [s \in SUBSET {F} |-> next(g, s)]
  <1>1. FX!MapThenSumSet(LAMBDA f : files[f], {F}) = iter[{F}]
    BY Zenon DEF FX!MapThenSumSet, FX!MapThenFoldSet
  <1>2. \A g : [s \in SUBSET {F} |-> next(g, s)] = [s \in SUBSET {F} |-> Summing(v, g, s)]
    BY DEF Summing, AnyOf
  <1>3. v[F] = files[F]
    OBVIOUS
  <1> HIDE DEF v, next
  <1>4. (\E g : IsSum(g, v, {F})) /\ \A g : IsSum(g, v, {F}) => g[{F}] = files[F]
    BY <1>3, SumOverOne
  <1>5. iter = [s \in SUBSET {F} |-> next(iter, s)]
    BY <1>2, <1>4 DEF IsSum
  <1> HIDE DEF iter
  <1>6. iter[{F}] = files[F]
    BY <1>2, <1>4, <1>5 DEF IsSum
  <1>7. QED
    BY <1>1, <1>6, Zenon DEF Stats

-----------------------------------------------------------------------------
(* What lies behind filler.                                                *)

IsFiller(i) == claims[i].kind = "Unclaimed"

\* A run of bytes is as long as it says, and it ends with the file or has a
\* structure behind it.
WholeRun(s) ==
    /\ s.start + s.len = SpanEnd(s)
    /\ SpanEnd(s) = files[F] \/ \E j \in Ids : ~IsFiller(j) /\ SpanEnd(s) <= claims[j].start

\* There is one file to fill: its scan meets structures only.
OneScan ==
    /\ pending \subseteq {F}
    /\ stage \in {"fillScan", "fillPush"} => pending = {} /\ file = F
    /\ stage = "fillScan" \/ (stage = "fillFile" /\ pending # {}) => \A i \in Ids : ~IsFiller(i)

TailInv ==
    /\ step = "finish" => OneScan
    /\ step = "finish" /\ stage \in {"fillScan", "fillPush"} =>
          \A k \in DOMAIN holes : WholeRun(holes[k])
    /\ \A i \in Ids : IsFiller(i) => WholeRun(claims[i])

\* While parse claims what the file sets out, there is no filler.
LEMMA NoFillerYet ==
    ASSUME claims \in Seq(Claim), queue \in Seq(Claim), AllStructures, NEW i \in Ids
    PROVE  ~IsFiller(i)
  <1>1. i \in Places /\ Planned[i] = claims[i]
    BY DEF Ids, Places, Planned
  <1>2. QED
    BY <1>1 DEF AllStructures, IsFiller

\* What is followed stays so, for claims are only added.
LEMMA WholeRunStays ==
    ASSUME UNCHANGED files, Ids \subseteq Ids', \A i \in Ids : claims'[i] = claims[i],
           NEW s, WholeRun(s)
    PROVE  WholeRun(s)'
  BY DEF WholeRun, IsFiller

\* A hole ends where the one who found it says.
LEMMA HoleEnds ==
    ASSUME NEW lo \in U64, NEW hi \in U64, lo <= hi
    PROVE  SpanEnd(Hole(lo, hi)) = hi /\ Hole(lo, hi).start + Hole(lo, hi).len = hi
  BY SizeFacts DEF SpanEnd, Hole, SatAdd, U64

\* The scan adds holes that reach a structure or the end of the file.
LEMMA TailScan ==
    ASSUME TypeOK, StepInv, FillInv, TailInv, FillNext, step = "finish", step' = step
    PROVE  TailInv'
  <1>1. /\ OneScan /\ (\A i \in Ids : IsFiller(i) => WholeRun(claims[i]))
        /\ (stage \in {"fillScan", "fillPush"} => \A k \in DOMAIN holes : WholeRun(holes[k]))
        /\ files[F] = elf.len /\ Declared = {F}
    BY DEF TailInv, StepInv
  <1>2. CASE FillFile \/ FillNextFile \/ FillReturn
    <2>1. UNCHANGED <<claims, files>>
      BY <1>2 DEF FillFile, EnterFile, FillNextFile, FillReturn, builderVars
    <2>2. Ids' = Ids /\ \A i \in Ids : IsFiller(i)' = IsFiller(i) /\ WholeRun(claims[i])' = WholeRun(claims[i])
      BY <2>1 DEF Ids, IsFiller, WholeRun
    <2>3. OneScan' /\ (stage' \in {"fillScan", "fillPush"} => holes' = <<>>)
      <3>1. CASE FillFile
        <4>1. /\ stage = "fillFile" /\ stage' = "fillScan" /\ holes' = <<>>
              /\ \E f \in pending : file' = f /\ pending' = pending \ {f}
          BY <3>1 DEF FillFile, EnterFile
        <4>2. QED
          BY <1>1, <2>2, <4>1 DEF OneScan
      <3>2. CASE FillNextFile
        BY <1>1, <3>2 DEF FillNextFile, scanVars, OneScan
      <3>3. CASE FillReturn
        BY <1>1, <3>3 DEF FillReturn, OneScan
      <3>4. QED
        BY <1>2, <3>1, <3>2, <3>3
    <2>4. QED
      BY <1>1, <2>2, <2>3 DEF TailInv
  <1>3. CASE FillLeaf \/ FillTail
    <2>1. /\ stage = "fillScan" /\ stage' \in {"fillScan", "fillPush"}
          /\ UNCHANGED <<claims, children, files, file, pending>>
      BY <1>3 DEF FillLeaf, FillTail, builderVars
    <2>2. Ids' = Ids /\ (\A i \in Ids : IsFiller(i)' = IsFiller(i)) /\ \A s : WholeRun(s)' = WholeRun(s)
      BY <2>1 DEF Ids, IsFiller, WholeRun
    <2>3. OneScan'
      BY <1>1, <2>1, <2>2 DEF OneScan
    <2>4. /\ cursor \in U64 /\ files[F] \in U64 /\ holes \in Seq(HoleSpan) /\ file = F
          /\ todo \subseteq Leaves(F)
      BY <1>1, <2>1, PrimaryIsFile DEF TypeOK, OneScan, FillInv, CursorInv, Declared
    <2>5. \/ holes' = holes
          \/ \E hi \in U64 : cursor < hi /\ WholeRun(Hole(cursor, hi)) /\ holes' = Append(holes, Hole(cursor, hi))
      <3>1. CASE FillLeaf
        <4>1. PICK i \in todo : \/ holes' = holes
                                \/ claims[i].start > cursor
                                   /\ holes' = Append(holes, Hole(cursor, claims[i].start))
          BY <3>1 DEF FillLeaf
        <4>2. i \in Ids /\ claims[i].start \in U64
          BY <2>4, ClaimFacts DEF Leaves
        <4>3. ~IsFiller(i)
          BY <1>1, <2>1, <4>2 DEF OneScan
        <4>4. claims[i].start > cursor =>
                 LET h == Hole(cursor, claims[i].start)
                 IN  SpanEnd(h) = claims[i].start /\ h.start + h.len = SpanEnd(h)
          BY <2>4, <4>2, HoleEnds, SizeFacts DEF U64
        <4>5. claims[i].start > cursor => WholeRun(Hole(cursor, claims[i].start))
          BY <4>2, <4>3, <4>4, SizeFacts DEF WholeRun, U64
        <4>6. QED
          BY <4>1, <4>2, <4>5
      <3>2. CASE FillTail
        <4>1. holes' = holes \/ (cursor < files[F] /\ holes' = Append(holes, Hole(cursor, files[F])))
          BY <2>4, <3>2 DEF FillTail
        <4>2. cursor < files[F] =>
                 LET h == Hole(cursor, files[F])
                 IN  SpanEnd(h) = files[F] /\ h.start + h.len = SpanEnd(h)
          BY <2>4, HoleEnds, SizeFacts DEF U64
        <4>3. QED
          BY <2>4, <4>1, <4>2 DEF WholeRun
      <3>3. QED
        BY <1>3, <3>1, <3>2
    <2>6. \A k \in DOMAIN holes' : WholeRun(holes'[k])
      <3>1. \A k \in DOMAIN holes : WholeRun(holes[k])
        BY <1>1, <2>1
      <3>2. CASE holes' = holes
        BY <3>1, <3>2
      <3>3. ASSUME NEW h, WholeRun(h), holes' = Append(holes, h)
            PROVE  \A k \in DOMAIN holes' : WholeRun(holes'[k])
        BY <2>4, <3>1, <3>3
      <3>4. QED
        BY <2>5, <3>2, <3>3
    <2>7. QED
      BY <1>1, <2>1, <2>2, <2>3, <2>6 DEF TailInv
  <1>4. CASE FillHole
    <2>1. /\ stage = "fillPush" /\ stage' = "fillPush" /\ holes # <<>> /\ holes' = Tail(holes)
          /\ UNCHANGED <<files, pending, file>>
      BY <1>4 DEF FillHole
    <2>2. PICK h \in HoleSpan :
            /\ h = holes[1] /\ (\A i \in Ids : claims'[i] = claims[i]) /\ Ids \subseteq Ids'
            /\ \A i \in Ids' \ Ids : claims'[i] = HoleClaim(h)
      BY <1>4, FillHoleFacts
    <2>3. holes \in Seq(HoleSpan) /\ \A k \in DOMAIN holes : WholeRun(holes[k])
      BY <1>1, <2>1 DEF TypeOK
    <2>4. \A s : WholeRun(s) => WholeRun(s)'
      BY <2>1, <2>2, WholeRunStays
    <2>5. WholeRun(HoleClaim(h))
      <3>1. /\ WholeRun(h) /\ SpanEnd(HoleClaim(h)) = SpanEnd(h)
            /\ HoleClaim(h).start = h.start /\ HoleClaim(h).len = h.len
        BY <2>1, <2>2, <2>3, HoleClaimFacts
      <3>2. QED
        BY <3>1 DEF WholeRun
    <2>6. PICK c : c = HoleClaim(h)
      OBVIOUS
    <2>7. \A i \in Ids' : IsFiller(i)' => WholeRun(claims[i])'
      <3>1. ASSUME NEW i \in Ids, IsFiller(i)' PROVE WholeRun(claims[i])'
        <4>1. WholeRun(claims[i]) /\ claims'[i] = claims[i]
          BY <1>1, <2>2, <3>1 DEF IsFiller
        <4>2. PICK s : s = claims[i]
          OBVIOUS
        <4>3. WholeRun(s)'
          BY <2>4, <4>1, <4>2
        <4>4. QED
          BY <4>1, <4>2, <4>3
      <3>2. ASSUME NEW i \in Ids' \ Ids PROVE WholeRun(claims[i])'
        <4>1. WholeRun(c)' /\ claims'[i] = c
          BY <2>2, <2>4, <2>5, <2>6, <3>2
        <4>2. QED
          BY <4>1
      <3>3. QED
        BY <3>1, <3>2
    <2>8. \A k \in DOMAIN holes' : WholeRun(holes[k])'
      <3> SUFFICES ASSUME NEW k \in DOMAIN holes' PROVE WholeRun(holes[k])'
        OBVIOUS
      <3>1. k + 1 \in DOMAIN holes /\ holes'[k] = holes[k + 1]
        BY <2>1, <2>3
      <3>2. PICK s : s = holes[k + 1]
        OBVIOUS
      <3>3. WholeRun(s)'
        BY <2>3, <2>4, <3>1, <3>2
      <3>4. QED
        BY <3>1, <3>2, <3>3
    <2>9. OneScan'
      BY <1>1, <2>1 DEF OneScan
    <2>10. QED
      BY <2>7, <2>8, <2>9 DEF TailInv
  <1>5. QED
    BY <1>2, <1>3, <1>4 DEF FillNext

\* Every step of parse keeps what lies behind filler.
LEMMA TailNext ==
    ASSUME ParserInv, TailInv, [ParserNext]_allVars
    PROVE  TailInv'
  <1>1. BuilderInv /\ PlanInv /\ StepInv /\ TypeOK /\ FillInv
    BY DEF ParserInv, BuilderInv
  <1>2. PlanInv' /\ StepInv' /\ [AnyStep]_vars
    BY <1>1, PlanNext, StepsAreAnySteps
  <1>3. TypeOK'
    BY <1>1, <1>2, TypeNext
  <1>4. CASE step' \notin {"finish", "finished"}
    <2>1. AllStructures' /\ queue' \in Seq(Claim) /\ claims' \in Seq(Claim)
      BY <1>2, <1>3, <1>4 DEF StepInv, PlanInv, TypeOK
    <2>2. \A i \in Ids' : i \in Places' /\ Planned'[i] = claims'[i]
      BY <2>1 DEF Ids, Places, Planned
    <2>3. \A i \in Ids' : claims'[i].kind = "Structure"
      BY <2>1, <2>2 DEF AllStructures
    <2>4. QED
      BY <1>4, <2>3 DEF TailInv, IsFiller
  <1>5. CASE FillUnclaimed
    <2>1. /\ step = "bodies" /\ step' = "finish" /\ stage' = "fillFile"
          /\ pending' = Declared /\ UNCHANGED <<claims, files>>
      BY <1>5 DEF FillUnclaimed, Ready, FillStart, StartScan, builderVars
    <2>2. Declared = {F} /\ AllStructures /\ claims \in Seq(Claim) /\ queue \in Seq(Claim)
      BY <1>1, <2>1 DEF StepInv, PlanInv, TypeOK
    <2>3. Ids' = Ids /\ \A i \in Ids : ~IsFiller(i) /\ ~IsFiller(i)'
      BY <2>1, <2>2, NoFillerYet DEF Ids, IsFiller
    <2>4. QED
      BY <2>1, <2>2, <2>3 DEF TailInv, OneScan
  <1>6. CASE Finish \/ UNCHANGED allVars \/ (FinishNext /\ Scan)
    <2>1. UNCHANGED <<claims, files>>
      BY <1>1, <1>6, ScanStages
      DEF Finish, FinishStart, StartScan, builderVars, allVars, vars, FinishNext, FinishFile, EnterFile,
          FinishOverlap, FinishGap, FinishLeaf, FinishTailGap, FinishNextFile, FinishAccept, Return
    <2>2. Ids' = Ids /\ \A i \in Ids : IsFiller(i)' = IsFiller(i) /\ WholeRun(claims[i])' = WholeRun(claims[i])
      BY <2>1 DEF Ids, IsFiller, WholeRun
    <2>3. CASE UNCHANGED allVars
      <3>1. UNCHANGED <<step, stage, pending, file, holes>>
        BY <2>3 DEF allVars, vars, parserVars, scanVars
      <3>2. (OneScan' <=> OneScan) /\ \A k \in DOMAIN holes : WholeRun(holes[k])' = WholeRun(holes[k])
        BY <2>1, <2>2, <3>1 DEF OneScan, WholeRun, IsFiller, Ids
      <3>3. QED
        BY <2>1, <2>2, <3>1, <3>2 DEF TailInv
    <2>4. CASE Finish
      BY <2>1, <2>2, <2>4 DEF Finish, TailInv
    <2>5. CASE FinishNext /\ Scan
      <3>1. stage \in FinishStages
        BY <2>5 DEF FinishNext, FinishFile, EnterFile, FinishOverlap, FinishGap, FinishLeaf,
                    FinishTailGap, FinishNextFile, FinishAccept, FinishStages
      <3>2. step = "finished" /\ step' = step
        BY <1>1, <2>5, <3>1 DEF StepInv, Steps, FillStages, FinishStages, Scan, parserVars
      <3>3. QED
        BY <2>1, <2>2, <3>2 DEF TailInv
    <2>6. QED
      BY <1>6, <2>3, <2>4, <2>5
  <1>7. CASE FillNext /\ Scan
    <2>1. stage \in FillStages
      BY <1>7 DEF FillNext, FillFile, EnterFile, FillLeaf, FillTail, FillHole, FillNextFile,
                  FillReturn, FillStages
    <2>2. step = "finish" /\ step' = step
      BY <1>1, <1>7, <2>1 DEF StepInv, Steps, FillStages, FinishStages, Scan, parserVars
    <2>3. QED
      BY <1>1, <1>7, <2>2, TailScan
  <1>8. CASE Reject \/ ParseEhdr \/ ParseShdrs \/ ParsePhdrs \/ ParseBody \/ NextEntry \/ PushClaim
    <2>1. step' \notin {"finish", "finished"}
      <3>1. CASE Reject \/ ParseEhdr \/ ParseShdrs \/ ParsePhdrs \/ ParseBody
        BY <3>1 DEF Reject, Fail, ParseEhdr, ParseShdrs, ParsePhdrs, ParseTable, ParseBody, Ready
      <3>2. CASE NextEntry
        <4>1. More /\ step' = step
          BY <3>2 DEF NextEntry
        <4>2. QED
          BY <1>1, <4>1 DEF StepInv
      <3>3. CASE PushClaim
        <4>1. queue # <<>> /\ (step' = step \/ step' = "stopped")
          BY <3>3 DEF PushClaim
        <4>2. QED
          BY <1>1, <4>1 DEF StepInv
      <3>4. QED
        BY <1>8, <3>1, <3>2, <3>3
    <2>2. QED
      BY <1>4, <2>1
  <1>9. QED
    BY <1>5, <1>6, <1>7, <1>8 DEF ParserNext, Scan

LEMMA TailAlways == ParserSpec => [](ParserInv /\ TailInv)
  <1>1. ParserInit => TailInv
    BY DEF ParserInit, Init, TailInv, Ids
  <1>2. ParserInv /\ TailInv /\ [ParserNext]_allVars => TailInv'
    BY TailNext
  <1>3. QED
    BY <1>1, <1>2, ParserInvAlways, PTL DEF ParserSpec

-----------------------------------------------------------------------------
(* Appended bytes.                                                         *)

\* Unless it starts with the file, a region has bytes.
LEMMA RegionHasBytes ==
    ASSUME elf \in Elfs, TableRead, NEW k \in Regions
    PROVE  /\ Region(k)[1] \in Nat /\ Region(k)[2] \in Nat
           /\ Region(k)[1] = 0 \/ Region(k)[2] > 0
  <1>1. ASSUME NEW off \in U64, NEW num \in U64, NEW size \in U64
        PROVE  LET r == TableExtent(off, num, size)
               IN  r[1] \in Nat /\ r[2] \in Nat /\ (r[1] = 0 \/ r[2] > 0)
    <2>1. off \in Nat /\ num \in Nat /\ size \in Nat /\ num * size \in Nat
      BY SizeFacts, Products
    <2>2. num # 0 /\ size # 0 => num * size > 0
      BY <2>1
    <2>3. QED
      BY <2>1, <2>2 DEF TableExtent, NoTable
  <1>2. /\ {elf.phoff, Phnum, elf.phentsize} \subseteq U64
        /\ {elf.shoff, Shnum, elf.shentsize} \subseteq U64
    BY CountFacts
  <1>3. CASE k \in {-2, -1}
    <2>1. k = -2 => Region(k) = TableExtent(elf.phoff, Phnum, elf.phentsize)
      BY DEF Region
    <2>2. k = -1 => Region(k) = TableExtent(elf.shoff, Shnum, elf.shentsize)
      BY DEF Region
    <2>3. QED
      BY <1>1, <1>2, <1>3, <2>1, <2>2
  <1>4. CASE k = 0
    BY <1>4, SizeFacts DEF Region
  <1>5. CASE k \notin {-2, -1, 0}
    <2>1. k \in 1 .. Len(Sections)
      BY <1>5, SectionFacts DEF Regions
    <2>2. Sections[k].offset \in Nat /\ Sections[k].size \in Nat
      BY <2>1, SectionFacts
    <2>3. Region(k) = IF HasBody(Sections[k]) THEN <<Sections[k].offset, Sections[k].size>> ELSE <<0, 0>>
      BY <1>5 DEF Region
    <2>4. HasBody(Sections[k]) => Sections[k].size > 0
      BY DEF HasBody
    <2>5. QED
      BY <2>2, <2>3, <2>4
  <1>6. QED
    BY <1>3, <1>4, <1>5

\* A region of the file that reaches past a byte describes a byte from there on.
LEMMA RegionDescribes ==
    ASSUME elf \in Elfs, TableRead, NEW k \in Regions, NEW t \in 0 .. elf.len - 1,
           t < Region(k)[1] + Region(k)[2], Region(k)[1] + Region(k)[2] <= elf.len
    PROVE  \E b \in 0 .. elf.len - 1 : t <= b /\ Describes(b)
  <1>1. elf.len \in Nat
    BY CountFacts, SizeFacts DEF U64
  <1>2. PICK lo, n : lo = Region(k)[1] /\ n = Region(k)[2]
    OBVIOUS
  <1>3. lo \in Nat /\ n \in Nat /\ (lo = 0 \/ n > 0)
    BY <1>2, RegionHasBytes
  <1>4. PICK b \in 0 .. elf.len - 1 : t <= b /\ lo <= b /\ b < lo + n
    <2>1. CASE lo <= t
      BY <1>1, <1>2, <1>3, <2>1
    <2>2. CASE t < lo
      BY <1>1, <1>2, <1>3, <2>2
    <2>3. QED
      BY <1>3, <2>1, <2>2
  <1>5. QED
    BY <1>2, <1>4 DEF Describes, InRegion

\* A leaf over bytes that nothing describes, and nothing behind them, is filler
\* that reaches the end of the file.
LEMMA TailIsOneHole ==
    ASSUME ParserInv, TailInv, step = "finished",
           NEW t \in 0 .. elf.len - 1, \A d \in 0 .. elf.len - 1 : Describes(d) => d < t,
           NEW i \in LeavesAt(F, t)
    PROVE  i \in Ids /\ IsLeaf(i) /\ IsFiller(i) /\ SpanEnd(claims[i]) = elf.len
  <1>1. /\ TypeOK /\ PlanInv /\ StepInv /\ elf \in Elfs /\ elf.len \in Nat
        /\ sec = Len(Sections) /\ TableRead
    BY CountFacts, SizeFacts DEF ParserInv, BuilderInv, StepInv, U64
  <1>2. /\ Places = Ids /\ Planned = claims /\ claims \in Seq(Claim) /\ queue \in Seq(Claim)
        /\ PlacedInv /\ RegionInv
    BY <1>1, ClaimsFit DEF PlanInv, TypeOK
  <1>3. i \in Leaves(F) /\ i \in Ids /\ claims[i].start <= t /\ t < SpanEnd(claims[i])
    BY DEF LeavesAt, Leaves, Contains
  <1>4. \A j \in Ids : ~IsFiller(j) => SpanEnd(claims[j]) <= t
    <2> SUFFICES ASSUME NEW j \in Ids, ~IsFiller(j), ~(SpanEnd(claims[j]) <= t) PROVE FALSE
      OBVIOUS
    <2>1. j \in Structures
      <3>1. claims[j] \in Claim
        BY <1>1, ClaimFacts
      <3>2. QED
        BY <1>2, <3>1 DEF Structures, Claim, Kinds, IsFiller
    <2>2. PICK y \in Bases : y = Base(j)
      BY <1>2, <2>1 DEF RegionInv
    <2>3. /\ SpanEnd(claims[j]) <= SpanEnd(claims[y]) /\ SpanEnd(claims[j]) \in Nat
          /\ SpanEnd(claims[y]) \in Nat
      BY <1>2, <2>1, <2>2, UpFacts DEF Bases, Structures
    <2>4. PICK k \in Reached : IsExtent(y, k)
      BY <1>2, <2>2 DEF RegionInv
    <2>5. k \in Regions
      BY <1>1, <2>4 DEF Reached, Regions
    <2>6. t < Region(k)[1] + Region(k)[2] /\ Region(k)[1] + Region(k)[2] <= elf.len
      <3>1. SpanEnd(claims[y]) = Region(k)[1] + Region(k)[2]
        BY <1>2, <2>4 DEF IsExtent
      <3>2. y \in Places /\ SpanEnd(claims[y]) <= elf.len
        BY <1>2, <2>2 DEF Bases, Structures, PlacedInv, Fits
      <3>3. t < SpanEnd(claims[y])
        BY <2>3
      <3>4. QED
        BY <3>1, <3>2, <3>3
    <2>7. PICK b \in 0 .. elf.len - 1 : t <= b /\ Describes(b)
      BY <1>1, <2>5, <2>6, RegionDescribes
    <2>8. QED
      BY <2>7
  <1>5. IsFiller(i)
    <2>1. ~(SpanEnd(claims[i]) <= t)
      <3>1. SpanEnd(claims[i]) \in Nat
        BY <1>1, <1>3, ClaimFacts, SizeFacts
      <3>2. QED
        BY <1>3, <3>1
    <2>2. QED
      BY <1>3, <1>4, <2>1
  <1>6. WholeRun(claims[i]) /\ files[F] = elf.len
    BY <1>1, <1>3, <1>5 DEF TailInv, StepInv
  <1>7. ~\E j \in Ids : ~IsFiller(j) /\ SpanEnd(claims[i]) <= claims[j].start
    <2> SUFFICES ASSUME NEW j \in Ids, ~IsFiller(j), SpanEnd(claims[i]) <= claims[j].start PROVE FALSE
      OBVIOUS
    <2>1. SpanEnd(claims[j]) <= t /\ claims[j].start <= SpanEnd(claims[j])
      BY <1>1, <1>4, ClaimFacts
    <2>2. {SpanEnd(claims[i]), claims[j].start, SpanEnd(claims[j])} \subseteq Nat
      BY <1>1, <1>3, ClaimFacts, SizeFacts
    <2>3. QED
      BY <1>3, <2>1, <2>2
  <1>8. QED
    BY <1>3, <1>5, <1>6, <1>7 DEF Leaves, WholeRun

\* Whatever is appended to a file past everything it describes is found, and found
\* as one run.
THEOREM AppendedBytesAreReported == ParserSpec => []AppendedIsReported
  <1>1. ParserInv /\ TailInv => AppendedIsReported
    <2> DEFINE described == {b \in 0 .. elf.len - 1 : Describes(b)}
               tail == {b \in 0 .. elf.len - 1 : \A d \in described : d < b}
    <2> SUFFICES ASSUME ParserInv, TailInv, result.kind = "Ok", Cardinality(tail) >= HoleLarge
                 PROVE  \E f \in FileFindings :
                           f.title = "appended" /\ \A b \in tail : Reported(f, b)
      BY DEF AppendedIsReported
    <2>1. /\ TypeOK /\ StepInv /\ elf \in Elfs /\ elf.len \in Nat /\ AcceptedIsPartition
          /\ stage = "done"
      BY CountFacts, SizeFacts DEF ParserInv, BuilderInv, FinishInv, StepInv, U64
    <2>2. step = "finished"
      BY <2>1 DEF StepInv, Steps, FillStages
    <2>3. files[F] = elf.len /\ Declared = {F}
      BY <2>1, <2>2 DEF StepInv
    <2>4. \A b \in 0 .. elf.len - 1 : \E i \in Ids : LeavesAt(F, b) = {i}
      BY <2>1, <2>3 DEF AcceptedIsPartition, ClaimedOnce, Leaves
    <2>5. \A t \in tail : \A i \in LeavesAt(F, t) :
             i \in Ids /\ IsLeaf(i) /\ IsFiller(i) /\ SpanEnd(claims[i]) = elf.len
      BY <2>2, TailIsOneHole
    <2>6. PICK t \in tail : TRUE
      <3>1. tail # {}
        <4>1. SUFFICES ASSUME tail = {} PROVE FALSE
          OBVIOUS
        <4>2. Cardinality(tail) = 0
          BY <4>1, FS_EmptySet
        <4>3. QED
          BY <4>2, HolesAssumption
      <3>2. QED
        BY <3>1
    <2>7. PICK i \in Ids : LeavesAt(F, t) = {i}
      BY <2>4
    <2>8. /\ IsLeaf(i) /\ IsFiller(i) /\ SpanEnd(claims[i]) = elf.len
          /\ claims[i].start \in Nat /\ claims[i].len \in Nat /\ claims[i].start <= t
      <3>1. i \in LeavesAt(F, t)
        BY <2>7
      <3>2. claims[i].start <= t
        BY <3>1 DEF LeavesAt, Contains
      <3>3. QED
        BY <2>1, <2>5, <3>1, <3>2, ClaimFacts, SizeFacts
    <2>9. \A b \in tail : claims[i].start <= b
      <3> SUFFICES ASSUME NEW b \in tail PROVE claims[i].start <= b
        OBVIOUS
      <3>1. PICK j \in Ids : LeavesAt(F, b) = {j}
        BY <2>4
      <3>2. SpanEnd(claims[j]) = elf.len /\ claims[j].start <= b /\ j \in Leaves(F)
        <4>1. j \in LeavesAt(F, b)
          BY <3>1
        <4>2. QED
          BY <2>5, <4>1 DEF LeavesAt, Contains
      <3>3. i \in Leaves(F)
        BY <2>7 DEF LeavesAt
      <3>4. PICK z \in 0 .. elf.len - 1 : z = elf.len - 1 /\ t <= z /\ b <= z
        BY <2>1
      <3>5. i \in LeavesAt(F, z)
        BY <2>1, <2>8, <3>3, <3>4 DEF LeavesAt, Contains, Leaves
      <3>6. j \in LeavesAt(F, z)
        <4>1. claims[j].start \in Nat
          BY <2>1, <3>1, ClaimFacts, SizeFacts
        <4>2. QED
          BY <2>1, <3>2, <3>4, <4>1 DEF LeavesAt, Contains, Leaves
      <3>7. i = j
        BY <2>4, <3>4, <3>5, <3>6
      <3>8. QED
        BY <3>2, <3>7
    <2>10. elf.len <= claims[i].start + claims[i].len
      BY <2>8, SizeFacts DEF SpanEnd, SatAdd
    <2>11. claims[i].len >= HoleLarge
      <3>1. PICK lo \in Nat : lo = claims[i].start
        BY <2>8
      <3>2. tail \subseteq lo .. elf.len - 1 /\ lo <= t /\ t <= elf.len - 1
        BY <2>8, <2>9, <3>1
      <3>3. IsFiniteSet(lo .. elf.len - 1) /\ Cardinality(lo .. elf.len - 1) = elf.len - lo
        <4>1. Cardinality(lo .. elf.len - 1) = elf.len - 1 - lo + 1
          <5>1. PICK hi \in Int : hi = elf.len - 1
            BY <2>1
          <5>2. ~(lo > hi) /\ t \in Int /\ lo \in Int
            BY <2>1, <3>2, <5>1
          <5>3. Cardinality(lo .. hi) = hi - lo + 1
            BY <5>2, FS_Interval
          <5>4. QED
            BY <5>1, <5>3
        <4>2. QED
          BY SMTT(30), <2>1, <4>1, FS_Interval
      <3>4. Cardinality(tail) <= elf.len - lo
        <4> HIDE DEF tail
        <4>1. QED
          BY <3>2, <3>3, FS_Subset
      <3>5. Cardinality(tail) \in Nat
        <4> HIDE DEF tail
        <4>1. QED
          BY <3>2, <3>3, FS_Subset, FS_CardinalityType
      <3>6. QED
        <4>1. HoleLarge <= Cardinality(tail) /\ HoleLarge \in Nat
          BY <2>1, HolesAssumption
        <4>2. PICK c \in Nat : c = Cardinality(tail)
          BY <3>5
        <4>3. HoleLarge <= c /\ c <= elf.len - claims[i].start
          BY <3>1, <3>4, <4>1, <4>2
        <4> HIDE DEF tail
        <4>4. QED
          BY <2>1, <2>8, <2>10, <4>1, <4>2, <4>3
    <2>12. AtEnd(i)
      BY <2>1, <2>3, <2>8, OneFile DEF AtEnd
    <2> DEFINE f == Finding(i, "appended")
    <2>13. f \in FileFindings
      <3>1. claims[i].len >= HoleWorth
        BY <2>8, <2>11, HolesAssumption
      <3>2. Worth(i)
        BY <2>8, <3>1 DEF Worth, IsFiller
      <3>3. f \in Unexplained
        BY <2>11, <2>12, <3>2 DEF Unexplained
      <3>4. QED
        BY <3>3 DEF FileFindings
    <2>14. f.title = "appended" /\ \A b \in tail : Reported(f, b)
      <3>1. f.title = "appended" /\ f.start = claims[i].start /\ f.len = claims[i].len
        BY DEF Finding
      <3> HIDE DEF f
      <3>2. QED
        BY <2>1, <2>8, <2>9, <2>10, <3>1 DEF Reported
    <2>15. QED
      BY <2>13, <2>14
  <1>2. QED
    BY <1>1, TailAlways, PTL

-----------------------------------------------------------------------------
(* Explained bytes.                                                        *)

\* What the leaves of filler hold, added up, is the number of bytes they lie on,
\* when no two lie on one byte and each is as long as it says.
LEMMA FillerIsCounted ==
    ASSUME TypeOK, TailInv, NEW n \in Nat, NEW S, S = LeafIds \cap Filler,
           \A b \in 0 .. n - 1 : \E i \in Ids : LeavesAt(F, b) = {i},
           \A i \in Ids : claims[i].file = F /\ SpanEnd(claims[i]) <= n
    PROVE  /\ BytesOf(S) = Cardinality({b \in 0 .. n - 1 : \E i \in LeavesAt(F, b) : IsFiller(i)})
  <1> DEFINE a == [i \in S |-> claims[i].len]
             A == [i \in S |-> Bytes(claims[i])]
             next(g, s) == IF s = {} THEN 0
                           ELSE claims[CHOOSE y \in s : TRUE].len + g[s \ {CHOOSE y \in s : TRUE}]
             iter == CHOOSE g : g = [s \in SUBSET S |-> next(g, s)]
             U == {b \in 0 .. n - 1 : \E i \in LeavesAt(F, b) : IsFiller(i)}
  <1>1. BytesOf(S) = iter[S]
    BY Zenon DEF BytesOf, FX!MapThenSumSet, FX!MapThenFoldSet
  <1>2. \A g : [s \in SUBSET S |-> next(g, s)] = [s \in SUBSET S |-> Summing(a, g, s)]
    BY DEF Summing, AnyOf
  <1>3. ASSUME NEW i \in S
        PROVE  /\ i \in Ids /\ IsLeaf(i) /\ IsFiller(i)
               /\ claims[i].start \in Nat /\ claims[i].len \in Nat
               /\ SpanEnd(claims[i]) = claims[i].start + claims[i].len
               /\ claims[i].file = F /\ SpanEnd(claims[i]) <= n
    <2>1. i \in Ids /\ IsLeaf(i) /\ IsFiller(i)
      BY DEF LeafIds, Filler, IsFiller
    <2>2. QED
      BY <2>1, ClaimFacts, SizeFacts DEF TailInv, WholeRun
  <1>4. ASSUME NEW i \in S, NEW b \in Bytes(claims[i])
        PROVE  b \in 0 .. n - 1 /\ i \in LeavesAt(F, b)
    <2>1. b \in 0 .. n - 1 /\ claims[i].len # 0
      BY <1>3 DEF Bytes
    <2>2. QED
      BY <1>3, <1>4, <2>1 DEF Bytes, LeavesAt, Leaves, Contains, IsEmpty
  <1>5. \A x, y \in S : x # y => A[x] \cap A[y] = {}
    <2> SUFFICES ASSUME NEW x \in S, NEW y \in S, x # y, NEW b \in Bytes(claims[x]), b \in Bytes(claims[y])
                 PROVE  FALSE
      OBVIOUS
    <2>1. x \in LeavesAt(F, b) /\ y \in LeavesAt(F, b) /\ b \in 0 .. n - 1
      BY <1>4
    <2>2. QED
      BY <2>1
  <1>6. ASSUME NEW i \in S PROVE IsFiniteSet(A[i]) /\ a[i] = Cardinality(A[i])
    <2>1. PICK lo \in Nat, len \in Nat : lo = claims[i].start /\ len = claims[i].len
      BY <1>3
    <2>2. PICK hi \in Int : hi = lo + len - 1
      BY <2>1
    <2>3. A[i] = lo .. hi /\ a[i] = len
      BY <1>3, <2>1, <2>2 DEF Bytes
    <2>4. IsFiniteSet(lo .. hi) /\ Cardinality(lo .. hi) = IF lo > hi THEN 0 ELSE hi - lo + 1
      BY FS_Interval
    <2>5. Cardinality(lo .. hi) = len
      BY SMTT(30), <2>1, <2>2, <2>4
    <2>6. QED
      BY <2>3, <2>4, <2>5
  <1>7. UNION {A[x] : x \in S} = U
    <2>1. ASSUME NEW x \in S, NEW b \in A[x] PROVE b \in U
      <3>1. b \in 0 .. n - 1 /\ x \in LeavesAt(F, b) /\ IsFiller(x)
        BY <1>3, <1>4
      <3>2. QED
        BY <3>1
    <2>2. ASSUME NEW b \in U PROVE \E x \in S : b \in A[x]
      <3>1. PICK i \in LeavesAt(F, b) : IsFiller(i) /\ b \in 0 .. n - 1
        OBVIOUS
      <3>2. /\ i \in Ids /\ i \in LeafIds /\ i \in Filler
            /\ claims[i].start <= b /\ b < SpanEnd(claims[i])
        BY <3>1 DEF LeavesAt, Leaves, Contains, LeafIds, Filler, IsFiller
      <3>3. i \in S
        BY <3>2
      <3>4. claims[i].start \in Nat /\ SpanEnd(claims[i]) \in Nat
        BY <3>2, ClaimFacts, SizeFacts
      <3>5. b \in Bytes(claims[i])
        BY <3>1, <3>2, <3>4 DEF Bytes
      <3>6. QED
        BY <3>3, <3>5
    <2> HIDE DEF U, A
    <2>3. QED
      BY <2>1, <2>2
  <1>8. IsFiniteSet(S)
    <2>1. PICK m \in Nat : m = Len(claims)
      BY DEF TypeOK
    <2>2. S \subseteq 1 .. m
      BY <2>1 DEF LeafIds, Ids
    <2>3. IsFiniteSet(1 .. m)
      BY FS_Interval
    <2>4. QED
      BY <2>2, <2>3, FS_Subset
  <1> HIDE DEF a, A, U
  <1>9. \E g : IsSum(g, a, S)
    BY <1>5, <1>6, <1>8, SumOfSizes
  <1>10. \A g : IsSum(g, a, S) => g[S] = Cardinality(UNION {A[x] : x \in S})
    BY <1>5, <1>6, <1>8, SumOfSizes
  <1> HIDE DEF next
  <1>11. iter = [s \in SUBSET S |-> next(iter, s)]
    BY <1>2, <1>9 DEF IsSum
  <1> HIDE DEF iter
  <1>12. iter[S] = Cardinality(U)
    BY <1>2, <1>7, <1>10, <1>11 DEF IsSum
  <1>13. QED
    BY <1>1, <1>12 DEF U

\* The bytes a structure accounts for and those of filler are all bytes there are.
LEMMA BytesAreFillerOrNot ==
    ASSUME TypeOK, NEW n \in Nat, \A b \in 0 .. n - 1 : \E i \in Ids : LeavesAt(F, b) = {i}
    PROVE  LET U == {b \in 0 .. n - 1 : \E i \in LeavesAt(F, b) : IsFiller(i)}
               W == {b \in 0 .. n - 1 : \E i \in LeavesAt(F, b) : claims[i].kind = "Structure"}
           IN  /\ IsFiniteSet(W) /\ Cardinality(U) \in Nat /\ Cardinality(W) \in Nat
               /\ Cardinality(U) + Cardinality(W) = n
  <1> DEFINE U == {b \in 0 .. n - 1 : \E i \in LeavesAt(F, b) : IsFiller(i)}
             W == {b \in 0 .. n - 1 : \E i \in LeavesAt(F, b) : claims[i].kind = "Structure"}
  <1>1. U \cup W = 0 .. n - 1 /\ U \cap W = {}
    <2> SUFFICES ASSUME NEW b \in 0 .. n - 1 PROVE (b \in U \/ b \in W) /\ ~(b \in U /\ b \in W)
      OBVIOUS
    <2>1. PICK i \in Ids : LeavesAt(F, b) = {i}
      OBVIOUS
    <2>2. claims[i].kind \in {"Structure", "Unclaimed"}
      BY ClaimFacts DEF Claim, Kinds
    <2>3. QED
      BY <2>1, <2>2 DEF IsFiller
  <1>2. PICK hi \in Int : hi = n - 1
    OBVIOUS
  <1>3. IsFiniteSet(0 .. hi) /\ Cardinality(0 .. hi) = IF 0 > hi THEN 0 ELSE hi - 0 + 1
    BY FS_Interval
  <1>4. Cardinality(0 .. hi) = n
    BY <1>2, <1>3
  <1>5. U \subseteq 0 .. hi /\ W \subseteq 0 .. hi
    BY <1>2
  <1>6. PICK X : X = 0 .. hi
    OBVIOUS
  <1> HIDE DEF U, W
  <1>7. IsFiniteSet(U) /\ IsFiniteSet(W)
    BY <1>3, <1>5, FS_Subset
  <1>8. Cardinality(U) \in Nat /\ Cardinality(W) \in Nat /\ Cardinality({}) = 0
    BY <1>7, FS_CardinalityType, FS_EmptySet
  <1>9. Cardinality(U \cup W) = Cardinality(U) + Cardinality(W) - Cardinality(U \cap W)
    BY <1>7, FS_Union
  <1>10. Cardinality(U) + Cardinality(W) = n
    <2>1. Cardinality(U \cup W) = n /\ Cardinality(U \cap W) = 0
      BY <1>1, <1>2, <1>4, <1>8
    <2>2. PICK u \in Nat, w \in Nat : u = Cardinality(U) /\ w = Cardinality(W)
      BY <1>8
    <2>3. n = u + w - 0
      BY <1>9, <2>1, <2>2
    <2>4. QED
      BY <2>2, <2>3
  <1>11. QED
    BY <1>7, <1>8, <1>10 DEF U, W

\* What verify prints as explained is what the structures' leaves lie on, byte by
\* byte, in every file that is accepted.
THEOREM ExplainedBytesAreCounted == ParserSpec => []StatsCountBytes
  <1>1. ParserInv /\ TailInv => StatsCountBytes
    <2> SUFFICES ASSUME ParserInv, TailInv, result.kind = "Ok" PROVE StatsCountBytes
      BY DEF StatsCountBytes
    <2>1. /\ TypeOK /\ StepInv /\ elf \in Elfs /\ elf.len \in Nat /\ AcceptedIsPartition
          /\ stage = "done"
      BY CountFacts, SizeFacts DEF ParserInv, BuilderInv, FinishInv, StepInv, U64
    <2>2. step = "finished"
      BY <2>1 DEF StepInv, Steps, FillStages
    <2>3. files[F] = elf.len /\ Declared = {F}
      BY <2>1, <2>2 DEF StepInv
    <2>4. PICK n \in Nat : n = elf.len
      BY <2>1
    <2>5. \A b \in 0 .. n - 1 : \E i \in Ids : LeavesAt(F, b) = {i}
      BY <2>1, <2>3, <2>4 DEF AcceptedIsPartition, ClaimedOnce, Leaves
    <2>6. \A i \in Ids : claims[i].file = F /\ SpanEnd(claims[i]) <= n
      BY <2>1, <2>2, <2>3, <2>4, ClaimsFit DEF ParserInv
    <2> DEFINE U == {b \in 0 .. n - 1 : \E i \in LeavesAt(F, b) : IsFiller(i)}
               W == {b \in 0 .. n - 1 : \E i \in LeavesAt(F, b) : claims[i].kind = "Structure"}
               Explaining(f) == Cardinality({b \in 0 .. (files[f] - 1) :
                                    \E i \in LeavesAt(f, b) : claims[i].kind = "Structure"})
    <2>7. Stats.filler = Cardinality(U)
      <3>1. BytesOf(LeafIds \cap Filler) = Cardinality(U)
        <4>1. PICK S : S = LeafIds \cap Filler
          OBVIOUS
        <4>2. BytesOf(S) = Cardinality(U)
          BY <2>1, <2>5, <2>6, <4>1, FillerIsCounted
        <4>3. QED
          BY <4>1, <4>2
      <3>2. QED
        BY <3>1, Zenon DEF Stats
    <2>8. /\ Cardinality(U) \in Nat /\ Cardinality(W) \in Nat
          /\ Cardinality(U) + Cardinality(W) = n
      BY <2>1, <2>5, BytesAreFillerOrNot
    <2>9. Stats.total = n
      BY <2>3, <2>4, OneFile
    <2>10. Explained = Cardinality(W)
      <3> HIDE DEF U, W
      <3>1. QED
        BY <2>7, <2>8, <2>9 DEF Explained
    <2>11. FX!MapThenSumSet(LAMBDA f : Explaining(f), Declared) = Cardinality(W)
      <3> DEFINE next(g, s) == IF s = {} THEN 0
                               ELSE Explaining(CHOOSE y \in s : TRUE) + g[s \ {CHOOSE y \in s : TRUE}]
                 iter == CHOOSE g : g = [s \in SUBSET {F} |-> next(g, s)]
                 v == [f \in {F} |-> Explaining(f)]
      <3>1. FX!MapThenSumSet(LAMBDA f : Explaining(f), {F}) = iter[{F}]
        BY Zenon DEF FX!MapThenSumSet, FX!MapThenFoldSet
      <3>2. v[F] = Cardinality(W) /\ v[F] \in Nat
        BY <2>3, <2>4, <2>8
      <3> HIDE DEF Explaining
      <3>3. \A g : [s \in SUBSET {F} |-> next(g, s)] = [s \in SUBSET {F} |-> Summing(v, g, s)]
        BY DEF Summing, AnyOf
      <3> HIDE DEF v, next
      <3>4. (\E g : IsSum(g, v, {F})) /\ \A g : IsSum(g, v, {F}) => g[{F}] = v[F]
        BY <3>2, SumOverOne
      <3>5. iter = [s \in SUBSET {F} |-> next(iter, s)]
        BY <3>3, <3>4 DEF IsSum
      <3> HIDE DEF iter
      <3>6. iter[{F}] = v[F]
        BY <3>3, <3>4, <3>5 DEF IsSum
      <3>7. QED
        BY <2>3, <3>1, <3>2, <3>6
    <2> HIDE DEF W, U
    <2>12. QED
      BY <2>10, <2>11, Zenon DEF StatsCountBytes
  <1>2. QED
    BY <1>1, TailAlways, PTL

-----------------------------------------------------------------------------
(* Hover.                                                                  *)

\* Filler has no parts, and filler without a parent lies in no structure.
FillerInv ==
    \A i \in Ids : IsFiller(i) =>
        /\ i \in Leaves(F)
        /\ claims[i].parent = None => \A j \in Ids : ~IsFiller(j) => ~ContainsSpan(claims[j], claims[i])

\* A hole becomes a leaf, in the innermost of all claims around it.
LEMMA FillerAdded ==
    ASSUME ParserInv, FillerInv, step = "finish", FillHole,
           Check(HoleClaim(Head(holes))) = "ok"
    PROVE  FillerInv'
  <1>1. /\ TypeOK /\ FillInv /\ Declared = {F} /\ Places = Ids /\ Planned = claims /\ RegionInv
        /\ \A i \in Ids : claims[i].file = F
    BY ClaimsFit DEF ParserInv, BuilderInv, StepInv, PlanInv
  <1>2. PICK h \in HoleSpan : h = Head(holes)
    BY <1>1, FillHoleFacts
  <1>3. /\ h.file = file /\ h.start < SpanEnd(h)
        /\ \A f : Leaves(f) \subseteq Leaves(f)'
        /\ \A i \in Ids : claims'[i] = claims[i]
    BY <1>1, <1>2, FillHoleFacts
  <1>4. PICK c \in Claim : c = HoleClaim(h)
    BY <1>1, <1>2, HoleClaimFacts
  <1>5. Attach(c)
    BY <1>2, <1>4 DEF FillHole
  <1>6. PICK n : n = Len(claims) + 1
    OBVIOUS
  <1>7. /\ Ids' = Ids \cup {n} /\ n \notin Ids
        /\ claims'[n] = c /\ children'[n] = {}
    BY <1>1, <1>5, <1>6, AttachEffect
  <1>8. /\ c.file = h.file /\ c.start = h.start /\ c.len = h.len /\ c.kind = "Unclaimed"
        /\ SpanEnd(c) = SpanEnd(h) /\ c.parent = InnermostContaining(h)
    BY <1>1, <1>2, <1>4, HoleClaimFacts DEF HoleClaim
  <1>9. h.file = F
    <2>1. stage = "fillPush"
      BY DEF FillHole
    <2>2. file \in Declared
      BY <1>1, <2>1 DEF TypeOK
    <2>3. QED
      BY <1>1, <1>3, <2>2
  <1>10. n \in Leaves(F)'
    <2>1. ~IsEmpty(c)
      BY <1>2, <1>3, <1>8, HoleSpanFacts DEF IsEmpty
    <2>2. QED
      BY <1>7, <1>8, <1>9, <2>1 DEF Leaves, IsLeaf, IsEmpty
  <1>11. ASSUME c.parent = None, NEW j \in Ids, ~IsFiller(j)
         PROVE  ~ContainsSpan(claims[j], c)
    <2>1. j \in Structures
      BY <1>1, <1>11, ClaimFacts DEF Structures, IsFiller, Claim, Kinds
    <2>2. ~IsEmpty(claims[j])
      BY <1>1, <2>1 DEF RegionInv, Solid, IsEmpty
    <2>3. Containers(h) = {}
      <3>1. None \notin Ids
        BY <1>1 DEF Ids, None, TypeOK
      <3>2. QED
        BY <1>1, <1>8, <1>11, <3>1, InnermostExists DEF Containers
    <2>4. ~ContainsSpan(claims[j], h)
      BY <2>2, <2>3 DEF Containers
    <2>5. QED
      BY <1>8, <2>4 DEF ContainsSpan
  <1>12. ASSUME NEW i \in Ids', IsFiller(i)'
         PROVE  /\ i \in Leaves(F)'
                /\ claims'[i].parent = None =>
                      \A j \in Ids' : ~IsFiller(j)' => ~ContainsSpan(claims'[j], claims'[i])
    <2>1. IsFiller(n)'
      BY <1>7, <1>8 DEF IsFiller
    <2>2. \A j \in Ids : IsFiller(j)' <=> IsFiller(j)
      BY <1>3 DEF IsFiller
    <2>3. CASE i = n
      BY <1>3, <1>7, <1>10, <1>11, <2>1, <2>2, <2>3
    <2>4. CASE i \in Ids
      <3>1. IsFiller(i)
        BY <1>12, <2>2, <2>4
      <3>2. /\ i \in Leaves(F)
            /\ claims[i].parent = None => \A j \in Ids : ~IsFiller(j) => ~ContainsSpan(claims[j], claims[i])
        BY <2>4, <3>1 DEF FillerInv
      <3>3. QED
        BY <1>3, <1>7, <2>1, <2>2, <2>4, <3>2
    <2>5. QED
      BY <1>7, <2>3, <2>4
  <1>13. QED
    BY <1>12 DEF FillerInv

LEMMA FillerNext ==
    ASSUME ParserInv, FillerInv, [ParserNext]_allVars
    PROVE  FillerInv'
  <1>1. BuilderInv /\ PlanInv /\ StepInv /\ TypeOK
    BY DEF ParserInv, BuilderInv
  <1>2. PlanInv' /\ StepInv' /\ [AnyStep]_vars
    BY <1>1, PlanNext, StepsAreAnySteps
  <1>3. TypeOK'
    BY <1>1, <1>2, TypeNext
  <1>4. CASE step' \notin {"finish", "finished"}
    <2>1. AllStructures' /\ queue' \in Seq(Claim) /\ claims' \in Seq(Claim)
      BY <1>2, <1>3, <1>4 DEF StepInv, PlanInv, TypeOK
    <2>2. \A i \in Ids' : i \in Places' /\ Planned'[i] = claims'[i]
      BY <2>1 DEF Ids, Places, Planned
    <2>3. \A i \in Ids' : claims'[i].kind = "Structure"
      BY <2>1, <2>2 DEF AllStructures
    <2>4. QED
      BY <2>3 DEF FillerInv, IsFiller
  <1>5. CASE UNCHANGED <<claims, children>>
    <2>1. Ids' = Ids /\ \A f : Leaves(f)' = Leaves(f)
      BY <1>5 DEF Ids, Leaves, IsLeaf
    <2>2. QED
      BY <1>5, <2>1 DEF FillerInv, IsFiller
  <1>6. CASE FillNext /\ Scan /\ ~UNCHANGED <<claims, children>>
    <2>1. FillHole
      BY <1>6 DEF FillNext, FillFile, EnterFile, FillLeaf, FillTail, FillNextFile, FillReturn, builderVars
    <2>2. step = "finish"
      <3>1. stage = "fillPush"
        BY <2>1 DEF FillHole
      <3>2. QED
        BY <1>1, <3>1 DEF StepInv, Steps, FinishStages
    <2>3. Check(HoleClaim(Head(holes))) = "ok"
      BY <1>6, <2>1 DEF FillHole
    <2>4. QED
      BY <2>1, <2>2, <2>3, FillerAdded
  <1>7. CASE Scan /\ ~FillNext
    BY <1>1, <1>5, <1>7, ScanStages
  <1>8. CASE PushClaim
    <2>1. queue # <<>> /\ (step' = step \/ step' = "stopped")
      BY <1>8 DEF PushClaim
    <2>2. QED
      BY <1>1, <1>4, <2>1 DEF StepInv
  <1>9. CASE FillUnclaimed \/ Finish
    BY <1>5, <1>9 DEF FillUnclaimed, Finish, FillStart, FinishStart, StartScan, builderVars
  <1>10. CASE ParseEhdr
    BY <1>5, <1>10 DEF ParseEhdr, AddFile
  <1>11. CASE Reject \/ ParseShdrs \/ ParsePhdrs \/ ParseBody \/ NextEntry \/ UNCHANGED allVars
    <2>1. UNCHANGED <<claims, children>>
      BY <1>11 DEF Reject, Fail, ParseShdrs, ParsePhdrs, ParseTable, ParseBody, NextEntry, allVars, vars
    <2>2. QED
      BY <1>5, <2>1
  <1>12. QED
    BY <1>5, <1>6, <1>7, <1>8, <1>9, <1>10, <1>11 DEF ParserNext

LEMMA FillerAlways == ParserSpec => [](ParserInv /\ TailInv /\ FillerInv)
  <1>1. ParserInit => FillerInv
    BY DEF ParserInit, Init, FillerInv, Ids
  <1>2. ParserInv /\ FillerInv /\ [ParserNext]_allVars => FillerInv'
    BY FillerNext
  <1>3. QED
    BY <1>1, <1>2, TailAlways, PTL DEF ParserSpec

Covers(i, b) == claims[i].start <= b /\ b < SpanEnd(claims[i])
Inside(i, j) == claims[j].start <= claims[i].start /\ SpanEnd(claims[i]) <= SpanEnd(claims[j])

\* What is known of the claims when finish has said Ok.
LEMMA AcceptedFacts ==
    ASSUME ParserInv, TailInv, FillerInv, result.kind = "Ok"
    PROVE  /\ Places = Ids /\ Planned = claims /\ Reached = Regions /\ elf.len \in Nat
           /\ Ids \subseteq Nat \ {0}
           /\ \A i \in Ids : /\ claims[i].file = F
                             /\ claims[i].start \in Nat /\ claims[i].len \in Nat \ {0}
                             /\ SpanEnd(claims[i]) \in Nat
                             /\ SpanEnd(claims[i]) = claims[i].start + claims[i].len
                             /\ SpanEnd(claims[i]) <= elf.len
                             /\ (i \in Structures <=> ~IsFiller(i))
           /\ \A b : Covering(F, b) = {i \in Ids : Covers(i, b)}
           /\ \A b : LeavesAt(F, b) = {i \in Ids : IsLeaf(i) /\ Covers(i, b)}
           /\ \A b \in 0 .. elf.len - 1 : \E i \in Ids : LeavesAt(F, b) = {i}
  <1>1. /\ TypeOK /\ StepInv /\ PlanInv /\ elf \in Elfs /\ elf.len \in Nat /\ AcceptedIsPartition
        /\ stage = "done"
    BY CountFacts, SizeFacts DEF ParserInv, BuilderInv, FinishInv, StepInv, U64
  <1>2. step = "finished"
    BY <1>1 DEF StepInv, Steps, FillStages
  <1>3. files[F] = elf.len /\ Declared = {F} /\ sec = Len(Sections)
    BY <1>1, <1>2 DEF StepInv
  <1>4. /\ Places = Ids /\ Planned = claims
        /\ \A i \in Ids : claims[i].file = F /\ SpanEnd(claims[i]) <= elf.len
    BY <1>1, <1>2, <1>3, ClaimsFit
  <1>5. Reached = Regions
    BY <1>2, <1>3 DEF Reached, Regions
  <1>6. Ids \subseteq Nat \ {0}
    BY <1>1 DEF Ids, TypeOK
  <1>7. ASSUME NEW i \in Ids
        PROVE  /\ claims[i].start \in Nat /\ SpanEnd(claims[i]) \in Nat
               /\ claims[i].len \in Nat \ {0}
               /\ SpanEnd(claims[i]) = claims[i].start + claims[i].len
               /\ (i \in Structures <=> ~IsFiller(i))
    <2>1. claims[i].start \in Nat /\ SpanEnd(claims[i]) \in Nat /\ claims[i].len \in Nat
      BY <1>1, ClaimFacts, SizeFacts
    <2>2. i \in Structures <=> ~IsFiller(i)
      BY <1>1, <1>4, ClaimFacts DEF Structures, IsFiller, Claim, Kinds
    <2>3. CASE IsFiller(i)
      BY <1>7, <2>1, <2>2, <2>3 DEF TailInv, WholeRun, FillerInv, Leaves, IsEmpty
    <2>4. CASE ~IsFiller(i)
      BY <1>1, <1>4, <2>1, <2>2, <2>4 DEF PlanInv, RegionInv, Solid
    <2>5. QED
      BY <2>3, <2>4
  <1>8. \A b : Covering(F, b) = {i \in Ids : Covers(i, b)}
    BY <1>4 DEF Covering, Covers, Contains
  <1>9. \A b : LeavesAt(F, b) = {i \in Ids : IsLeaf(i) /\ Covers(i, b)}
    BY <1>4, <1>7 DEF LeavesAt, Leaves, Covers, Contains, IsEmpty
  <1>10. \A b \in 0 .. elf.len - 1 : \E i \in Ids : LeavesAt(F, b) = {i}
    BY <1>1, <1>3 DEF AcceptedIsPartition, ClaimedOnce, Leaves
  <1>11. QED
    BY <1>1, <1>4, <1>5, <1>6, <1>7, <1>8, <1>9, <1>10

\* Structures on one byte are in one region.
LEMMA OneRegion ==
    ASSUME ParserInv, TailInv, FillerInv, result.kind = "Ok",
           NEW b, ~Shared(b),
           NEW i \in Structures, NEW j \in Structures, Covers(i, b), Covers(j, b), b \in Nat
    PROVE  Base(i) = Base(j)
  <1> SUFFICES ASSUME Base(i) # Base(j) PROVE FALSE
    OBVIOUS
  <1>1. /\ claims \in Seq(Claim) /\ queue \in Seq(Claim) /\ PlacedInv /\ RegionInv
        /\ Planned = claims /\ Reached = Regions
    BY AcceptedFacts DEF ParserInv, BuilderInv, TypeOK, PlanInv
  <1>2. PICK k \in Regions, m \in Regions :
           k # m /\ IsExtent(Base(i), k) /\ IsExtent(Base(j), m)
    BY <1>1 DEF RegionInv
  <1>3. \A x \in {i, j} : Planned[Base(x)].start <= b /\ b < SpanEnd(Planned[Base(x)])
    <2> TAKE x \in {i, j}
    <2>1. x \in Places /\ Planned[x].start <= b /\ b < SpanEnd(Planned[x])
      BY <1>1 DEF Structures, Covers
    <2>2. PICK y \in Places : y = Base(x)
      BY <1>1, <2>1, UpFacts
    <2>3. /\ Planned[y].start <= Planned[x].start /\ SpanEnd(Planned[x]) <= SpanEnd(Planned[y])
          /\ Planned[x].start \in Nat /\ SpanEnd(Planned[x]) \in Nat
          /\ Planned[y].start \in Nat /\ SpanEnd(Planned[y]) \in Nat
      BY <1>1, <2>1, <2>2, UpFacts
    <2>4. Planned[y].start <= b /\ b < SpanEnd(Planned[y])
      BY <2>1, <2>3
    <2>5. QED
      BY <2>2, <2>4
  <1>4. InRegion(k, b) /\ InRegion(m, b)
    BY <1>2, <1>3 DEF IsExtent, InRegion
  <1>5. QED
    BY <1>2, <1>4 DEF Shared

\* Filler that crosses no claim is no wider than a structure it shares a byte with:
\* the last part in it of such a structure would be a leaf over a byte of it.
LEMMA FillerIsInside ==
    ASSUME ParserInv, TailInv, FillerInv, result.kind = "Ok",
           NEW b \in 0 .. elf.len - 1, NEW i \in LeavesAt(F, b), IsFiller(i),
           NEW j \in Ids, Covers(j, b), ~IsFiller(j), ~Crosses(i, j)
    PROVE  Inside(i, j)
  <1>1. /\ \A x \in Ids : /\ claims[x].file = F
                          /\ claims[x].start \in Nat /\ claims[x].len \in Nat \ {0}
                          /\ SpanEnd(claims[x]) \in Nat
                          /\ SpanEnd(claims[x]) = claims[x].start + claims[x].len
                          /\ SpanEnd(claims[x]) <= elf.len
        /\ elf.len \in Nat
        /\ \A c : LeavesAt(F, c) = {x \in Ids : IsLeaf(x) /\ Covers(x, c)}
        /\ \A c \in 0 .. elf.len - 1 : \E x \in Ids : LeavesAt(F, c) = {x}
    BY AcceptedFacts
  <1>2. Forest /\ Len(claims) \in Nat
    BY DEF ParserInv, BuilderInv, TypeOK
  <1>3. i \in Ids /\ IsLeaf(i) /\ Covers(i, b)
    BY <1>1
  <1>4. Overlaps(claims[i], claims[j])
    <2>1. claims[i].start < SpanEnd(claims[j]) /\ claims[j].start < SpanEnd(claims[i])
      BY <1>1, <1>3 DEF Covers
    <2>2. QED
      BY <1>1, <1>3, <2>1 DEF Overlaps, IsEmpty
  <1>5. Inside(i, j) \/ Inside(j, i)
    BY <1>4 DEF Crosses, ContainsSpan, Inside
  <1> DEFINE bad == {x \in Ids : ~IsFiller(x) /\ Inside(x, i) /\ ~Inside(i, x)}
  <1> SUFFICES ASSUME j \in bad PROVE FALSE
    BY <1>5
  <1>6. PICK k \in bad : \A x \in bad : x <= k
    <2>1. bad \in SUBSET (1 .. Len(claims)) /\ bad # {}
      BY DEF Ids
    <2>2. QED
      BY <1>2, <2>1, GreatestFacts
  <1>7. k \in Ids /\ ~IsFiller(k) /\ Inside(k, i) /\ ~Inside(i, k)
    OBVIOUS
  <1> HIDE DEF bad
  <1>8. \A x \in Ids : Inside(x, i) /\ IsLeaf(x) => x = i
    <2> SUFFICES ASSUME NEW x \in Ids, Inside(x, i), IsLeaf(x) PROVE x = i
      OBVIOUS
    <2>1. PICK c \in Nat : c = claims[x].start
      BY <1>1
    <2>2. c \in 0 .. elf.len - 1 /\ Covers(x, c) /\ Covers(i, c)
      BY SMTT(30), <1>1, <1>3, <2>1 DEF Inside, Covers
    <2>3. QED
      BY <1>1, <1>3, <2>2
  <1>9. ~IsLeaf(k)
    BY <1>7, <1>8
  <1>10. PICK c \in Ids : claims[c].parent = k
    BY <1>2, <1>7, <1>9 DEF Forest, IsLeaf
  <1>11. k < c /\ Inside(c, k)
    <2>1. claims[c].parent # None
      BY <1>2, <1>7, <1>10 DEF None, Ids
    <2>2. QED
      BY <1>2, <1>10, <2>1 DEF Forest, ContainsSpan, Inside
  <1>12. Inside(c, i) /\ ~Inside(i, c)
    BY <1>1, <1>3, <1>7, <1>11 DEF Inside
  <1>13. CASE IsFiller(c)
    <2>1. IsLeaf(c)
      BY <1>13 DEF FillerInv, Leaves
    <2>2. c = i
      BY <1>8, <1>12, <2>1
    <2>3. QED
      BY <1>12, <2>2 DEF Inside
  <1>14. CASE ~IsFiller(c)
    <2>1. c \in bad
      BY <1>12, <1>14 DEF bad
    <2>2. c <= k /\ k \in Nat /\ c \in Nat
      BY <1>2, <1>6, <1>7, <2>1 DEF Ids
    <2>3. QED
      BY <1>11, <2>2
  <1>15. QED
    BY <1>13, <1>14

\* What the theorem is about: the regions of the file share no byte, and no hole
\* crosses the end of a claim.
Plain ==
    /\ ParserInv /\ TailInv /\ FillerInv /\ result.kind = "Ok"
    /\ \A b \in 0 .. elf.len - 1 : ~Shared(b)
    /\ \A i \in Filler, j \in Ids : ~Crosses(i, j)

\* Then all claims over a byte contain its leaf.
LEMMA LeafIsInside ==
    ASSUME Plain, NEW b \in 0 .. elf.len - 1, NEW i \in LeavesAt(F, b), NEW j \in Ids, Covers(j, b)
    PROVE  Inside(i, j)
  <1>1. /\ ParserInv /\ TailInv /\ FillerInv /\ result.kind = "Ok" /\ ~Shared(b) /\ b \in Nat
    BY AcceptedFacts DEF Plain
  <1>2. /\ Places = Ids /\ Planned = claims
        /\ claims \in Seq(Claim) /\ queue \in Seq(Claim) /\ PlacedInv /\ RegionInv /\ Forest
        /\ \A x \in Ids : /\ claims[x].start \in Nat /\ SpanEnd(claims[x]) \in Nat
                          /\ (x \in Structures <=> ~IsFiller(x))
        /\ \A c : LeavesAt(F, c) = {x \in Ids : IsLeaf(x) /\ Covers(x, c)}
        /\ \E x \in Ids : LeavesAt(F, b) = {x}
    BY <1>1, AcceptedFacts DEF ParserInv, BuilderInv, TypeOK, PlanInv
  <1>3. i \in Ids /\ IsLeaf(i) /\ Covers(i, b)
    BY <1>2
  <1>4. CASE i = j
    BY <1>2, <1>4 DEF Inside
  <1>5. CASE IsFiller(j)
    <2>1. IsLeaf(j)
      BY <1>1, <1>5 DEF FillerInv, Leaves
    <2>2. QED
      BY <1>2, <1>4, <2>1
  <1>6. CASE IsFiller(i) /\ ~IsFiller(j)
    <2>1. ~Crosses(i, j)
      BY <1>3, <1>6 DEF Plain, Filler, IsFiller
    <2>2. QED
      BY <1>1, <1>6, <2>1, FillerIsInside
  <1>7. CASE ~IsFiller(i) /\ ~IsFiller(j) /\ i # j
    <2>1. i \in Structures /\ j \in Structures
      BY <1>2, <1>3, <1>7
    <2>2. Base(i) = Base(j)
      BY <1>1, <1>3, <2>1, OneRegion
    <2>3. Under(i, j) \/ Under(j, i) \/ Apart(i, j)
      BY <1>2, <1>7, <2>1, <2>2 DEF RegionInv
    <2>4. ~Apart(i, j)
      BY <1>1, <1>2, <1>3 DEF Apart, Covers
    <2>5. ~Under(j, i)
      <3> SUFFICES ASSUME Under(j, i) PROVE FALSE
        OBVIOUS
      <3>1. Up(j) \in Ids /\ (i = Up(j) \/ (i # Up(j) /\ i = Up(Up(j))))
        BY <1>2, UpFacts DEF Under, Base
      <3>2. \E k \in Ids : claims[k].parent = i
        BY <1>2, <1>7, <3>1 DEF Up
      <3>3. QED
        BY <1>2, <1>3, <3>2 DEF Forest, IsLeaf
    <2>6. j \in {Up(i), Base(i)}
      BY <2>3, <2>4, <2>5 DEF Under
    <2>7. QED
      BY <1>2, <1>3, <2>6, UpFacts DEF Inside
  <1>8. QED
    BY <1>4, <1>5, <1>6, <1>7

\* So the innermost of them spans what the leaf spans, and no other comes before it.
LEMMA InnermostIsLeaf ==
    ASSUME Plain, NEW b \in 0 .. elf.len - 1, NEW i \in LeavesAt(F, b)
    PROVE  /\ InnermostAt(F, b) \in Ids /\ Covers(InnermostAt(F, b), b)
           /\ claims[InnermostAt(F, b)].start = claims[i].start
           /\ claims[InnermostAt(F, b)].len = claims[i].len
           /\ \A j \in Ids : Covers(j, b) => Before(InnermostAt(F, b), j)
  <1> DEFINE S == Covering(F, b)
             short == {x \in S : Extent(x) = Extent(i)}
  <1>1. /\ \A x \in Ids : /\ claims[x].start \in Nat /\ claims[x].len \in Nat
                          /\ SpanEnd(claims[x]) \in Nat
                          /\ SpanEnd(claims[x]) = claims[x].start + claims[x].len
        /\ Ids \subseteq Nat
        /\ S = {x \in Ids : Covers(x, b)} /\ i \in Ids /\ Covers(i, b)
    BY AcceptedFacts DEF Plain
  <1>2. \A x \in S : x \in Ids /\ Covers(x, b) /\ Inside(i, x)
    BY <1>1, LeafIsInside
  <1> HIDE DEF S
  <1>3. ASSUME NEW x \in S
        PROVE  Extent(x) \in Nat /\ Extent(i) <= Extent(x) /\ x \in Nat
    <2>1. /\ claims[x].start \in Nat /\ SpanEnd(claims[x]) \in Nat
          /\ claims[x].start <= SpanEnd(claims[x]) /\ x \in Nat
      <3>1. x \in Ids /\ Covers(x, b)
        BY <1>2
      <3>2. SpanEnd(claims[x]) = claims[x].start + claims[x].len
            /\ claims[x].start \in Nat /\ claims[x].len \in Nat
        BY <1>1, <3>1
      <3>3. QED
        BY <1>1, <3>1, <3>2
    <2>2. /\ claims[i].start \in Nat /\ SpanEnd(claims[i]) \in Nat
      BY <1>1
    <2>3. claims[x].start <= claims[i].start /\ SpanEnd(claims[i]) <= SpanEnd(claims[x])
      BY <1>2 DEF Inside
    <2>4. QED
      BY <2>1, <2>2, <2>3 DEF Extent
  <1>4. i \in S
    BY <1>1
  <1>5. short \in SUBSET Nat /\ short # {}
    BY <1>3, <1>4
  <1>6. PICK n \in short : \A m \in short : n <= m
    <2> HIDE DEF short
    <2>1. QED
      BY <1>5, LeastOf
  <1>7. Extent(i) \in Nat
    BY <1>3, <1>4
  <1>8. n \in S /\ \A x \in S : Before(n, x)
    <2>1. n \in S /\ Extent(n) = Extent(i)
      BY <1>6
    <2>2. ASSUME NEW x \in S PROVE Before(n, x)
      <3>1. CASE Extent(x) = Extent(i)
        BY <1>6, <2>1, <3>1 DEF Before
      <3>2. CASE Extent(x) # Extent(i)
        BY <1>3, <1>7, <2>1, <3>2 DEF Before
      <3>3. QED
        BY <3>1, <3>2
    <2>3. QED
      BY <2>1, <2>2
  <1>9. InnermostAt(F, b) = CHOOSE x \in S : \A y \in S : Before(x, y)
    BY <1>4 DEF InnermostAt, S
  <1>10. PICK m : m = InnermostAt(F, b)
    OBVIOUS
  <1>11. m \in S /\ \A y \in S : Before(m, y)
    BY <1>8, <1>9, <1>10
  <1>12. Before(m, i) /\ Extent(m) \in Nat /\ Extent(i) <= Extent(m)
    BY <1>3, <1>4, <1>11
  <1>13. Extent(m) = Extent(i)
    BY <1>7, <1>12 DEF Before
  <1>14. /\ m \in Ids /\ Covers(m, b) /\ Inside(i, m)
    BY <1>2, <1>11
  <1>15. claims[m].start = claims[i].start /\ SpanEnd(claims[m]) = SpanEnd(claims[i])
    BY <1>1, <1>13, <1>14 DEF Extent, Inside
  <1>16. claims[m].len = claims[i].len
    <2>1. /\ claims[m].start \in Nat /\ claims[m].len \in Nat
          /\ SpanEnd(claims[m]) = claims[m].start + claims[m].len
      BY <1>1, <1>14
    <2>2. /\ claims[i].start \in Nat /\ claims[i].len \in Nat
          /\ SpanEnd(claims[i]) = claims[i].start + claims[i].len
      BY <1>1
    <2>3. PICK e, a \in Nat, x \in Nat, y \in Nat :
             /\ e = SpanEnd(claims[i]) /\ a = claims[i].start
             /\ x = claims[i].len /\ y = claims[m].len
      BY <2>1, <2>2
    <2>4. e = a + x /\ e = a + y
      BY <1>15, <2>1, <2>2, <2>3
    <2>5. QED
      BY <2>3, <2>4
  <1>17. \A j \in Ids : Covers(j, b) => Before(m, j)
    BY <1>1, <1>11
  <1>18. QED
    BY <1>10, <1>14, <1>15, <1>16, <1>17

\* Of two claims of one span the parts of the one are in the other, so a claim of
\* the leaf's span has the leaf for a part, or a part of that span.
LEMMA DeepestIsLeaf ==
    ASSUME Plain, NEW b \in 0 .. elf.len - 1, NEW i \in LeavesAt(F, b), ~FillsItsParent(i)
    PROVE  InnermostAt(F, b) = i
  <1> DEFINE same == {x \in Ids : x # i /\ SameSpan(x, i)}
  <1>1. /\ \A x \in Ids : /\ claims[x].start \in Nat /\ claims[x].len \in Nat \ {0}
                          /\ SpanEnd(claims[x]) \in Nat /\ SpanEnd(claims[x]) <= elf.len
                          /\ SpanEnd(claims[x]) = claims[x].start + claims[x].len
        /\ \A c : LeavesAt(F, c) = {x \in Ids : IsLeaf(x) /\ Covers(x, c)}
        /\ \A c \in 0 .. elf.len - 1 : \E x \in Ids : LeavesAt(F, c) = {x}
        /\ elf.len \in Nat
    BY AcceptedFacts DEF Plain
  <1>2. Forest /\ Len(claims) \in Nat
    BY DEF Plain, ParserInv, BuilderInv, TypeOK
  <1>3. i \in Ids /\ IsLeaf(i) /\ Covers(i, b)
    BY <1>1
  <1>4. InnermostAt(F, b) \in Ids /\ SameSpan(InnermostAt(F, b), i)
    BY InnermostIsLeaf DEF SameSpan
  <1> SUFFICES ASSUME same # {} PROVE FALSE
    BY <1>4
  <1>5. PICK k \in same : \A x \in same : x <= k
    <2>1. same \in SUBSET (1 .. Len(claims))
      BY DEF Ids
    <2>2. QED
      BY <1>2, <2>1, GreatestFacts
  <1>6. k \in Ids /\ k # i /\ SameSpan(k, i)
    OBVIOUS
  <1> HIDE DEF same
  <1>7. SpanEnd(claims[k]) = SpanEnd(claims[i])
    BY <1>1, <1>3, <1>6 DEF SameSpan
  <1>8. Covers(k, b)
    BY <1>3, <1>6, <1>7 DEF Covers, SameSpan
  <1>9. ~IsLeaf(k)
    BY <1>1, <1>3, <1>6, <1>8
  <1>10. PICK c \in Ids : claims[c].parent = k
    BY <1>2, <1>6, <1>9 DEF Forest, IsLeaf
  <1>11. k < c /\ Inside(c, k)
    <2>1. claims[c].parent # None
      BY <1>2, <1>6, <1>10 DEF None, Ids
    <2>2. QED
      BY <1>2, <1>10, <2>1 DEF Forest, ContainsSpan, Inside
  <1>12. PICK a \in Nat : a = claims[c].start
    BY <1>1
  <1>13. a \in 0 .. elf.len - 1 /\ Covers(c, a)
    BY SMTT(30), <1>1, <1>12 DEF Covers
  <1>14. Covers(i, a)
    <2>1. Covers(k, a)
      BY <1>1, <1>6, <1>11, <1>13 DEF Covers, Inside
    <2>2. QED
      BY <1>6, <1>7, <2>1 DEF Covers, SameSpan
  <1>15. i \in LeavesAt(F, a)
    BY <1>1, <1>3, <1>14
  <1>16. Inside(i, c)
    BY <1>13, <1>15, LeafIsInside
  <1>17. SameSpan(c, i)
    <2>1. claims[c].start = claims[i].start /\ SpanEnd(claims[c]) = SpanEnd(claims[i])
      BY <1>1, <1>3, <1>6, <1>7, <1>11, <1>16 DEF Inside, SameSpan
    <2>2. QED
      BY SMTT(30), <1>1, <1>3, <2>1 DEF SameSpan
  <1>18. c = i
    <2> SUFFICES ASSUME c # i PROVE FALSE
      OBVIOUS
    <2>1. c \in same
      BY <1>17 DEF same
    <2>2. c <= k /\ k \in Nat /\ c \in Nat
      BY <1>2, <1>5, <1>6, <2>1 DEF Ids
    <2>3. QED
      BY <1>11, <2>2
  <1>19. FillsItsParent(i)
    <2>1. k # None
      BY <1>2, <1>6 DEF None, Ids
    <2>2. QED
      BY <1>6, <1>10, <1>18, <2>1 DEF FillsItsParent, SameSpan
  <1>20. QED
    BY <1>19

\* What Ancestry recurs by.
UpFrom(g) == [j \in Ids |-> IF claims[j].parent = None THEN <<j>>
                            ELSE <<j>> \o g[claims[j].parent]]

\* The way up ends at the root three steps up, if no claim lies deeper than that.
LEMMA TopIsRoot ==
    ASSUME Ids \subseteq Nat, Planned = claims, \A i \in Ids : Up(i) \in Ids,
           \A i \in Ids : claims[Up(Base(i))].parent = None
    PROVE  \A i \in Ids : Top(i) = Up(Base(i))
  <1> DEFINE up == CHOOSE g : g = UpFrom(g)
  <1>1. \A i \in Ids : Ancestry[i] = up[i]
    BY DEF Ancestry, UpFrom
  <1>2. \E g : g = UpFrom(g)
    <2>1. PICK g0 : g0 = [j \in Ids |-> <<j>>]
      OBVIOUS
    <2>2. PICK g1 : g1 = UpFrom(g0)
      OBVIOUS
    <2>3. PICK g2 : g2 = UpFrom(g1)
      OBVIOUS
    <2>4. PICK g3 : g3 = UpFrom(g2)
      OBVIOUS
    <2>5. \A j \in Ids : claims[j].parent = None => g0[j] = g1[j]
      BY <2>1, <2>2 DEF UpFrom
    <2>6. ASSUME NEW f, NEW g, NEW h, g = UpFrom(f), h = UpFrom(g), NEW j \in Ids, f[Up(j)] = g[Up(j)]
          PROVE  g[j] = h[j]
      BY <2>6 DEF UpFrom, Up
    <2>7. PICK g4 : g4 = UpFrom(g3)
      OBVIOUS
    <2>8. \A j \in Ids : g3[j] = g4[j]
      <3> TAKE j \in Ids
      <3>1. PICK u \in Ids : u = Up(j)
        OBVIOUS
      <3>2. PICK v \in Ids : v = Up(u)
        OBVIOUS
      <3>3. PICK w \in Ids : w = Up(v)
        OBVIOUS
      <3>4. claims[w].parent = None
        BY <3>1, <3>2, <3>3 DEF Base
      <3>5. g0[w] = g1[w]
        BY <2>5, <3>4
      <3>6. g1[v] = g2[v]
        BY <2>2, <2>3, <2>6, <3>3, <3>5
      <3>7. g2[u] = g3[u]
        BY <2>3, <2>4, <2>6, <3>2, <3>6
      <3>8. QED
        BY <2>4, <2>6, <2>7, <3>1, <3>7
    <2>9. g3 = g4
      BY <2>4, <2>7, <2>8 DEF UpFrom
    <2>10. QED
      BY <2>7, <2>9
  <1>3. up = UpFrom(up)
    BY <1>2
  <1> HIDE DEF up
  <1>4. \A j \in Ids : up[j] = IF claims[j].parent = None THEN <<j>> ELSE <<j>> \o up[claims[j].parent]
    BY <1>3 DEF UpFrom
  <1> DEFINE Ends(j, w) == up[j] \in Seq(Nat) /\ Len(up[j]) > 0 /\ up[j][Len(up[j])] = w
  <1>5. ASSUME NEW w \in Ids, claims[w].parent = None PROVE Ends(w, w)
    <2>1. up[w] = <<w>> /\ w \in Nat
      BY <1>4, <1>5
    <2>2. QED
      BY <2>1
  <1>6. ASSUME NEW j \in Ids, NEW w, Ends(Up(j), w) PROVE Ends(j, w)
    <2>1. CASE claims[j].parent = None
      BY <1>6, <2>1 DEF Up
    <2>2. CASE claims[j].parent # None
      <3>1. PICK s \in Seq(Nat) : s = up[claims[j].parent] /\ Len(s) > 0 /\ s[Len(s)] = w
        BY <1>6, <2>2 DEF Up
      <3>2. up[j] = <<j>> \o s
        BY <1>4, <2>2, <3>1
      <3>3. PICK t : t = <<j>> /\ t \in Seq(Nat) /\ Len(t) = 1
        <4>1. <<j>> \in Seq(Nat) /\ Len(<<j>>) = 1
          OBVIOUS
        <4>2. QED
          BY <4>1, Zenon
      <3>4. /\ t \o s \in Seq(Nat) /\ Len(t \o s) = 1 + Len(s)
            /\ (t \o s)[1 + Len(s)] = s[Len(s)]
        BY <3>1, <3>3
      <3>5. Len(s) + 1 > 0
        BY <3>1
      <3>6. QED
        BY <3>1, <3>2, <3>3, <3>4, <3>5
    <2>3. QED
      BY <2>1, <2>2
  <1>7. ASSUME NEW i \in Ids PROVE Top(i) = Up(Base(i))
    <2> HIDE DEF Ends
    <2>1. PICK u \in Ids : u = Up(i)
      OBVIOUS
    <2>2. PICK v \in Ids : v = Up(u)
      OBVIOUS
    <2>3. PICK w \in Ids : w = Up(v)
      OBVIOUS
    <2>4. claims[w].parent = None /\ w = Up(Base(i))
      BY <2>1, <2>2, <2>3 DEF Base
    <2>5. Ends(w, w)
      BY <1>5, <2>4
    <2>6. Ends(v, w)
      BY <1>6, <2>3, <2>5
    <2>7. Ends(u, w)
      BY <1>6, <2>2, <2>6
    <2>8. Ends(i, w)
      BY <1>6, <2>1, <2>7
    <2>9. Top(i) = up[i][Len(up[i])]
      BY <1>1 DEF Top, SX!Last
    <2>10. QED
      BY <2>4, <2>8, <2>9 DEF Ends
  <1>8. QED
    BY <1>7

\* The root of a structure is its region's claim; of filler it is the filler itself,
\* or the region's claim of the structure it lies in.
LEMMA TopFacts ==
    ASSUME ParserInv, TailInv, FillerInv, result.kind = "Ok"
    PROVE  \A i \in Ids :
              /\ Top(i) \in Ids
              /\ ~IsFiller(i) => Top(i) = Base(i)
              /\ IsFiller(i) /\ claims[i].parent # None =>
                    /\ claims[i].parent \in Structures
                    /\ ContainsSpan(claims[claims[i].parent], claims[i])
                    /\ Top(i) = Base(claims[i].parent)
  <1>1. /\ Places = Ids /\ Planned = claims /\ Ids \subseteq Nat \ {0}
        /\ claims \in Seq(Claim) /\ queue \in Seq(Claim) /\ PlacedInv /\ RegionInv /\ Forest
        /\ \A x \in Ids : x \in Structures <=> ~IsFiller(x)
    BY AcceptedFacts DEF ParserInv, BuilderInv, TypeOK, PlanInv
  <1>2. /\ \A i \in Ids : Up(i) \in Ids /\ Base(i) \in Ids
        /\ \A i \in Bases : Up(i) = i /\ claims[i].parent = None /\ i \in Ids
    BY <1>1, UpFacts DEF Bases
  <1>3. ASSUME NEW i \in Ids, ~IsFiller(i)
        PROVE  Up(Base(i)) = Base(i) /\ claims[Up(Base(i))].parent = None
    BY <1>1, <1>2, <1>3 DEF RegionInv
  <1>4. ASSUME NEW i \in Ids, IsFiller(i), claims[i].parent # None
        PROVE  /\ claims[i].parent \in Structures
               /\ ContainsSpan(claims[claims[i].parent], claims[i])
               /\ Up(Base(i)) = Base(claims[i].parent)
               /\ claims[Up(Base(i))].parent = None
    <2>1. PICK p \in Ids : p = claims[i].parent /\ Up(i) = p
      BY <1>1, <1>2, <1>4 DEF Up
    <2>2. ContainsSpan(claims[p], claims[i])
      BY <1>1, <1>4, <2>1 DEF PlacedInv
    <2>3. ~IsFiller(p)
      <3>1. ~IsLeaf(p)
        BY <1>1, <2>1 DEF IsLeaf, Forest
      <3>2. QED
        BY <2>1, <3>1 DEF FillerInv, Leaves
    <2>4. Up(Base(i)) = Base(p)
      BY <2>1 DEF Base
    <2>5. Base(p) \in Bases
      BY <1>1, <2>1, <2>3 DEF RegionInv
    <2>6. QED
      BY <1>1, <1>2, <2>1, <2>2, <2>3, <2>4, <2>5
  <1>5. ASSUME NEW i \in Ids, claims[i].parent = None
        PROVE  Up(Base(i)) = i
    BY <1>1, <1>5 DEF Up, Base
  <1>6. \A i \in Ids : claims[Up(Base(i))].parent = None
    <2> TAKE i \in Ids
    <2>1. CASE claims[i].parent = None
      BY <1>5, <2>1
    <2>2. CASE claims[i].parent # None /\ IsFiller(i)
      BY <1>4, <2>2
    <2>3. CASE ~IsFiller(i)
      BY <1>3, <2>3
    <2>4. QED
      BY <2>1, <2>2, <2>3
  <1>7. \A i \in Ids : Top(i) = Up(Base(i))
    BY <1>1, <1>2, <1>6, TopIsRoot
  <1>8. QED
    BY <1>2, <1>3, <1>4, <1>7

\* The claim under the cursor and the leaf there have one root.
LEMMA NeighbourIsTop ==
    ASSUME Plain, NEW b \in 0 .. elf.len - 1, NEW i \in LeavesAt(F, b)
    PROVE  Neighbour(b) = Top(i) /\ Top(i) # None
  <1>1. /\ ParserInv /\ TailInv /\ FillerInv /\ result.kind = "Ok" /\ ~Shared(b) /\ b \in Nat
    BY AcceptedFacts DEF Plain
  <1>2. /\ Planned = claims /\ Ids \subseteq Nat \ {0} /\ RegionInv
        /\ \A x \in Ids : /\ claims[x].start \in Nat /\ SpanEnd(claims[x]) \in Nat
                          /\ claims[x].file = F
                          /\ (x \in Structures <=> ~IsFiller(x))
        /\ \A c : LeavesAt(F, c) = {x \in Ids : IsLeaf(x) /\ Covers(x, c)}
        /\ \E x \in Ids : LeavesAt(F, b) = {x}
    BY <1>1, AcceptedFacts DEF ParserInv, PlanInv
  <1>3. PICK m \in Ids : m = InnermostAt(F, b) /\ Covers(m, b)
    BY InnermostIsLeaf
  <1>4. i \in Ids /\ IsLeaf(i) /\ Covers(i, b) /\ Inside(i, m)
    BY <1>2, <1>3, LeafIsInside
  <1>5. \A x \in Ids : Top(x) \in Ids /\ Top(x) # None
    BY <1>1, <1>2, TopFacts DEF None
  <1>6. Neighbour(b) = Top(m)
    BY <1>2, <1>3 DEF Neighbour, F, None
  <1>7. Top(m) = Top(i)
    <2>1. CASE IsFiller(m)
      <3>1. IsLeaf(m)
        BY <1>1, <2>1 DEF FillerInv, Leaves
      <3>2. QED
        BY <1>2, <1>3, <1>4, <3>1
    <2>2. CASE ~IsFiller(m) /\ ~IsFiller(i)
      <3>1. m \in Structures /\ i \in Structures
        BY <1>2, <1>4, <2>2
      <3>2. Base(m) = Base(i)
        BY <1>1, <1>3, <1>4, <3>1, OneRegion
      <3>3. QED
        BY <1>1, <1>4, <2>2, <3>2, TopFacts
    <2>3. CASE ~IsFiller(m) /\ IsFiller(i)
      <3>1. ContainsSpan(claims[m], claims[i])
        BY <1>2, <1>4 DEF ContainsSpan, Inside
      <3>2. claims[i].parent # None
        BY <1>1, <1>4, <2>3, <3>1 DEF FillerInv
      <3>3. PICK p \in Structures : /\ p = claims[i].parent
                                    /\ ContainsSpan(claims[p], claims[i])
                                    /\ Top(i) = Base(p)
        BY <1>1, <1>4, <2>3, <3>2, TopFacts
      <3>4. p \in Ids
        BY <1>1, <3>3, AcceptedFacts DEF Structures
      <3>5. Covers(p, b)
        BY <1>1, <1>2, <1>4, <3>3, <3>4 DEF ContainsSpan, Covers
      <3>6. m \in Structures
        BY <1>2, <2>3
      <3>7. Base(m) = Base(p)
        BY <1>1, <1>3, <3>3, <3>5, <3>6, OneRegion
      <3>8. QED
        BY <1>1, <2>3, <3>3, <3>7, TopFacts
    <2>4. QED
      BY <2>1, <2>2, <2>3
  <1>8. QED
    BY <1>4, <1>5, <1>6, <1>7

\* On a tie it is not the deepest: of a leaf and the parent it fills, the parent has
\* the smaller id and comes first.
TieGoesToTheParent ==
    result.kind = "Ok" /\ (\A b \in 0 .. elf.len - 1 : ~Shared(b))
        /\ (\A i \in Filler, j \in Ids : ~Crosses(i, j)) =>
        \A b \in 0 .. elf.len - 1 : \A i \in LeavesAt(F, b) :
            FillsItsParent(i) => InnermostAt(F, b) # i

THEOREM TiesHideTheLeaf == ParserSpec => []TieGoesToTheParent
  <1>1. ParserInv /\ TailInv /\ FillerInv => TieGoesToTheParent
    <2> SUFFICES ASSUME Plain, NEW b \in 0 .. elf.len - 1, NEW i \in LeavesAt(F, b),
                        FillsItsParent(i), InnermostAt(F, b) = i
                 PROVE  FALSE
      BY DEF TieGoesToTheParent, Plain
    <2>1. Ids \subseteq Nat /\ i \in Ids /\ Covers(i, b)
      BY AcceptedFacts DEF Plain
    <2>2. \A x \in Ids : /\ claims[x].start \in Nat /\ claims[x].len \in Nat
                        /\ SpanEnd(claims[x]) = claims[x].start + claims[x].len
      BY AcceptedFacts DEF Plain
    <2>3. PICK p : p = claims[i].parent
      OBVIOUS
    <2>4. p \in Ids /\ p < i
      <3>1. TypeOK /\ Forest /\ Len(claims) \in Nat
        BY DEF Plain, ParserInv, BuilderInv, TypeOK
      <3>2. p \in Nat /\ p # None
        BY <2>1, <2>3, <3>1, ClaimFacts DEF FillsItsParent
      <3>3. p < i
        BY <2>1, <2>3, <3>1, <3>2 DEF Forest
      <3>4. QED
        BY <2>1, <3>1, <3>2, <3>3 DEF Ids, None
    <2>5. SameSpan(i, p)
      BY <2>3 DEF FillsItsParent
    <2>6. claims[i].start = claims[p].start /\ SpanEnd(claims[i]) = SpanEnd(claims[p])
      BY <2>1, <2>2, <2>4, <2>5 DEF SameSpan
    <2>7. Covers(p, b)
      BY <2>1, <2>6 DEF Covers
    <2>8. Before(i, p)
      BY <2>4, <2>7, InnermostIsLeaf
    <2>9. PICK e : e = Extent(i)
      OBVIOUS
    <2>10. Extent(i) = e /\ Extent(p) = e /\ e \in Int
      BY <2>1, <2>2, <2>6, <2>9 DEF Extent
    <2>11. i <= p
      BY <2>8, <2>10 DEF Before
    <2>12. QED
      BY <2>1, <2>4, <2>11
  <1>2. QED
    BY <1>1, FillerAlways, PTL

\* Where the regions of an accepted file share no byte and no hole crosses the end of
\* a structure, the claim under the cursor is the byte's one leaf unless that fills
\* its parent, it always spans what the leaf spans, and a hole between structures is
\* said to lie between the two it touches.
THEOREM HoverAnswersTruly == ParserSpec => []HoverIsTheLeaf
  <1>1. ParserInv /\ TailInv /\ FillerInv => HoverIsTheLeaf
    <2> SUFFICES ASSUME Plain PROVE HoverIsTheLeaf!2
      BY DEF HoverIsTheLeaf, Plain
    <2>1. ASSUME NEW b \in 0 .. elf.len - 1, NEW i \in LeavesAt(F, b)
          PROVE  /\ SameSpan(InnermostAt(F, b), i)
                 /\ InnermostAt(F, b) = i \/ FillsItsParent(i)
      BY <2>1, InnermostIsLeaf, DeepestIsLeaf DEF SameSpan
    <2>2. /\ elf.len \in Nat
          /\ \A x \in Ids : /\ claims[x].start \in Nat /\ claims[x].len \in Nat \ {0}
                            /\ SpanEnd(claims[x]) \in Nat /\ SpanEnd(claims[x]) <= elf.len
                            /\ SpanEnd(claims[x]) = claims[x].start + claims[x].len
          /\ \A b : Covering(F, b) = {x \in Ids : Covers(x, b)}
          /\ \A b : LeavesAt(F, b) = {x \in Ids : IsLeaf(x) /\ Covers(x, b)}
          /\ \A b \in 0 .. elf.len - 1 : \E x \in Ids : LeavesAt(F, b) = {x}
      BY AcceptedFacts DEF Plain
    <2> DEFINE tops(b) == {Top(j) : j \in LeavesAt(F, b)}
    <2>3. ASSUME NEW b \in 0 .. elf.len - 1
          PROVE  {Neighbour(b)} \ {None} = tops(b)
      <3>1. PICK j \in Ids : LeavesAt(F, b) = {j}
        BY <2>2
      <3>2. tops(b) = {Top(j)}
        BY <3>1
      <3>3. Neighbour(b) = Top(j) /\ Top(j) # None
        BY <3>1, NeighbourIsTop
      <3>4. QED
        BY <3>2, <3>3
    <2>4. \A b \in Int : b = -1 \/ b = elf.len => \A x \in Ids : ~Covers(x, b)
      BY <2>2 DEF Covers
    <2>5. ASSUME NEW b \in Int, b = -1 \/ b = elf.len
          PROVE  tops(b) = {} /\ Neighbour(b) = None
      <3>1. LeavesAt(F, b) = {} /\ Covering(F, b) = {}
        BY <2>2, <2>4, <2>5
      <3>2. InnermostAt(F, b) = None
        BY <3>1 DEF InnermostAt
      <3>3. QED
        BY <3>1, <3>2 DEF Neighbour, F
    <2> HIDE DEF tops
    <2>6. ASSUME NEW i \in Filler \cap Roots
          PROVE  /\ {Context(i).after} \ {None} = tops(claims[i].start - 1)
                 /\ {Context(i).before} \ {None} = tops(SpanEnd(claims[i]))
      <3>1. i \in Ids /\ claims[i].parent = None
        BY DEF Filler, Roots
      <3>2. /\ Context(i).after = IF claims[i].start = 0 THEN None ELSE Neighbour(claims[i].start - 1)
            /\ Context(i).before = Neighbour(SpanEnd(claims[i]))
        BY <3>1 DEF Context
      <3>3. PICK lo \in Nat, hi \in Nat :
               /\ lo = claims[i].start /\ hi = SpanEnd(claims[i]) /\ lo < hi /\ hi <= elf.len
        BY <2>2, <3>1
      <3>4. {Context(i).after} \ {None} = tops(lo - 1)
        <4>1. CASE lo = 0
          <5>1. tops(-1) = {} /\ lo - 1 = -1
            BY <2>5, <4>1
          <5>2. QED
            BY <3>2, <3>3, <4>1, <5>1
        <4>2. CASE lo # 0
          <5>1. PICK b \in 0 .. elf.len - 1 : b = lo - 1
            BY <2>2, <3>3, <4>2
          <5>2. QED
            BY <2>3, <3>2, <3>3, <4>2, <5>1
        <4>3. QED
          BY <4>1, <4>2
      <3>5. {Context(i).before} \ {None} = tops(hi)
        <4>1. CASE hi = elf.len
          <5>1. tops(hi) = {} /\ Neighbour(hi) = None
            BY <2>5, <4>1
          <5>2. QED
            BY <3>2, <3>3, <5>1
        <4>2. CASE hi # elf.len
          <5>1. hi \in 0 .. elf.len - 1
            BY <2>2, <3>3, <4>2
          <5>2. QED
            BY <2>3, <3>2, <3>3, <5>1
        <4>3. QED
          BY <4>1, <4>2
      <3>6. QED
        BY <3>3, <3>4, <3>5
    <2>7. QED
      BY <2>1, <2>6 DEF tops
  <1>2. QED
    BY <1>1, FillerAlways, PTL

-----------------------------------------------------------------------------
(* Bands.                                                                  *)

\* The k-th leaf ends where the next one starts; the first one starts the file and
\* the last one ends it.
InLine(L, n) ==
    /\ \A k \in 1 .. n : L[k] \in LeafIds
    /\ claims[L[1]].start = 0
    /\ \A k \in 1 .. n - 1 : SpanEnd(claims[L[k]]) = claims[L[k + 1]].start
    /\ SpanEnd(claims[L[n]]) = files[F]

\* The leaves of an accepted file lie in line, as each byte has one of them.
LEMMA LeavesAreInLine ==
    ASSUME ParserInv, TailInv, FillerInv, result.kind = "Ok", files[F] > 0
    PROVE  \E n \in Nat \ {0} : DOMAIN LeavesInOrder = 1 .. n /\ InLine(LeavesInOrder, n)
  <1> DEFINE S == Leaves(F)
             key == [i \in S |-> claims[i].start]
             L == LeavesInOrder
             n == Cardinality(S)
  <1>1. /\ elf.len \in Nat \ {0} /\ files[F] = elf.len /\ claims \in Seq(Claim)
    <2>1. TypeOK /\ StepInv /\ result.kind = "Ok" => stage = "done"
      BY DEF ParserInv, BuilderInv, FinishInv
    <2>2. files[F] = elf.len
      BY <2>1 DEF ParserInv, StepInv, BuilderInv, FinishInv, Steps, FillStages
    <2>3. QED
      BY <2>1, <2>2, AcceptedFacts DEF ParserInv, BuilderInv, TypeOK
  <1>2. /\ \A i \in Ids : /\ claims[i].start \in Nat /\ claims[i].len \in Nat \ {0}
                          /\ SpanEnd(claims[i]) \in Nat /\ SpanEnd(claims[i]) <= elf.len
                          /\ SpanEnd(claims[i]) = claims[i].start + claims[i].len
                          /\ claims[i].file = F
        /\ \A b : LeavesAt(F, b) = {i \in Ids : IsLeaf(i) /\ Covers(i, b)}
        /\ \A b \in 0 .. elf.len - 1 : \E i \in Ids : LeavesAt(F, b) = {i}
    BY AcceptedFacts
  <1>3. S = LeafIds /\ S \subseteq Ids
    BY <1>2 DEF Leaves, LeafIds, IsEmpty
  <1>4. \A i, j \in S, b \in 0 .. elf.len - 1 : Covers(i, b) /\ Covers(j, b) => i = j
    BY <1>2, <1>3 DEF LeafIds
  <1>5. \A b \in 0 .. elf.len - 1 : \E i \in S : Covers(i, b)
    BY <1>2, <1>3 DEF LeafIds
  <1>6. PICK len \in Nat \ {0} : len = elf.len
    BY <1>1
  <1> HIDE DEF S
  \* What follows a leaf starts where it ends.
  <1>7. ASSUME NEW i \in S, NEW j \in S, claims[i].start < claims[j].start
        PROVE  SpanEnd(claims[i]) <= claims[j].start
    <2>1. PICK a \in Nat, b \in Nat, c \in Nat, d \in Nat :
             /\ a = claims[i].start /\ b = SpanEnd(claims[i])
             /\ c = claims[j].start /\ d = SpanEnd(claims[j])
             /\ a < b /\ c < d /\ d <= len
      <3>1. i \in Ids /\ j \in Ids
        BY <1>3
      <3>2. /\ claims[i].start \in Nat /\ SpanEnd(claims[i]) \in Nat
            /\ claims[j].start \in Nat /\ SpanEnd(claims[j]) \in Nat
            /\ claims[i].start < SpanEnd(claims[i]) /\ claims[j].start < SpanEnd(claims[j])
            /\ SpanEnd(claims[j]) <= len
        BY <1>2, <1>6, <3>1
      <3>3. QED
        BY <3>2
    <2>2. c < b => Covers(i, c) /\ Covers(j, c) /\ c \in 0 .. elf.len - 1
      BY <1>6, <1>7, <2>1 DEF Covers
    <2>3. ~(c < b)
      BY <1>4, <1>7, <2>1, <2>2
    <2>4. QED
      BY <2>1, <2>3
  <1>8. ASSUME NEW i \in S, SpanEnd(claims[i]) # len
        PROVE  \E j \in S : claims[j].start = SpanEnd(claims[i])
    <2>1. PICK a \in Nat, b \in Nat :
             a = claims[i].start /\ b = SpanEnd(claims[i]) /\ a < b /\ b < len
      <3>1. i \in Ids
        BY <1>3
      <3>2. QED
        BY <1>2, <1>6, <1>8, <3>1
    <2>2. b \in 0 .. elf.len - 1 /\ b - 1 \in 0 .. elf.len - 1
      BY <1>6, <2>1
    <2>3. PICK j \in S : Covers(j, b)
      BY <1>5, <2>2
    <2>4. PICK c \in Nat, d \in Nat :
             c = claims[j].start /\ d = SpanEnd(claims[j]) /\ c <= b /\ b < d
      <3>1. j \in Ids
        BY <1>3
      <3>2. QED
        BY <1>2, <2>3, <3>1 DEF Covers
    <2>5. c # b => Covers(i, b - 1) /\ Covers(j, b - 1)
      BY <2>1, <2>4 DEF Covers
    <2>6. c = b
      BY <1>4, <2>1, <2>2, <2>4, <2>5
    <2>7. QED
      BY <2>1, <2>4, <2>6
  <1>9. \E j \in S : claims[j].start = 0
    <2>1. 0 \in 0 .. elf.len - 1
      BY <1>1
    <2>2. PICK j \in S : Covers(j, 0)
      BY <1>5, <2>1
    <2>3. j \in Ids
      BY <1>3
    <2>4. QED
      BY <1>2, <2>2, <2>3 DEF Covers
  \* The k-th leaf has k - 1 leaves before it.
  <1>10. IsFiniteSet(S)
    <2>1. PICK m \in Nat : m = Len(claims)
      BY <1>1
    <2>2. IsFiniteSet(Ids)
      BY <1>1, <2>1, FS_Interval DEF Ids
    <2>3. QED
      BY <1>3, <2>2, FS_Subset
  <1>11. key \in [S -> Nat] /\ \A i, j \in S : key[i] = key[j] => i = j
    <2>1. \A i \in S : claims[i].start \in Nat
      BY <1>2, <1>3
    <2>2. ASSUME NEW i \in S, NEW j \in S, claims[i].start = claims[j].start
          PROVE  i = j
      <3>1. PICK b \in Nat : b = claims[i].start
        BY <2>1
      <3>2. i \in Ids /\ j \in Ids
        BY <1>3
      <3>3. Covers(i, b) /\ Covers(j, b) /\ b \in 0 .. elf.len - 1
        BY <1>2, <1>6, <2>2, <3>1, <3>2 DEF Covers
      <3>4. QED
        BY <1>4, <3>3
    <2>3. QED
      BY <2>1, <2>2
  <1>12. \A i \in S : Earlier(S, key, i) = {j \in S : claims[j].start < claims[i].start}
    BY DEF Earlier
  <1>13. \A i \in S : key[i] = claims[i].start
    OBVIOUS
  <1> HIDE DEF key
  <1>14. PICK rank : /\ rank = [i \in S |-> Cardinality(Earlier(S, key, i))]
    OBVIOUS
  <1>15. /\ n \in Nat
         /\ \A i \in S : rank[i] \in 0 .. n - 1
         /\ \A i, j \in S : claims[i].start < claims[j].start => rank[i] < rank[j]
         /\ \A k \in 1 .. n : \E i \in S : rank[i] = k - 1
    <2>1. /\ n \in Nat
          /\ \A b \in S : Cardinality(Earlier(S, key, b)) \in 0 .. n - 1
          /\ \A a, b \in S : key[a] < key[b] =>
                Cardinality(Earlier(S, key, a)) < Cardinality(Earlier(S, key, b))
          /\ \A k \in 1 .. n : \E b \in S : Cardinality(Earlier(S, key, b)) = k - 1
      BY <1>10, <1>11, RankFacts
    <2>2. \A i \in S : rank[i] = Cardinality(Earlier(S, key, i))
      BY <1>14
    <2> HIDE DEF n
    <2>3. QED
      BY <1>13, <2>1, <2>2
  <1>16. /\ DOMAIN L = 1 .. n
         /\ \A k \in 1 .. n : L[k] = CHOOSE i \in S : rank[i] = k - 1
    <2>1. \A i \in S : rank[i] = Cardinality({j \in S : claims[j].start < claims[i].start})
      BY <1>12, <1>14
    <2>2. \A k : (CHOOSE i \in S : rank[i] = k - 1)
                   = CHOOSE i \in S : Cardinality({j \in S : claims[j].start < claims[i].start}) = k - 1
      BY <2>1
    <2>3. QED
      BY <2>2 DEF LeavesInOrder, S, F
  <1> HIDE DEF n, L
  <1>17. \A k \in 1 .. n : L[k] \in S /\ rank[L[k]] = k - 1
    BY <1>15, <1>16
  \* Where the k-th leaf starts grows with k, and leaves out none.
  <1>18. \A i \in S : claims[i].start \in Nat /\ SpanEnd(claims[i]) \in Nat
                      /\ claims[i].start < SpanEnd(claims[i]) /\ SpanEnd(claims[i]) <= len
    BY <1>2, <1>3, <1>6
  <1>19. \A k, m \in 1 .. n : k < m => claims[L[k]].start < claims[L[m]].start
    <2> SUFFICES ASSUME NEW k \in 1 .. n, NEW m \in 1 .. n, k < m,
                        ~(claims[L[k]].start < claims[L[m]].start)
                 PROVE  FALSE
      OBVIOUS
    <2>1. L[k] \in S /\ L[m] \in S /\ rank[L[k]] = k - 1 /\ rank[L[m]] = m - 1
      BY <1>17
    <2>2. PICK x \in Nat, y \in Nat : x = claims[L[k]].start /\ y = claims[L[m]].start
      BY <1>18, <2>1
    <2>3. x = y \/ y < x
      BY <2>2
    <2>4. x # y
      <3>1. L[k] = L[m] => k - 1 = m - 1
        BY <2>1
      <3>2. L[k] # L[m]
        BY <1>15, <3>1
      <3>3. QED
        BY <1>11, <1>13, <2>1, <2>2, <3>2
    <2>5. rank[L[m]] < rank[L[k]]
      BY <1>15, <2>1, <2>2, <2>3, <2>4
    <2>6. QED
      BY <1>15, <2>1, <2>5
  <1>20. \A i \in S : \E k \in 1 .. n : L[k] = i
    <2> TAKE i \in S
    <2>1. PICK r \in 0 .. n - 1 : r = rank[i]
      BY <1>15
    <2>2. PICK k \in 1 .. n : k - 1 = r
      <3>1. r + 1 \in 1 .. n /\ (r + 1) - 1 = r
        BY <1>15, <2>1
      <3>2. QED
        BY <3>1
    <2>3. L[k] \in S /\ rank[L[k]] = rank[i]
      BY <1>17, <2>1, <2>2
    <2>4. PICK x \in Nat, y \in Nat : x = claims[L[k]].start /\ y = claims[i].start
      BY <1>18, <2>3
    <2>5. ~(x < y) /\ ~(y < x)
      <3>1. ~(r < r)
        BY <2>1
      <3>2. QED
        BY <1>15, <2>1, <2>3, <2>4, <3>1
    <2>6. QED
      BY <1>11, <1>13, <2>3, <2>4, <2>5
  <1>21. n \in Nat \ {0}
    <2>1. PICK k \in 1 .. n : TRUE
      BY <1>9, <1>20
    <2>2. QED
      BY <1>15, <2>1
  <1>22. claims[L[1]].start = 0
    <2>1. PICK k \in 1 .. n : claims[L[k]].start = 0
      BY <1>9, <1>20
    <2>2. 1 \in 1 .. n /\ (k = 1 \/ 1 < k)
      BY <1>21, <2>1
    <2>3. claims[L[1]].start \in Nat
      BY <1>17, <1>18, <2>2
    <2>4. QED
      BY <1>19, <2>1, <2>2, <2>3
  <1>23. ASSUME NEW k \in 1 .. n - 1
         PROVE  SpanEnd(claims[L[k]]) = claims[L[k + 1]].start
    <2>1. k \in 1 .. n /\ k + 1 \in 1 .. n /\ k < k + 1
      BY <1>21
    <2>2. PICK e \in Nat, s \in Nat, z \in Nat :
             /\ e = SpanEnd(claims[L[k]]) /\ s = claims[L[k + 1]].start
             /\ z = SpanEnd(claims[L[k + 1]])
      BY <1>17, <1>18, <2>1
    <2>3. e <= s /\ s < z /\ z <= len
      BY <1>7, <1>17, <1>18, <1>19, <2>1, <2>2
    <2>4. PICK m \in 1 .. n : claims[L[m]].start = e
      <3>1. e # len
        BY <2>3
      <3>2. QED
        BY <1>8, <1>17, <1>20, <2>1, <2>2, <3>1
    <2>5. ~(m <= k)
      <3> SUFFICES ASSUME m <= k PROVE FALSE
        OBVIOUS
      <3>1. claims[L[k]].start < e /\ claims[L[k]].start \in Nat
        BY <1>17, <1>18, <2>1, <2>2
      <3>2. m = k \/ m < k
        BY <2>1
      <3>3. m < k => e < claims[L[k]].start
        BY <1>19, <2>1, <2>4
      <3>4. QED
        BY <2>4, <3>1, <3>2, <3>3
    <2>6. m = k + 1 \/ k + 1 < m
      BY <2>1, <2>5
    <2>7. k + 1 < m => s < e
      BY <1>19, <2>1, <2>2, <2>4
    <2>8. QED
      BY <2>2, <2>3, <2>4, <2>6, <2>7
  <1>24. SpanEnd(claims[L[n]]) = len
    <2> SUFFICES ASSUME SpanEnd(claims[L[n]]) # len PROVE FALSE
      OBVIOUS
    <2>1. n \in 1 .. n /\ L[n] \in S
      BY <1>17, <1>21
    <2>2. PICK m \in 1 .. n : claims[L[m]].start = SpanEnd(claims[L[n]])
      BY <1>8, <1>20, <2>1
    <2>3. PICK a \in Nat, b \in Nat :
             a = claims[L[n]].start /\ b = claims[L[m]].start /\ a < b
      BY <1>18, <2>1, <2>2
    <2>4. m = n \/ m < n
      BY <1>21
    <2>5. m < n => b < a
      BY <1>19, <2>1, <2>3
    <2>6. QED
      BY <2>3, <2>4, <2>5
  <1>25. InLine(L, n)
    BY <1>1, <1>3, <1>6, <1>17, <1>22, <1>23, <1>24 DEF InLine
  <1>26. QED
    BY <1>16, <1>21, <1>25 DEF L

\* What the bands are folded from.
OneBand == [top : Ids, start : Nat, len : Nat]
Joining(L, g, s) == IF s = {} THEN <<>> ELSE Join(g[s \ {FX!Max(s)}], L[FX!Max(s)])

\* Joining a leaf to bands makes bands.
LEMMA JoinIsBands ==
    ASSUME NEW B \in Seq(OneBand), NEW i \in Ids, Top(i) \in Ids,
           claims[i].start \in Nat, claims[i].len \in Nat
    PROVE  Join(B, i) \in Seq(OneBand)
  <1>1. Band(i) \in OneBand
    BY DEF Band, OneBand
  <1>2. CASE B # <<>> /\ Extends(SX!Last(B), i)
    <2>1. PICK m \in Nat \ {0} : m = Len(B)
      BY <1>2
    <2>2. PICK r \in OneBand : r = SX!Last(B) /\ r = B[m]
      BY <2>1 DEF SX!Last
    <2>3. SatAdd(r.len, claims[i].len) \in Nat
      <3>1. PICK a \in Nat, b \in Nat : a = r.len /\ b = claims[i].len
        BY <2>2 DEF OneBand
      <3>2. SatAdd(a, b) \in Nat
        BY MaxU64Assumption DEF SatAdd
      <3>3. QED
        BY <3>1, <3>2
    <2>4. PICK e \in OneBand : e = [r EXCEPT !.len = SatAdd(@, claims[i].len)]
      BY <2>3 DEF OneBand
    <2>5. SX!Front(B) \in Seq(OneBand)
      BY <2>1 DEF SX!Front
    <2>6. Join(B, i) = SX!Front(B) \o <<e>>
      BY <1>2, <2>2, <2>4 DEF Join
    <2>7. QED
      BY <2>5, <2>6
  <1>3. CASE ~(B # <<>> /\ Extends(SX!Last(B), i))
    BY <1>1, <1>3 DEF Join
  <1>4. QED
    BY <1>2, <1>3

\* The bands are made leaf by leaf.
LEMMA BandsLeafByLeaf ==
    ASSUME NEW n \in Nat, DOMAIN LeavesInOrder = 1 .. n,
           \A k \in 1 .. n : LeavesInOrder[k] \in Ids,
           \A i \in Ids : Top(i) \in Ids /\ claims[i].start \in Nat /\ claims[i].len \in Nat
    PROVE  \E h : /\ h[0] = <<>> /\ h[n] = Bands
                  /\ \A k \in 1 .. n : h[k] = Join(h[k - 1], LeavesInOrder[k])
  <1> DEFINE L == LeavesInOrder
             D == 1 .. n
             next(g, s) == IF s = {} THEN <<>>
                           ELSE LET x == SX!Max(s) IN Join(g[s \ {x}], L[x])
             iter == CHOOSE g : g = [s \in SUBSET D |-> next(g, s)]
  <1>1. Bands = iter[D]
    <2>1. Bands = SX!FoldLeft(Join, <<>>, L)
      BY Zenon DEF Bands
    <2> HIDE DEF L
    <2>2. D = DOMAIN L
      BY DEF L
    <2> HIDE DEF D
    <2>3. SX!FoldLeft(Join, <<>>, L) = (CHOOSE g : g = [s \in SUBSET (DOMAIN L) |-> next(g, s)])[DOMAIN L]
      BY Zenon DEF SX!FoldLeft, SX!MapThenFoldSet
    <2>4. QED
      BY <2>1, <2>2, <2>3, Zenon
  <1>2. \A g, s : next(g, s) = Joining(L, g, s)
    <2>1. \A s : SX!Max(s) = FX!Max(s)
      BY Zenon DEF SX!Max, FX!Max
    <2> HIDE DEF L
    <2>2. QED
      BY <2>1, Zenon DEF Joining
  <1>3. \A k \in 1 .. n : L[k] \in Ids
    OBVIOUS
  <1> HIDE DEF L, next
  <1>4. \E g : g = [s \in SUBSET D |-> next(g, s)]
    <2>1. PICK V, c, op : /\ V = Seq(OneBand)
                          /\ c = [s \in SUBSET D |-> FX!Max(s)]
                          /\ op = [p \in D \X V |-> Join(p[2], L[p[1]])]
      OBVIOUS
    <2>2. op \in [D \X V -> V]
      <3>1. ASSUME NEW B \in Seq(OneBand), NEW k \in D
            PROVE  Join(B, L[k]) \in Seq(OneBand)
        BY <1>3, JoinIsBands
      <3>2. QED
        BY <2>1, <3>1
    <2>3. ASSUME NEW s \in SUBSET D, s # {}
          PROVE  FX!Max(s) \in s /\ c[s] = FX!Max(s)
      BY <2>1, <2>3, GreatestFacts
    <2>4. PICK g : TakesOut(g, D, V, <<>>, c, op)
      <3>1. PICK base : base = <<>> /\ base \in V
        <4>1. <<>> \in Seq(OneBand)
          OBVIOUS
        <4>2. QED
          BY <2>1, <4>1
      <3>2. Chooses(c, D)
        BY <2>3 DEF Chooses
      <3>3. PICK S : S = D /\ IsFiniteSet(S)
        BY FS_Interval
      <3>4. op \in [S \X V -> V] /\ Chooses(c, S)
        BY <2>2, <3>2, <3>3
      <3>5. PICK g : TakesOut(g, S, V, base, c, op)
        <4> HIDE DEF D
        <4>1. QED
          BY <3>1, <3>3, <3>4, FoldExists
      <3>6. QED
        BY <3>1, <3>3, <3>5
    <2>5. ASSUME NEW s \in SUBSET D
          PROVE  g[s] = next(g, s)
      <3>1. CASE s = {}
        BY <1>2, <2>4, <3>1 DEF TakesOut, TakeOut, Joining
      <3>2. CASE s # {}
        <4>1. PICK x \in D, r \in SUBSET D : x = FX!Max(s) /\ r = s \ {FX!Max(s)} /\ c[s] = x
          BY <2>3, <3>2
        <4>2. g[r] \in V
          BY <2>4 DEF TakesOut
        <4>3. op[<<x, g[r]>>] = Join(g[r], L[x])
          BY <2>1, <4>2
        <4>4. g[s] = op[<<x, g[r]>>]
          BY <2>4, <3>2, <4>1 DEF TakesOut, TakeOut
        <4>5. next(g, s) = Join(g[r], L[x])
          BY <1>2, <3>2, <4>1 DEF Joining
        <4>6. QED
          BY <4>3, <4>4, <4>5
      <3>3. QED
        BY <3>1, <3>2
    <2>6. g = [s \in SUBSET D |-> next(g, s)]
      BY <2>4, <2>5 DEF TakesOut
    <2>7. QED
      BY <2>6
  <1>5. iter = [s \in SUBSET D |-> next(iter, s)]
    BY <1>4, Zenon
  <1> HIDE DEF iter
  <1>6. \A s \in SUBSET D : iter[s] = Joining(L, iter, s)
    BY <1>2, <1>5
  <1> DEFINE h == [k \in 0 .. n |-> iter[1 .. k]]
  <1>7. h[0] = <<>>
    <2>1. 1 .. 0 = {} /\ {} \in SUBSET D
      OBVIOUS
    <2>2. iter[{}] = <<>>
      BY <1>6, <2>1 DEF Joining
    <2>3. QED
      BY <2>1, <2>2
  <1>8. ASSUME NEW k \in 1 .. n
        PROVE  h[k] = Join(h[k - 1], L[k])
    <2>1. 1 .. k \in SUBSET D /\ k \in 1 .. k
      OBVIOUS
    <2>2. (1 .. k) \ {k} = 1 .. (k - 1)
      <3>1. \A x \in Int : x <= k /\ x # k <=> x <= k - 1
        OBVIOUS
      <3>2. QED
        BY <3>1
    <2>3. FX!Max(1 .. k) = k
      <3>1. PICK S \in SUBSET (1 .. n) : S = 1 .. k
        BY <2>1
      <3>2. k \in S /\ \A x \in S : x <= k
        BY <3>1
      <3>3. FX!Max(S) = k
        BY <3>2, GreatestIs
      <3>4. QED
        BY <3>1, <3>3
    <2>4. 1 .. k # {}
      BY <2>1
    <2>5. iter[1 .. k] = Join(iter[1 .. (k - 1)], L[k])
      BY <1>6, <2>1, <2>2, <2>3, <2>4 DEF Joining
    <2>6. h[k] = iter[1 .. k] /\ h[k - 1] = iter[1 .. (k - 1)]
      OBVIOUS
    <2>7. QED
      BY <2>5, <2>6
  <1>9. h[n] = Bands
    BY <1>1
  <1>10. QED
    <2> HIDE DEF h
    <2>1. QED
      BY <1>7, <1>8, <1>9 DEF L

\* Bands that follow one another from the first byte of the file to e, the last of
\* them of structure t.
TileTo(B, e, t) ==
    /\ B \in Seq(OneBand) /\ Len(B) \in Nat \ {0}
    /\ \A m \in 1 .. Len(B) : B[m].start + B[m].len <= elf.len
    /\ B[1].start = 0
    /\ \A m \in 1 .. Len(B) - 1 :
          B[m].start + B[m].len = B[m + 1].start /\ B[m].top # B[m + 1].top
    /\ B[Len(B)].start + B[Len(B)].len = e /\ B[Len(B)].top = t

\* A leaf that starts where the bands end is joined to the last one or follows it.
LEMMA JoinTiles ==
    ASSUME NEW e \in Nat, NEW t, NEW B, TileTo(B, e, t) \/ (B = <<>> /\ e = 0),
           NEW i \in Ids, Top(i) \in Ids, NEW l \in Nat, elf.len \in U64,
           claims[i].start = e, claims[i].len = l, e + l <= elf.len
    PROVE  TileTo(Join(B, i), e + l, Top(i))
  <1>1. PICK z \in Nat : z = elf.len /\ z <= MaxU64 /\ MaxU64 \in Nat
    <2>1. elf.len \in Nat /\ elf.len <= MaxU64 /\ MaxU64 \in Nat
      BY MaxU64Assumption DEF U64
    <2>2. QED
      BY <2>1
  <1>2. Band(i) = [top |-> Top(i), start |-> e, len |-> l] /\ Band(i) \in OneBand
    BY DEF Band, OneBand
  <1>3. CASE B = <<>>
    <2>1. e = 0
      BY <1>3 DEF TileTo
    <2>2. Join(B, i) = <<Band(i)>>
      BY <1>3 DEF Join
    <2>3. QED
      BY <1>2, <2>1, <2>2 DEF TileTo
  <1>4. CASE B # <<>>
    <2>1. TileTo(B, e, t)
      BY <1>4
    <2>2. PICK m \in Nat \ {0} : m = Len(B)
      BY <2>1 DEF TileTo
    <2>3. PICK r \in OneBand, a \in Nat, b \in Nat :
             /\ r = B[m] /\ r = SX!Last(B) /\ a = r.start /\ b = r.len
             /\ a + b = e /\ r.top = t
      <3>1. B[m] \in OneBand /\ B[m] = SX!Last(B) /\ B[m].start + B[m].len = e /\ B[m].top = t
        BY <2>1, <2>2 DEF TileTo, SX!Last
      <3>2. B[m].start \in Nat /\ B[m].len \in Nat
        BY <3>1 DEF OneBand
      <3>3. QED
        BY <3>1, <3>2
    <2>4. BandEnd(r) = e
      BY <1>1, <2>3 DEF BandEnd, SatAdd
    <2>5. Extends(r, i) <=> t = Top(i)
      BY <2>3, <2>4 DEF Extends
    <2>6. CASE t = Top(i)
      <3>1. PICK q \in OneBand : q = [r EXCEPT !.len = SatAdd(@, claims[i].len)]
                                 /\ q.start = a /\ q.len = b + l /\ q.top = t
        <4>1. b + l <= MaxU64 /\ b + l \in Nat
          <5>1. b <= e
            BY <2>3
          <5>2. b + l <= e + l /\ e + l <= z
            BY <1>1, <5>1
          <5>3. QED
            BY <1>1, <5>2
        <4>2. SatAdd(b, l) = b + l
          BY <1>1, <4>1 DEF SatAdd
        <4>3. PICK q : q = [r EXCEPT !.len = b + l]
          OBVIOUS
        <4>4. q = [r EXCEPT !.len = SatAdd(@, claims[i].len)]
          BY <2>3, <4>2, <4>3
        <4>5. q \in OneBand /\ q.start = a /\ q.len = b + l /\ q.top = t
          BY <2>3, <4>1, <4>3 DEF OneBand
        <4>6. QED
          BY <4>4, <4>5
      <3>2. PICK C : C = Join(B, i)
        OBVIOUS
      <3>3. C = SX!Front(B) \o <<q>>
        BY <1>4, <2>3, <2>5, <2>6, <3>1, <3>2 DEF Join
      <3>4. /\ C \in Seq(OneBand) /\ Len(C) = m /\ C[m] = q
            /\ \A k \in 1 .. m - 1 : C[k] = B[k]
        <4>1. B \in Seq(OneBand)
          BY <2>1 DEF TileTo
        <4>2. /\ SX!Front(B) \in Seq(OneBand) /\ Len(SX!Front(B)) = m - 1
              /\ \A k \in 1 .. m - 1 : SX!Front(B)[k] = B[k]
          BY <2>2, <4>1 DEF SX!Front
        <4>3. QED
          BY <3>3, <4>2
      <3>5. \A k \in 1 .. m : C[k].start = B[k].start /\ C[k].top = B[k].top
        <4> TAKE k \in 1 .. m
        <4>1. k = m \/ k \in 1 .. m - 1
          OBVIOUS
        <4>2. QED
          BY <2>3, <3>1, <3>4, <4>1
      <3>6. \A k \in 1 .. m : C[k].start + C[k].len <= elf.len
        <4> TAKE k \in 1 .. m
        <4>1. a + (b + l) = e + l
          <5>1. a + (b + l) = (a + b) + l
            OBVIOUS
          <5>2. QED
            BY <2>3, <5>1
        <4>2. k = m \/ k \in 1 .. m - 1
          OBVIOUS
        <4>3. B[k].start + B[k].len <= elf.len
          BY <2>1, <2>2 DEF TileTo
        <4>4. QED
          BY <3>1, <3>4, <4>1, <4>2, <4>3
      <3>7. C[1].start = 0
        BY <2>1, <3>5 DEF TileTo
      <3>8. ASSUME NEW k \in 1 .. m - 1
            PROVE  C[k].start + C[k].len = C[k + 1].start /\ C[k].top # C[k + 1].top
        <4>1. k \in 1 .. m /\ k + 1 \in 1 .. m /\ C[k] = B[k]
          BY <3>4
        <4>2. B[k].start + B[k].len = B[k + 1].start /\ B[k].top # B[k + 1].top
          BY <2>1, <2>2 DEF TileTo
        <4>3. QED
          BY <3>5, <4>1, <4>2
      <3>9. C[m].start + C[m].len = e + l /\ C[m].top = Top(i)
        BY <2>3, <2>6, <3>1, <3>4
      <3>10. QED
        BY <2>2, <3>2, <3>4, <3>6, <3>7, <3>8, <3>9 DEF TileTo
    <2>7. CASE t # Top(i)
      <3>1. PICK q \in OneBand : q = Band(i) /\ q.start = e /\ q.len = l /\ q.top = Top(i)
        BY <1>2
      <3>2. PICK C : C = Join(B, i)
        OBVIOUS
      <3>3. C = Append(B, q)
        BY <2>3, <2>5, <2>7, <3>1, <3>2 DEF Join
      <3>4. /\ C \in Seq(OneBand) /\ Len(C) = m + 1 /\ C[m + 1] = q
            /\ \A k \in 1 .. m : C[k] = B[k]
        BY <2>1, <2>2, <3>1, <3>3 DEF TileTo
      <3>5. \A k \in 1 .. m + 1 : C[k].start + C[k].len <= elf.len
        <4> TAKE k \in 1 .. m + 1
        <4>1. k = m + 1 \/ k \in 1 .. m
          OBVIOUS
        <4>2. QED
          BY <2>1, <2>2, <3>1, <3>4, <4>1 DEF TileTo
      <3>6. C[1].start = 0
        BY <2>1, <2>2, <3>4 DEF TileTo
      <3>7. ASSUME NEW k \in 1 .. m
            PROVE  C[k].start + C[k].len = C[k + 1].start /\ C[k].top # C[k + 1].top
        <4>1. CASE k = m
          BY <2>3, <2>7, <3>1, <3>4, <4>1
        <4>2. CASE k # m
          <5>1. k \in 1 .. m - 1 /\ k + 1 \in 1 .. m
            BY <4>2
          <5>2. B[k].start + B[k].len = B[k + 1].start /\ B[k].top # B[k + 1].top
            BY <2>1, <2>2, <5>1 DEF TileTo
          <5>3. QED
            BY <3>4, <5>1, <5>2
        <4>3. QED
          BY <4>1, <4>2
      <3>8. (m + 1) - 1 = m /\ m + 1 \in Nat \ {0}
        OBVIOUS
      <3>9. QED
        BY <3>1, <3>2, <3>4, <3>5, <3>6, <3>7, <3>8 DEF TileTo
    <2>8. QED
      BY <2>6, <2>7
  <1>5. QED
    BY <1>3, <1>4

\* The bands of an accepted file follow one another without a gap from its first
\* byte to its last, and two that touch belong to different structures.
THEOREM BandsTileTheFile == ParserSpec => []BandsTile
  <1>1. ParserInv /\ TailInv /\ FillerInv => BandsTile
    <2> SUFFICES ASSUME ParserInv, TailInv, FillerInv, result.kind = "Ok", files[F] > 0
                 PROVE  LET bands == Bands
                        IN  /\ Head(bands).start = 0
                            /\ BandEnd(SX!Last(bands)) = files[F]
                            /\ \A k \in 1 .. Len(bands) - 1 :
                                  /\ BandEnd(bands[k]) = bands[k + 1].start
                                  /\ bands[k].top # bands[k + 1].top
      BY DEF BandsTile, F
    <2>1. /\ elf.len \in U64 /\ files[F] = elf.len
          /\ \A i \in Ids : /\ claims[i].start \in Nat /\ claims[i].len \in Nat
                            /\ SpanEnd(claims[i]) = claims[i].start + claims[i].len
                            /\ SpanEnd(claims[i]) \in Nat /\ SpanEnd(claims[i]) <= elf.len
                            /\ Top(i) \in Ids
      <3>1. elf.len \in U64 /\ (stage = "done" => files[F] = elf.len)
        BY CountFacts DEF ParserInv, StepInv, BuilderInv, FinishInv, Steps, FillStages
      <3>2. stage = "done"
        BY DEF ParserInv, BuilderInv, FinishInv
      <3>3. QED
        BY <3>1, <3>2, AcceptedFacts, TopFacts
    <2>2. PICK n \in Nat \ {0} : DOMAIN LeavesInOrder = 1 .. n /\ InLine(LeavesInOrder, n)
      BY LeavesAreInLine
    <2>3. PICK L : L = LeavesInOrder
      OBVIOUS
    <2>4. /\ \A k \in 1 .. n : L[k] \in Ids
          /\ claims[L[1]].start = 0
          /\ \A k \in 1 .. n - 1 : SpanEnd(claims[L[k]]) = claims[L[k + 1]].start
          /\ SpanEnd(claims[L[n]]) = elf.len
      BY <2>1, <2>2, <2>3 DEF InLine, LeafIds
    <2>5. PICK h : /\ h[0] = <<>> /\ h[n] = Bands
                   /\ \A k \in 1 .. n : h[k] = Join(h[k - 1], L[k])
      <3>1. \A k \in 1 .. n : LeavesInOrder[k] \in Ids
        BY <2>3, <2>4
      <3>2. \A i \in Ids : Top(i) \in Ids /\ claims[i].start \in Nat /\ claims[i].len \in Nat
        BY <2>1
      <3>3. n \in Nat /\ DOMAIN LeavesInOrder = 1 .. n
        BY <2>2
      <3>4. PICK h : /\ h[0] = <<>> /\ h[n] = Bands
                     /\ \A k \in 1 .. n : h[k] = Join(h[k - 1], LeavesInOrder[k])
        BY <3>1, <3>2, <3>3, BandsLeafByLeaf
      <3>5. QED
        BY <2>3, <3>4
    <2> DEFINE Good(k) == TileTo(h[k], SpanEnd(claims[L[k]]), Top(L[k]))
               bad == {k \in 1 .. n : ~Good(k)}
    <2>6. Good(1)
      <3>1. PICK i \in Ids : i = L[1]
        BY <2>2, <2>4
      <3>2. PICK l \in Nat : l = claims[i].len /\ SpanEnd(claims[i]) = 0 + l /\ 0 + l <= elf.len
        BY <2>1, <2>4, <3>1
      <3>3. TileTo(Join(<<>>, i), 0 + l, Top(i))
        BY <2>1, <2>4, <3>1, <3>2, JoinTiles
      <3>4. h[1] = Join(<<>>, i)
        <4>1. 1 \in 1 .. n /\ 1 - 1 = 0
          BY <2>2
        <4>2. QED
          BY <2>5, <3>1, <4>1
      <3>5. QED
        BY <3>1, <3>2, <3>3, <3>4
    <2>7. ASSUME NEW k \in 1 .. n - 1, Good(k)
          PROVE  Good(k + 1)
      <3>1. PICK i \in Ids, j \in Ids : i = L[k + 1] /\ j = L[k]
        BY <2>4
      <3>2. PICK e \in Nat, l \in Nat :
               /\ e = SpanEnd(claims[j]) /\ e = claims[i].start /\ l = claims[i].len
               /\ SpanEnd(claims[i]) = e + l /\ e + l <= elf.len
        BY <2>1, <2>4, <3>1
      <3>3. PICK B : B = h[k] /\ TileTo(B, e, Top(j))
        BY <2>7, <3>1, <3>2
      <3>4. TileTo(Join(B, i), e + l, Top(i))
        BY <2>1, <3>2, <3>3, JoinTiles
      <3>5. h[k + 1] = Join(B, i)
        <4>1. k + 1 \in 1 .. n /\ (k + 1) - 1 = k
          OBVIOUS
        <4>2. QED
          BY <2>5, <3>1, <3>3, <4>1
      <3>6. QED
        BY <3>1, <3>2, <3>4, <3>5
    <2> HIDE DEF Good
    <2>8. bad = {}
      <3> SUFFICES ASSUME bad # {} PROVE FALSE
        OBVIOUS
      <3>1. bad \in SUBSET Nat
        OBVIOUS
      <3>2. PICK k \in bad : \A m \in bad : k <= m
        <4> HIDE DEF bad
        <4>1. QED
          BY <3>1, LeastOf
      <3>3. k \in 1 .. n /\ ~Good(k)
        OBVIOUS
      <3>4. k # 1
        BY <2>6, <3>3
      <3>5. PICK m \in 1 .. n - 1 : k = m + 1
        <4>1. k - 1 \in 1 .. n - 1 /\ k = (k - 1) + 1
          BY <3>3, <3>4
        <4>2. QED
          BY <4>1
      <3>6. m \notin bad /\ m \in 1 .. n
        BY <3>2, <3>5
      <3>7. QED
        BY <2>7, <3>3, <3>5, <3>6
    <2>9. TileTo(Bands, elf.len, Top(L[n]))
      <3>1. Good(n)
        BY <2>2, <2>8
      <3>2. QED
        BY <2>4, <2>5, <3>1 DEF Good
    <2>10. PICK B : B = Bands /\ TileTo(B, elf.len, Top(L[n]))
      BY <2>9
    <2>11. \A k \in 1 .. Len(B) : BandEnd(B[k]) = B[k].start + B[k].len
      <3> TAKE k \in 1 .. Len(B)
      <3>1. PICK a \in Nat, b \in Nat : a = B[k].start /\ b = B[k].len /\ a + b <= elf.len
        <4>1. B[k] \in OneBand /\ B[k].start + B[k].len <= elf.len
          BY <2>10 DEF TileTo
        <4>2. B[k].start \in Nat /\ B[k].len \in Nat
          BY <4>1 DEF OneBand
        <4>3. QED
          BY <4>1, <4>2
      <3>2. ~(a + b > MaxU64)
        BY <2>1, <3>1, SizeFacts DEF U64
      <3>3. QED
        BY <3>1, <3>2 DEF BandEnd, SatAdd
    <2>12. Head(B).start = 0
      BY <2>10 DEF TileTo
    <2>13. BandEnd(SX!Last(B)) = files[F]
      <3>1. Len(B) \in 1 .. Len(B)
        BY <2>10 DEF TileTo
      <3>2. QED
        BY <2>1, <2>10, <2>11, <3>1 DEF TileTo, SX!Last
    <2>14. ASSUME NEW k \in 1 .. Len(B) - 1
           PROVE  BandEnd(B[k]) = B[k + 1].start /\ B[k].top # B[k + 1].top
      <3>1. k \in 1 .. Len(B)
        BY <2>10 DEF TileTo
      <3>2. QED
        BY <2>10, <2>11, <3>1 DEF TileTo
    <2>15. QED
      BY <2>10, <2>12, <2>13, <2>14
  <1>2. QED
    BY <1>1, FillerAlways, PTL
=============================================================================
