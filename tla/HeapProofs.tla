----------------------------- MODULE HeapProofs -----------------------------
(***************************************************************************)
(* The persistent heaps, for every size, limit, number of blocks and       *)
(* history of requests.                                                    *)
(*                                                                         *)
(* Sums over functions are folds.  SumIsCount says that a sum is the       *)
(* number of elements of a set, in whatever order the fold adds up, and    *)
(* from there on the sums of the model are reasoned about as sets.         *)
(***************************************************************************)
EXTENDS Heap, FiniteSetTheorems, WellFoundedInduction, TLAPS

-----------------------------------------------------------------------------
(* Sums.                                                                   *)

LEMMA SmallestSubset ==
  ASSUME NEW S, IsFiniteSet(S), NEW B \in SUBSET SUBSET S, B # {}
  PROVE  \E T \in B : \A U \in B : U \subseteq T => U = T
<1> DEFINE R == StrictSubsetOrdering(S)
<1>1. FiniteSubsetsOf(S) = SUBSET S
  BY FS_FiniteSubsetsOfFinite
<1>2. IsWellFoundedOn(R, SUBSET S)
  BY <1>1, FS_StrictSubsetOrderingWellFounded
<1> HIDE DEF R
<1>3. \E T \in B : \A U \in B : ~(<<U, T>> \in R)
  BY <1>2, WFMin
<1>4. QED BY <1>3 DEF R, StrictSubsetOrdering

\* As many units as f says for each element of T.
Units(f, T) == UNION {{x} \X (1..f[x]) : x \in T}

LEMMA OneUnits ==
  ASSUME NEW x, NEW n \in Nat
  PROVE  IsFiniteSet({x} \X (1..n)) /\ Cardinality({x} \X (1..n)) = n
<1>1. IsFiniteSet({x}) /\ Cardinality({x}) = 1
  BY FS_Singleton
<1>2. IsFiniteSet(1..n) /\ Cardinality(1..n) = n
  BY FS_Interval
<1>3. IsFiniteSet({x} \X (1..n)) /\ Cardinality({x} \X (1..n)) = Cardinality({x}) * Cardinality(1..n)
  BY <1>1, <1>2, FS_Product
<1>4. QED BY <1>1, <1>2, <1>3

LEMMA DisjointUnion ==
  ASSUME NEW S, IsFiniteSet(S), NEW T, IsFiniteSet(T), S \cap T = {}
  PROVE  /\ IsFiniteSet(S \cup T) /\ Cardinality(S \cup T) = Cardinality(S) + Cardinality(T)
         /\ Cardinality(S) \in Nat /\ Cardinality(T) \in Nat
<1>1. IsFiniteSet(S \cup T) /\ Cardinality(S \cup T) = Cardinality(S) + Cardinality(T) - Cardinality(S \cap T)
  BY FS_Union
<1>2. Cardinality(S \cap T) = 0
  <2>1. Cardinality({}) = 0
    BY FS_EmptySet
  <2>2. QED BY <2>1, Zenon
<1>3. Cardinality(S) \in Nat /\ Cardinality(T) \in Nat
  BY FS_CardinalityType
<1>4. QED BY <1>1, <1>2, <1>3

LEMMA UnitsWithout ==
  ASSUME NEW S, NEW f \in [S -> Nat], NEW T \in SUBSET S, NEW x \in T,
         IsFiniteSet(Units(f, T \ {x}))
  PROVE  /\ IsFiniteSet(Units(f, T)) /\ Cardinality(Units(f, T \ {x})) \in Nat
         /\ Cardinality(Units(f, T)) = f[x] + Cardinality(Units(f, T \ {x}))
<1> DEFINE A == {x} \X (1..f[x])
           B == Units(f, T \ {x})
<1>1. f[x] \in Nat
  OBVIOUS
<1>2. Units(f, T) = A \cup B
  BY DEF Units
<1>3. A \cap B = {}
  BY DEF Units
<1>4. IsFiniteSet(A) /\ Cardinality(A) = f[x]
  BY <1>1, OneUnits
<1> HIDE DEF A, B
<1>5. IsFiniteSet(B)
  BY DEF B
<1>6. /\ IsFiniteSet(A \cup B) /\ Cardinality(A \cup B) = Cardinality(A) + Cardinality(B)
      /\ Cardinality(B) \in Nat
  BY <1>3, <1>4, <1>5, DisjointUnion
<1>7. IsFiniteSet(Units(f, T)) /\ Cardinality(Units(f, T)) = Cardinality(A) + Cardinality(B)
  BY <1>2, <1>6, Zenon
<1>8. QED BY <1>4, <1>6, <1>7 DEF B

LEMMA UnitsFinite ==
  ASSUME NEW S, IsFiniteSet(S), NEW f \in [S -> Nat], NEW T \in SUBSET S
  PROVE  IsFiniteSet(Units(f, T)) /\ Cardinality(Units(f, T)) \in Nat
<1> DEFINE Bad == {U \in SUBSET S : ~IsFiniteSet(Units(f, U))}
<1>1. ASSUME Bad # {} PROVE FALSE
  <2>1. Bad \in SUBSET SUBSET S
    OBVIOUS
  <2> HIDE DEF Bad
  <2>2. PICK U \in Bad : \A V \in Bad : V \subseteq U => V = U
    BY <1>1, <2>1, SmallestSubset
  <2>3. U \in SUBSET S /\ ~IsFiniteSet(Units(f, U))
    BY DEF Bad
  <2>4. CASE U = {}
    <3>1. Units(f, U) = {}
      BY <2>4 DEF Units
    <3>2. QED BY <3>1, <2>3, FS_EmptySet
  <2>5. CASE U # {}
    <3>1. PICK x \in U : TRUE
      BY <2>5
    <3>2. U \ {x} \notin Bad
      BY <2>2, <3>1
    <3>3. IsFiniteSet(Units(f, U \ {x}))
      BY <2>3, <3>2 DEF Bad
    <3>4. QED BY <2>3, <3>3, UnitsWithout
  <2>6. QED BY <2>4, <2>5
<1>2. IsFiniteSet(Units(f, T))
  BY <1>1
<1>3. QED BY <1>2, FS_CardinalityType

\* A sum over a finite set is the number of its units, in whatever order it is added up.
LEMMA SumIsCount ==
  ASSUME NEW S, IsFiniteSet(S), NEW f \in [S -> Nat]
  PROVE  SumFunction(f) = Cardinality(Units(f, S))
<1> DEFINE pick(s) == CHOOSE x \in s : TRUE
           next(g, s) == IF s = {} THEN 0 ELSE f[pick(s)] + g[s \ {pick(s)}]
           sums(g) == g = [s \in SUBSET S |-> next(g, s)]
           G == CHOOSE g : sums(g)
           count == [s \in SUBSET S |-> Cardinality(Units(f, s))]
<1>1. SumFunction(f) = G[S]
  <2>1. DOMAIN f = S
    OBVIOUS
  <2>2. QED BY <2>1 DEF SumFunction, SumFunctionOnSet, FoldFunctionOnSet, MapThenFoldSet
<1>2. \A s \in SUBSET S : s # {} => pick(s) \in s
  OBVIOUS
<1> HIDE DEF pick
<1>3. ASSUME NEW s \in SUBSET S PROVE count[s] = next(count, s)
  <2>1. CASE s = {}
    <3>1. Units(f, s) = {}
      BY <2>1 DEF Units
    <3>2. QED BY <2>1, <3>1, FS_EmptySet
  <2>2. CASE s # {}
    <3>1. pick(s) \in s /\ s \ {pick(s)} \in SUBSET S
      BY <2>2, <1>2
    <3>2. IsFiniteSet(Units(f, s \ {pick(s)}))
      BY <3>1, UnitsFinite
    <3>3. Cardinality(Units(f, s)) = f[pick(s)] + Cardinality(Units(f, s \ {pick(s)}))
      BY <3>1, <3>2, UnitsWithout
    <3>4. QED BY <2>2, <3>1, <3>3
  <2>3. QED BY <2>1, <2>2
<1> HIDE DEF next
<1>4. sums(count)
  BY <1>3
<1>5. sums(G)
  BY <1>4
<1> HIDE DEF G
<1>6. \A s \in SUBSET S : G[s] = next(G, s)
  BY <1>5
<1> DEFINE Bad == {s \in SUBSET S : G[s] # count[s]}
<1>7. ASSUME Bad # {} PROVE FALSE
  <2>1. Bad \in SUBSET SUBSET S
    OBVIOUS
  <2>2. PICK s \in Bad : \A V \in Bad : V \subseteq s => V = s
    <3> HIDE DEF Bad
    <3>1. QED BY <1>7, <2>1, SmallestSubset
  <2>3. s \in SUBSET S /\ G[s] # count[s]
    OBVIOUS
  <2>4. CASE s = {}
    BY <2>3, <2>4, <1>3, <1>6 DEF next
  <2>5. CASE s # {}
    <3>1. pick(s) \in s /\ s \ {pick(s)} \in SUBSET S
      BY <2>3, <2>5, <1>2
    <3>2. s \ {pick(s)} \notin Bad
      BY <2>2, <3>1
    <3>3. G[s \ {pick(s)}] = count[s \ {pick(s)}]
      BY <3>1, <3>2
    <3>4. next(G, s) = next(count, s)
      BY <3>3 DEF next
    <3>5. QED BY <2>3, <3>4, <1>3, <1>6
  <2>6. QED BY <2>4, <2>5
<1>8. G[S] = count[S]
  BY <1>7
<1>9. QED BY <1>1, <1>8
-----------------------------------------------------------------------------
(* Rounding.                                                               *)

LEMMA Rounding ==
  ASSUME NEW n \in Nat
  PROVE  /\ Aligned(n) \in Nat /\ n <= Aligned(n) /\ Aligned(n) <= n + alignMask
         /\ Aligned(Aligned(n)) = Aligned(n)
         /\ Class(n) \in Nat /\ RoundTo(n, 16) = 16 * Class(n)
         /\ Aligned(n) <= 16 * Class(n)
         /\ Class(Aligned(n)) = Class(n)
         /\ kind = "data" => Aligned(n) = 16 * Class(n)
<1>1. CASE kind = "data"
  <2>1. \A k \in Nat : Aligned(k) = ((k + 16 - 1) \div 16) * 16
    BY <1>1 DEF Aligned, RoundTo, alignMask
  <2>2. QED BY <2>1, <1>1 DEF Class, RoundTo, alignMask
<1>2. CASE kind # "data"
  <2> DEFINE a == (n + 3) \div 4
             c == (n + 15) \div 16
  <2>1. alignMask = 3
    BY <1>2 DEF alignMask
  <2>2. \A k \in Nat : Aligned(k) = ((k + 4 - 1) \div 4) * 4
    BY <2>1 DEF Aligned, RoundTo
  <2>3. \A k \in Nat : Class(k) = (k + 15) \div 16 /\ RoundTo(k, 16) = 16 * ((k + 15) \div 16)
    <3>1. \A k \in Nat : RoundTo(k, 16) = ((k + 15) \div 16) * 16
      BY DEF RoundTo
    <3>2. \A k \in Nat : (k + 15) \div 16 \in Nat /\ (((k + 15) \div 16) * 16) \div 16 = (k + 15) \div 16
      OBVIOUS
    <3>3. QED BY <3>1, <3>2 DEF Class
  <2>4. Aligned(n) = 4 * a /\ Aligned(4 * a) = ((4 * a + 3) \div 4) * 4
    BY <2>2
  <2>5. a \in Nat /\ 4 * a <= n + 3 /\ n <= 4 * a
    OBVIOUS
  <2>6. c \in Nat /\ 16 * c <= n + 15 /\ n <= 16 * c
    OBVIOUS
  <2>7. Class(n) = c /\ Class(4 * a) = (4 * a + 15) \div 16
    BY <2>3, <2>5
  <2>8. (4 * a + 15) \div 16 = c
    OBVIOUS
  <2>9. (4 * a + 3) \div 4 = a
    OBVIOUS
  <2>10. RoundTo(n, 16) = 16 * c
    BY <2>3
  <2> HIDE DEF a, c
  <2>11. 4 * a <= 16 * c
    BY <2>5, <2>6
  <2>12. Aligned(Aligned(n)) = Aligned(n) /\ Class(Aligned(n)) = Class(n)
    BY <2>4, <2>5, <2>7, <2>8, <2>9
  <2>13. Aligned(n) \in Nat /\ n <= Aligned(n) /\ Aligned(n) <= n + alignMask
    BY <2>1, <2>4, <2>5
  <2>14. Class(n) \in Nat /\ RoundTo(n, 16) = 16 * Class(n) /\ Aligned(n) <= 16 * Class(n)
    BY <2>4, <2>6, <2>7, <2>10, <2>11
  <2>15. QED BY <1>2, <2>12, <2>13, <2>14
<1>3. QED BY <1>1, <1>2

LEMMA ModOfMod ==
  ASSUME NEW a \in Int, NEW b \in Int, NEW n \in Nat \ {0}, b \in 0..(n-1)
  PROVE  (a + ((b - a) % n)) % n = b
<1> DEFINE x == b - a
           q == x \div n
           r == x % n
           y == a + r
           d == y \div n
           e == y % n
<1>1. x \in Int /\ q \in Int /\ r \in 0..(n-1) /\ x = n * q + r
  OBVIOUS
<1> HIDE DEF q, r
<1>2. y \in Int /\ d \in Int /\ e \in 0..(n-1) /\ y = n * d + e
  <2>1. y \in Int
    BY <1>1
  <2> HIDE DEF y
  <2>2. QED BY <2>1
<1> HIDE DEF d, e
<1>3. b - e = n * q + n * d
  BY <1>1, <1>2
<1>4. n * q + n * d = n * (q + d)
  BY <1>1, <1>2
<1>5. e = b
  <2> DEFINE k == q + d
  <2>1. k \in Int
    BY <1>1, <1>2
  <2>2. b - e = n * k
    BY <1>3, <1>4
  <2> HIDE DEF k
  <2>3. k = 0
    <3>1. CASE k >= 1
      <4>1. n * k >= n
        BY <2>1, <3>1
      <4>2. QED BY <4>1, <2>2, <1>2
    <3>2. CASE k <= -1
      <4>1. n * k <= -n
        BY <2>1, <3>2
      <4>2. QED BY <4>1, <2>2, <1>2
    <3>3. QED BY <2>1, <3>1, <3>2
  <2>4. QED BY <2>2, <2>3, <1>2
<1>6. QED BY <1>5 DEF e, y, r, x
-----------------------------------------------------------------------------
(* Least and greatest numbers.                                             *)

LEMMA MinExists ==
  ASSUME NEW S \in SUBSET Nat, S # {}
  PROVE  Min(S) \in S /\ \A y \in S : Min(S) <= y
<1>1. PICK s \in S : s \in Nat
  OBVIOUS
<1> DEFINE B == {0..x : x \in {y \in S : y <= s}}
<1>2. IsFiniteSet(0..s)
  BY <1>1, FS_Interval
<1>3. B # {} /\ B \in SUBSET SUBSET (0..s)
  BY <1>1
<1> HIDE DEF B
<1>4. \E T \in B : \A U \in B : U \subseteq T => U = T
  <2> DEFINE I == 0..s
  <2>1. IsFiniteSet(I)
    BY <1>2
  <2>2. B \in SUBSET SUBSET I
    BY <1>3
  <2>3. B # {}
    BY <1>3
  <2> HIDE DEF I
  <2>4. QED BY <2>1, <2>2, <2>3, SmallestSubset
<1> PICK T \in B : \A U \in B : U \subseteq T => U = T
  BY <1>4
<1>5. PICK x \in S : x <= s /\ T = 0..x
  BY <1>4 DEF B
<1>6. ASSUME NEW y \in S PROVE x <= y
  <2>1. CASE y < x
    <3>1. 0..y \in B /\ 0..y \subseteq 0..x
      BY <1>1, <1>5, <2>1 DEF B
    <3>2. 0..y = 0..x
      BY <1>4, <1>5, <3>1
    <3>3. x \in 0..y
      BY <3>2
    <3>4. QED BY <2>1, <3>3
  <2>2. QED BY <2>1
<1>7. QED BY <1>5, <1>6 DEF Min

LEMMA MaxExists ==
  ASSUME NEW n \in Nat, NEW S \in SUBSET (0..n), S # {}
  PROVE  Max(S) \in S
<1> DEFINE D == {d \in Nat : n - d \in S}
<1>1. D # {}
  <2>1. PICK x \in S : TRUE
    OBVIOUS
  <2>2. n - x \in Nat /\ n - (n - x) = x
    BY <2>1
  <2>3. QED BY <2>2
<1>2. Min(D) \in D /\ \A d \in D : Min(D) <= d
  BY <1>1, MinExists
<1> DEFINE x == n - Min(D)
<1>3. x \in S
  BY <1>2
<1>4. ASSUME NEW y \in S PROVE x >= y
  <2>1. n - y \in D
    <3>1. y \in 0..n
      OBVIOUS
    <3>2. n - y \in Nat /\ n - (n - y) = y
      BY <3>1
    <3>3. QED BY <3>2
  <2>2. Min(D) <= n - y /\ Min(D) \in Nat /\ y \in 0..n
    BY <2>1, <1>2
  <2> HIDE DEF D
  <2>3. QED BY <2>2
<1> HIDE DEF x
<1>5. QED BY <1>3, <1>4 DEF Max

-----------------------------------------------------------------------------
(* Decks.                                                                  *)

Decks == [total : Nat, bits : SUBSET Nat, look : Nat, allocated : Nat]

\* The first deck of every class has a cell.
HintSuffices == initialSize >= maxShoeAllocation

\* The count is that of the bits, and the cells fill whole words.
SoundDecks ==
  {d \in Decks : /\ d.bits \subseteq 0..(d.total - 1) /\ d.allocated = Cardinality(d.bits)
                 /\ \E w \in Nat : d.total = w * WordBits
                 /\ HintSuffices => d.total > 0}

With(d, bits, look, allocated) ==
  [d EXCEPT !.bits = bits, !.look = look, !.allocated = allocated]

LEMMA DeckWith ==
  ASSUME NEW d \in Decks, NEW b \in SUBSET Nat, NEW l \in Nat, NEW a \in Nat
  PROVE  /\ With(d, b, l, a) \in Decks
         /\ With(d, b, l, a).total = d.total /\ With(d, b, l, a).bits = b
         /\ With(d, b, l, a).allocated = a
<1> DEFINE x == [d EXCEPT !.bits = b]
           y == [x EXCEPT !.look = l]
           z == [y EXCEPT !.allocated = a]
<1>1. x \in Decks
  BY DEF Decks
<1> HIDE DEF x
<1>2. y \in Decks
  BY <1>1 DEF Decks
<1> HIDE DEF y
<1>3. z \in Decks
  BY <1>2 DEF Decks
<1> HIDE DEF z
<1>4. With(d, b, l, a) = z
  BY DEF With, x, y, z
<1>5. /\ With(d, b, l, a).total = d.total /\ With(d, b, l, a).bits = b
      /\ With(d, b, l, a).allocated = a
  BY DEF With, Decks
<1>6. QED BY <1>3, <1>4, <1>5

LEMMA DivNat ==
  ASSUME NEW x \in Nat, NEW n \in Nat \ {0}
  PROVE  /\ x \div n \in Nat /\ n * (x \div n) <= x /\ x < n * (x \div n) + n
         /\ x >= n => x \div n >= 1
<1> DEFINE q == x \div n
           r == x % n
<1>1. q \in Int /\ r \in 0..(n - 1) /\ x = n * q + r
  OBVIOUS
<1> HIDE DEF q, r
<1>2. n * q <= x /\ x < n * q + n
  BY <1>1
<1>3. q >= 0
  <2>1. CASE q <= -1
    <3>1. n * q <= -n
      BY <1>1, <2>1
    <3>2. QED BY <1>1, <1>2, <3>1
  <2>2. QED BY <2>1, <1>1
<1>4. ASSUME x >= n PROVE q >= 1
  <2>1. CASE q = 0
    BY <2>1, <1>2, <1>4
  <2>2. QED BY <2>1, <1>1, <1>3
<1>5. QED BY <1>1, <1>2, <1>3, <1>4 DEF q

LEMMA BitsFinite ==
  ASSUME NEW d \in SoundDecks
  PROVE  /\ d \in Decks /\ d.bits \subseteq 0..(d.total - 1) /\ d.allocated = Cardinality(d.bits)
         /\ IsFiniteSet(d.bits) /\ Cardinality(d.bits) \in Nat
<1>1. d \in Decks /\ d.bits \subseteq 0..(d.total - 1) /\ d.allocated = Cardinality(d.bits)
      /\ d.total \in Nat
  BY DEF SoundDecks, Decks
<1>2. IsFiniteSet(0..(d.total - 1))
  BY <1>1, FS_Interval
<1>3. QED BY <1>1, <1>2, FS_Subset, FS_CardinalityType

LEMMA NewDeck ==
  ASSUME NEW n \in Nat, HintSuffices => n > 0
  PROVE  Deck(n) \in SoundDecks /\ Deck(n).bits = {} /\ Deck(n).allocated = 0
<1> DEFINE w == (n + WordBits - 1) \div WordBits
<1>1. WordBits \in Nat \ {0}
  BY HeapAssumption
<1>2. n + WordBits - 1 \in Nat
  BY <1>1
<1>3. w \in Nat /\ (n + WordBits - 1 >= WordBits => w >= 1)
  BY <1>1, <1>2, DivNat
<1>4. RoundTo(n, WordBits) = w * WordBits
  BY DEF RoundTo
<1> HIDE DEF w
<1>5. w * WordBits \in Nat /\ (w >= 1 => w * WordBits > 0)
  BY <1>1, <1>3
<1>6. n > 0 => n + WordBits - 1 >= WordBits
  BY <1>1
<1>7. Cardinality({}) = 0
  BY FS_EmptySet
<1>8. QED BY <1>3, <1>4, <1>5, <1>6, <1>7 DEF Deck, SoundDecks, Decks

LEMMA CellCount ==
  ASSUME NEW n \in Nat
  PROVE  Cardinality(0..(n - 1)) = n
  BY FS_Interval

LEMMA FreeCellIsFree ==
  ASSUME NEW d \in SoundDecks, HasRoom(d)
  PROVE  FreeCell(d) \in (0..(d.total - 1)) \ d.bits
<1> DEFINE T == d.total
           unset == (0..(T - 1)) \ d.bits
           words == T \div WordBits
           ahead == {(Word(i) - d.look) % words : i \in unset}
           first == (d.look + Min(ahead)) % words
<1>1. PICK w \in Nat : T = w * WordBits
  BY DEF SoundDecks
<1>2. T \in Nat /\ d.look \in Nat /\ d.bits \subseteq 0..(T - 1) /\ WordBits \in Nat \ {0}
  BY HeapAssumption DEF SoundDecks, Decks
<1>3. unset # {}
  <2>1. ASSUME unset = {} PROVE FALSE
    <3>1. d.bits = 0..(T - 1)
      BY <2>1, <1>2
    <3>2. Cardinality(0..(T - 1)) = T
      <4>1. T \in Nat
        BY <1>2
      <4>2. QED BY <4>1, CellCount
    <3>3. Cardinality(d.bits) = Cardinality(0..(T - 1))
      BY <3>1, Zenon
    <3>4. QED BY <3>2, <3>3, BitsFinite DEF HasRoom
  <2>2. QED BY <2>1
<1>4. T > 0
  <2>1. PICK i \in unset : TRUE
    BY <1>3
  <2>2. i \in 0..(T - 1)
    BY <2>1
  <2>3. QED BY <2>2, <1>2
<1>5. w \in Nat \ {0}
  <2>1. w # 0
    BY <1>1, <1>2, <1>4
  <2>2. QED BY <2>1
<1>6. words = w
  BY <1>1, <1>2, <1>5
<1>7. ASSUME NEW i \in unset PROVE Word(i) \in 0..(w - 1)
  <2> DEFINE v == i \div WordBits
  <2>1. i \in 0..(T - 1)
    OBVIOUS
  <2>2. i \in Nat /\ i < T
    BY <2>1, <1>2
  <2>3. v \in Nat /\ WordBits * v <= i
    BY <2>2, <1>2, DivNat
  <2> HIDE DEF v
  <2>4. v < w
    <3>1. CASE v >= w
      <4>1. WordBits * v >= WordBits * w
        BY <3>1, <2>3, <1>2
      <4>2. WordBits * w = T
        BY <1>1, <1>2
      <4>3. WordBits * v \in Int /\ WordBits * w \in Int
        BY <2>3, <1>2
      <4>4. QED BY <4>1, <4>2, <4>3, <2>2, <2>3, <1>2
    <3>2. QED BY <3>1, <2>3
  <2>5. QED BY <2>3, <2>4 DEF Word, v
<1> HIDE DEF words, unset, T
<1>8. ahead \in SUBSET Nat /\ ahead # {}
  <2>1. ASSUME NEW i \in unset PROVE (Word(i) - d.look) % words \in Nat
    BY <1>2, <1>5, <1>6, <1>7
  <2>2. QED BY <2>1, <1>3
<1>9. Min(ahead) \in ahead
  BY <1>8, MinExists
<1>10. PICK i \in unset : Min(ahead) = (Word(i) - d.look) % words
  BY <1>9
<1>11. first = Word(i)
  <2>1. Word(i) \in 0..(w - 1) /\ Word(i) \in Int
    BY <1>7
  <2>2. (d.look + ((Word(i) - d.look) % w)) % w = Word(i)
    BY <2>1, <1>2, <1>5, ModOfMod
  <2>3. QED BY <2>2, <1>6, <1>10
<1> DEFINE there == {k \in unset : Word(k) = first}
<1>12. FreeCell(d) = Max(there)
  BY DEF FreeCell, unset, words, T
<1>13. there # {}
  BY <1>11
<1>14. there \in SUBSET (0..T) /\ there \subseteq unset
  <2>1. unset \subseteq 0..T
    BY <1>2 DEF unset
  <2>2. QED BY <2>1
<1> HIDE DEF there
<1>15. Max(there) \in there
  BY <1>2, <1>13, <1>14, MaxExists
<1>16. QED BY <1>12, <1>14, <1>15 DEF unset, T

LEMMA DeckAllocates ==
  ASSUME NEW d \in SoundDecks, HasRoom(d)
  PROVE  /\ DeckAllocate(d) \in SoundDecks /\ DeckAllocate(d).total = d.total
         /\ DeckAllocate(d).bits = d.bits \cup {FreeCell(d)}
         /\ FreeCell(d) \in Nat /\ FreeCell(d) \notin d.bits
<1> DEFINE cell == FreeCell(d)
           e == DeckAllocate(d)
<1>1. cell \in 0..(d.total - 1) /\ cell \notin d.bits
  BY FreeCellIsFree
<1>2. /\ d \in Decks /\ d.bits \subseteq 0..(d.total - 1) /\ d.allocated = Cardinality(d.bits)
      /\ IsFiniteSet(d.bits) /\ Cardinality(d.bits) \in Nat
  BY BitsFinite
<1>3. d.total \in Nat
  BY <1>2 DEF Decks
<1>4. e = With(d, d.bits \cup {cell}, Word(cell), d.allocated + 1)
  BY Zenon DEF DeckAllocate, With
<1> HIDE DEF cell, e
<1>5. Cardinality(d.bits \cup {cell}) = d.allocated + 1
  BY <1>1, <1>2, FS_AddElement
<1>6. cell \in Nat /\ Word(cell) \in Nat
  <2>1. cell \in Nat
    BY <1>1, <1>3
  <2>2. QED BY <2>1, HeapAssumption, DivNat DEF Word
<1>7. d.bits \cup {cell} \subseteq 0..(d.total - 1) /\ d.bits \cup {cell} \subseteq Nat
  BY <1>1, <1>2, <1>6 DEF Decks
<1>8. (\E w \in Nat : d.total = w * WordBits) /\ (HintSuffices => d.total > 0)
  BY DEF SoundDecks
<1>9. /\ e \in Decks /\ e.total = d.total /\ e.bits = d.bits \cup {cell}
      /\ e.allocated = d.allocated + 1
  BY <1>2, <1>4, <1>6, <1>7, DeckWith
<1>10. e \in SoundDecks
  BY <1>5, <1>7, <1>8, <1>9 DEF SoundDecks
<1>11. QED BY <1>1, <1>6, <1>9, <1>10 DEF cell, e

LEMMA DeckFrees ==
  ASSUME NEW d \in SoundDecks, NEW cell \in d.bits
  PROVE  /\ DeckFree(d, cell) \in SoundDecks /\ DeckFree(d, cell).total = d.total
         /\ DeckFree(d, cell).bits = d.bits \ {cell}
<1> DEFINE e == DeckFree(d, cell)
<1>1. /\ d \in Decks /\ d.bits \subseteq 0..(d.total - 1) /\ d.allocated = Cardinality(d.bits)
      /\ IsFiniteSet(d.bits) /\ Cardinality(d.bits) \in Nat
  BY BitsFinite
<1>2. d.total \in Nat
  BY <1>1 DEF Decks
<1>3. e = With(d, d.bits \ {cell}, Word(cell), d.allocated - 1)
  BY Zenon DEF DeckFree, With
<1> HIDE DEF e
<1>4. Cardinality(d.bits \ {cell}) = d.allocated - 1
  BY <1>1, FS_RemoveElement
<1>5. Cardinality(d.bits \ {cell}) \in Nat
  BY <1>1, FS_RemoveElement, FS_CardinalityType
<1>6. Word(cell) \in Nat
  <2>1. cell \in Nat
    BY <1>1 DEF Decks
  <2>2. QED BY <2>1, HeapAssumption, DivNat DEF Word
<1>7. d.bits \ {cell} \subseteq 0..(d.total - 1) /\ d.bits \ {cell} \subseteq Nat
  BY <1>1 DEF Decks
<1>8. (\E w \in Nat : d.total = w * WordBits) /\ (HintSuffices => d.total > 0)
  BY DEF SoundDecks
<1>9. /\ e \in Decks /\ e.total = d.total /\ e.bits = d.bits \ {cell}
      /\ e.allocated = d.allocated - 1
  BY <1>1, <1>3, <1>4, <1>5, <1>6, <1>7, DeckWith
<1>10. e \in SoundDecks
  BY <1>4, <1>7, <1>8, <1>9 DEF SoundDecks
<1>11. QED BY <1>9, <1>10 DEF e

\* DeckReset is DeckCollect with no mark.
LEMMA DeckCollects ==
  ASSUME NEW d \in SoundDecks, NEW marked \in SUBSET d.bits
  PROVE  /\ DeckCollect(d, marked) \in SoundDecks /\ DeckCollect(d, marked).total = d.total
         /\ DeckCollect(d, marked).bits = marked
         /\ DeckReset(d) = DeckCollect(d, {})
<1> DEFINE e == DeckCollect(d, marked)
<1>1. /\ d \in Decks /\ d.bits \subseteq 0..(d.total - 1) /\ IsFiniteSet(d.bits)
  BY BitsFinite
<1>2. d.total \in Nat
  BY <1>1 DEF Decks
<1>3. e = With(d, marked, 0, Cardinality(marked))
  BY Zenon DEF DeckCollect, With
<1>4. DeckReset(d) = DeckCollect(d, {})
  <2>1. Cardinality({}) = 0
    BY FS_EmptySet
  <2>2. QED BY <2>1, Zenon DEF DeckReset, DeckCollect
<1> HIDE DEF e
<1>5. Cardinality(marked) \in Nat
  BY <1>1, FS_Subset, FS_CardinalityType
<1>6. marked \subseteq 0..(d.total - 1) /\ marked \subseteq Nat
  BY <1>1 DEF Decks
<1>7. (\E w \in Nat : d.total = w * WordBits) /\ (HintSuffices => d.total > 0)
  BY DEF SoundDecks
<1>8. /\ e \in Decks /\ e.total = d.total /\ e.bits = marked
      /\ e.allocated = Cardinality(marked)
  BY <1>1, <1>3, <1>5, <1>6, DeckWith
<1>9. e \in SoundDecks
  BY <1>6, <1>7, <1>8 DEF SoundDecks
<1>10. QED BY <1>4, <1>8, <1>9 DEF e

-----------------------------------------------------------------------------
(* Chains of decks, newest first.                                          *)

CellsIn(c, chain) ==
  UNION {{<<c, DeckAt(chain, q), i>> : i \in chain[q].bits} : q \in DOMAIN chain}

\* A cell is found again by the number of its deck.
LEMMA CellsByNumber ==
  ASSUME NEW c, NEW chain \in Seq(SoundDecks)
  PROVE  \A p : p \in CellsIn(c, chain) <=>
           \E n \in 1..Len(chain) : \E i \in chain[DeckAt(chain, n)].bits : p = <<c, n, i>>
<1>1. \A n \in 1..Len(chain) : DeckAt(chain, n) \in DOMAIN chain /\ DeckAt(chain, DeckAt(chain, n)) = n
  BY DEF DeckAt
<1>2. DOMAIN chain = 1..Len(chain)
  OBVIOUS
<1>3. ASSUME NEW p, p \in CellsIn(c, chain)
      PROVE  \E n \in 1..Len(chain) : \E i \in chain[DeckAt(chain, n)].bits : p = <<c, n, i>>
  <2>1. PICK q \in DOMAIN chain : \E i \in chain[q].bits : p = <<c, DeckAt(chain, q), i>>
    BY <1>3 DEF CellsIn
  <2>2. DeckAt(chain, q) \in 1..Len(chain) /\ DeckAt(chain, DeckAt(chain, q)) = q
    BY <1>1, <1>2
  <2>3. QED BY <2>1, <2>2, Zenon
<1>4. ASSUME NEW n \in 1..Len(chain), NEW i \in chain[DeckAt(chain, n)].bits
      PROVE  <<c, n, i>> \in CellsIn(c, chain)
  <2> DEFINE q == DeckAt(chain, n)
  <2>1. q \in DOMAIN chain /\ DeckAt(chain, q) = n
    BY <1>1
  <2>2. <<c, DeckAt(chain, q), i>> \in CellsIn(c, chain)
    BY <2>1 DEF CellsIn
  <2>3. QED BY <2>1, <2>2
<1>5. QED BY <1>3, <1>4, Zenon

LEMMA ChainAdds ==
  ASSUME NEW c, NEW chain \in Seq(SoundDecks), NEW d \in SoundDecks, d.bits = {}
  PROVE  /\ <<d>> \o chain \in Seq(SoundDecks)
         /\ CellsIn(c, <<d>> \o chain) = CellsIn(c, chain)
<1> DEFINE new == <<d>> \o chain
<1>1. new \in Seq(SoundDecks) /\ Len(new) = Len(chain) + 1
  OBVIOUS
<1>2. new[1] = d /\ \A q \in 1..Len(chain) : new[q + 1] = chain[q]
  OBVIOUS
<1>3. \A n \in 1..Len(chain) : /\ n \in 1..Len(new) /\ DeckAt(chain, n) \in 1..Len(chain)
                                /\ DeckAt(new, n) = DeckAt(chain, n) + 1
  BY <1>1 DEF DeckAt
<1>4. \A n \in 1..Len(new) : n \in 1..Len(chain) \/ DeckAt(new, n) = 1
  BY <1>1 DEF DeckAt
<1> HIDE DEF new
<1>5. \A n \in 1..Len(chain) : new[DeckAt(new, n)] = chain[DeckAt(chain, n)]
  BY <1>2, <1>3
<1>6. ASSUME NEW p PROVE p \in CellsIn(c, new) <=> p \in CellsIn(c, chain)
  <2>1. ASSUME p \in CellsIn(c, new) PROVE p \in CellsIn(c, chain)
    <3>1. PICK n \in 1..Len(new) : \E i \in new[DeckAt(new, n)].bits : p = <<c, n, i>>
      BY <1>1, <2>1, CellsByNumber
    <3>2. n \in 1..Len(chain)
      BY <1>2, <1>4, <3>1
    <3>3. QED BY <1>5, <3>1, <3>2, CellsByNumber
  <2>2. ASSUME p \in CellsIn(c, chain) PROVE p \in CellsIn(c, new)
    <3>1. PICK n \in 1..Len(chain) : \E i \in chain[DeckAt(chain, n)].bits : p = <<c, n, i>>
      BY <2>2, CellsByNumber
    <3>2. n \in 1..Len(new) /\ new[DeckAt(new, n)] = chain[DeckAt(chain, n)]
      BY <1>3, <1>5
    <3>3. QED BY <1>1, <3>1, <3>2, CellsByNumber
  <2>3. QED BY <2>1, <2>2
<1>7. CellsIn(c, new) = CellsIn(c, chain)
  BY <1>6, Zenon
<1>8. QED BY <1>1, <1>7 DEF new

\* T is S with p, or without p.
Adds(S, T, p) == T = S \cup {p}
Drops(S, T, p) == T = S \ {p}

OtherDecks(chain, new, q) ==
  /\ new \in Seq(SoundDecks) /\ Len(new) = Len(chain)
  /\ \A r \in DOMAIN chain : r # q => new[r] = chain[r]

\* The cells of a chain after a change of one deck.
LEMMA ChainChanges ==
  ASSUME NEW c, NEW chain \in Seq(SoundDecks), NEW q \in DOMAIN chain,
         NEW new, OtherDecks(chain, new, q), NEW i
  PROVE  /\ Adds(chain[q].bits, new[q].bits, i)
              => Adds(CellsIn(c, chain), CellsIn(c, new), <<c, DeckAt(chain, q), i>>)
         /\ Drops(chain[q].bits, new[q].bits, i)
              => Drops(CellsIn(c, chain), CellsIn(c, new), <<c, DeckAt(chain, q), i>>)
<1> DEFINE n0 == DeckAt(chain, q)
           d == new[q]
<1>1. /\ new \in Seq(SoundDecks) /\ Len(new) = Len(chain)
      /\ \A r \in DOMAIN chain : r # q => new[r] = chain[r]
  BY DEF OtherDecks
<1>2. q \in 1..Len(chain) /\ DOMAIN chain = 1..Len(chain)
  OBVIOUS
<1>3. \A n : DeckAt(new, n) = DeckAt(chain, n)
  BY <1>1 DEF DeckAt
<1>4. \A n \in 1..Len(chain) : DeckAt(chain, n) \in DOMAIN chain /\ (n # n0 => DeckAt(chain, n) # q)
  BY <1>2 DEF DeckAt
<1>5. n0 \in 1..Len(chain) /\ DeckAt(chain, n0) = q
  BY <1>2 DEF DeckAt
<1> HIDE DEF n0, d
<1>6. \A p : p \in CellsIn(c, chain) <=>
         \E n \in 1..Len(chain) : \E j \in chain[DeckAt(chain, n)].bits : p = <<c, n, j>>
  BY CellsByNumber
<1>7. \A p : p \in CellsIn(c, new) <=>
         \E n \in 1..Len(chain) : \E j \in new[DeckAt(chain, n)].bits : p = <<c, n, j>>
  <2>1. \A p : p \in CellsIn(c, new) <=>
           \E n \in 1..Len(new) : \E j \in new[DeckAt(new, n)].bits : p = <<c, n, j>>
    BY <1>1, CellsByNumber
  <2>2. QED BY <2>1, <1>1, <1>3
<1>8. \A n \in 1..Len(chain) : n # n0 => new[DeckAt(chain, n)] = chain[DeckAt(chain, n)]
  BY <1>1, <1>4
<1>9. new[DeckAt(chain, n0)] = d /\ chain[DeckAt(chain, n0)] = chain[q]
  BY <1>5 DEF d
<1>10. ASSUME d.bits = chain[q].bits \cup {i}
       PROVE  CellsIn(c, new) = CellsIn(c, chain) \cup {<<c, n0, i>>}
  <2>1. ASSUME NEW p PROVE p \in CellsIn(c, new) <=> p \in CellsIn(c, chain) \cup {<<c, n0, i>>}
    BY <1>5, <1>6, <1>7, <1>8, <1>9, <1>10, Zenon
  <2>2. QED BY <2>1, Zenon
<1>11. ASSUME d.bits = chain[q].bits \ {i}
       PROVE  CellsIn(c, new) = CellsIn(c, chain) \ {<<c, n0, i>>}
  <2>1. ASSUME NEW p PROVE p \in CellsIn(c, new) <=> p \in CellsIn(c, chain) \ {<<c, n0, i>>}
    BY <1>5, <1>6, <1>7, <1>8, <1>9, <1>11
  <2>2. QED BY <2>1, Zenon
<1>12. QED BY <1>10, <1>11, Zenon DEF Adds, Drops, n0, d

-----------------------------------------------------------------------------
(* The memory model: its blocks, and what a change of one part does.       *)

\* The table of big blocks: their sizes.
BigTables == {b \in UNION {[K -> Nat] : K \in SUBSET (Nat \ {0})} : IsFiniteSet(DOMAIN b)}

Models == [chunks : [Classes -> Seq(SoundDecks)], bigStuff : BigTables, totalAllocated : Int]

CellsOf(m) == UNION {CellsIn(c, m.chunks[c]) : c \in Classes}
BigIn(b) == {<<0, k>> : k \in DOMAIN b}
BlocksOf(m) == CellsOf(m) \cup BigIn(m.bigStuff)

LEMMA BlocksAreBlocksOf == Blocks = BlocksOf(model)
  BY DEF Blocks, BlocksOf, CellsOf, CellsIn, BigIn

LEMMA ClassesAreNumbers ==
  /\ Class(maxShoeAllocation) \in Nat /\ maxShoeAllocation = 16 * Class(maxShoeAllocation)
  /\ Classes \subseteq Nat \ {0} /\ IsFiniteSet(Classes)
  /\ \A c \in Classes : c * 16 \in Nat \ {0} /\ c * 16 <= maxShoeAllocation
<1>1. maxShoeAllocation \in Nat /\ maxShoeAllocation % 16 = 0
  BY HeapAssumption
<1>2. Class(maxShoeAllocation) \in Nat /\ maxShoeAllocation = 16 * Class(maxShoeAllocation)
  BY <1>1 DEF Class, RoundTo
<1>3. IsFiniteSet(Classes)
  BY <1>2, FS_Interval DEF Classes
<1>4. QED BY <1>2, <1>3 DEF Classes

LEMMA BlocksByClass ==
  ASSUME NEW m \in Models
  PROVE  /\ \A c \in Classes : m.chunks[c] \in Seq(SoundDecks)
         /\ m.chunks \in [Classes -> Seq(SoundDecks)]
         /\ \A c \in Classes : \A p \in CellsIn(c, m.chunks[c]) : p[1] = c
         /\ \A p \in CellsOf(m) : p[1] \in Classes /\ p \in CellsIn(p[1], m.chunks[p[1]])
         /\ \A p \in BigIn(m.bigStuff) : p[1] = 0 /\ p[2] \in DOMAIN m.bigStuff /\ p = <<0, p[2]>>
         /\ 0 \notin Classes
<1>1. m.chunks \in [Classes -> Seq(SoundDecks)] /\ \A c \in Classes : m.chunks[c] \in Seq(SoundDecks)
  BY DEF Models
<1>2. ASSUME NEW c \in Classes, NEW p \in CellsIn(c, m.chunks[c]) PROVE p[1] = c
  <2>1. \E n \in 1..Len(m.chunks[c]) : \E i \in m.chunks[c][DeckAt(m.chunks[c], n)].bits : p = <<c, n, i>>
    BY <1>1, CellsByNumber
  <2>2. QED BY <2>1
<1>3. \A p \in CellsOf(m) : p[1] \in Classes /\ p \in CellsIn(p[1], m.chunks[p[1]])
  BY <1>2 DEF CellsOf
<1>4. \A p \in BigIn(m.bigStuff) : p[1] = 0 /\ p[2] \in DOMAIN m.bigStuff /\ p = <<0, p[2]>>
  BY DEF BigIn
<1>5. 0 \notin Classes
  BY ClassesAreNumbers
<1>6. QED BY <1>1, <1>2, <1>3, <1>4, <1>5, Zenon

OtherChains(m, m1, c) ==
  /\ m1 \in Models /\ m1.bigStuff = m.bigStuff /\ m1.totalAllocated = m.totalAllocated
  /\ \A b \in Classes : b # c => m1.chunks[b] = m.chunks[b]

LEMMA WithChain ==
  ASSUME NEW m \in Models, NEW c \in Classes, NEW chain \in Seq(SoundDecks)
  PROVE  LET m1 == [m EXCEPT !.chunks[c] = chain]
         IN OtherChains(m, m1, c) /\ m1.chunks[c] = chain
  BY DEF Models, OtherChains

\* The blocks of a model after a change of one chain.
LEMMA ChainOfModel ==
  ASSUME NEW m \in Models, NEW c \in Classes, NEW m1, OtherChains(m, m1, c), NEW r
  PROVE  /\ Adds(CellsIn(c, m.chunks[c]), CellsIn(c, m1.chunks[c]), r)
              => Adds(BlocksOf(m), BlocksOf(m1), r)
         /\ Drops(CellsIn(c, m.chunks[c]), CellsIn(c, m1.chunks[c]), r) /\ r[1] = c
              => Drops(BlocksOf(m), BlocksOf(m1), r)
         /\ CellsIn(c, m1.chunks[c]) = CellsIn(c, m.chunks[c]) => BlocksOf(m1) = BlocksOf(m)
<1> DEFINE chain == m1.chunks[c]
<1>1. m1 \in Models /\ m1.bigStuff = m.bigStuff
  BY DEF OtherChains
<1>2. m1.chunks[c] = chain
  OBVIOUS
<1>3. \A b \in Classes : b # c => m1.chunks[b] = m.chunks[b]
  BY DEF OtherChains
<1> HIDE DEF chain
<1>4. \A p \in CellsOf(m) : p[1] \in Classes /\ p \in CellsIn(p[1], m.chunks[p[1]])
  BY BlocksByClass
<1>5. \A p \in CellsOf(m1) : p[1] \in Classes /\ p \in CellsIn(p[1], m1.chunks[p[1]])
  BY <1>1, BlocksByClass
<1>6. \A p \in BigIn(m.bigStuff) : p[1] # c
  BY BlocksByClass
<1>7. /\ \A p \in CellsIn(c, chain) : p \in CellsOf(m1)
      /\ \A p \in CellsIn(c, m.chunks[c]) : p \in CellsOf(m)
  BY <1>2 DEF CellsOf
<1>8. \A b \in Classes : b # c => CellsIn(b, m1.chunks[b]) = CellsIn(b, m.chunks[b])
  BY <1>3
<1>9. \A b \in Classes : \A p \in CellsIn(b, m.chunks[b]) : p \in CellsOf(m)
  BY DEF CellsOf
<1>10. \A b \in Classes : \A p \in CellsIn(b, m1.chunks[b]) : p \in CellsOf(m1)
  BY DEF CellsOf
<1>11. ASSUME NEW p, p[1] # c
       PROVE  p \in CellsOf(m1) <=> p \in CellsOf(m)
  BY <1>4, <1>5, <1>8, <1>9, <1>10, <1>11
<1>12. ASSUME NEW p, p[1] = c
       PROVE  /\ p \in CellsOf(m1) <=> p \in CellsIn(c, chain)
              /\ p \in CellsOf(m) <=> p \in CellsIn(c, m.chunks[c])
  BY <1>2, <1>4, <1>5, <1>7, <1>12
<1>13. ASSUME CellsIn(c, chain) = CellsIn(c, m.chunks[c]) \cup {r}
       PROVE  BlocksOf(m1) = BlocksOf(m) \cup {r}
  <2>1. r \in CellsIn(c, chain)
    BY <1>13
  <2>2. r[1] = c
    <3>1. CellsIn(c, m1.chunks[c]) = CellsIn(c, chain)
      BY <1>2
    <3>2. QED BY <2>1, <3>1, <1>1, BlocksByClass
  <2>3. ASSUME NEW p PROVE p \in BlocksOf(m1) <=> p \in BlocksOf(m) \cup {r}
    BY <1>1, <1>11, <1>12, <1>13, <2>1, <2>2 DEF BlocksOf
  <2>4. QED BY <2>3, Zenon
<1>14. ASSUME CellsIn(c, chain) = CellsIn(c, m.chunks[c]) \ {r}, r[1] = c
       PROVE  BlocksOf(m1) = BlocksOf(m) \ {r}
  <2>1. ASSUME NEW p PROVE p \in BlocksOf(m1) <=> p \in BlocksOf(m) \ {r}
    BY <1>1, <1>6, <1>11, <1>12, <1>14 DEF BlocksOf
  <2>2. QED BY <2>1, Zenon
<1>15. ASSUME CellsIn(c, chain) = CellsIn(c, m.chunks[c]) PROVE BlocksOf(m1) = BlocksOf(m)
  <2>1. ASSUME NEW p PROVE p \in BlocksOf(m1) <=> p \in BlocksOf(m)
    BY <1>1, <1>11, <1>12, <1>15 DEF BlocksOf
  <2>2. QED BY <2>1, Zenon
<1>16. QED BY <1>13, <1>14, <1>15, Zenon DEF chain, Adds, Drops

\* m1 is m with one block more, at p, of a request for n bytes.
Given(m, m1, n, p) ==
  /\ m1 \in Models /\ p \notin BlocksOf(m) /\ BlocksOf(m1) = BlocksOf(m) \cup {p}
  /\ MarkFinds(p, n)
  /\ p[1] = 0 => m1.bigStuff[p[2]] = Aligned(n)
  /\ \A k \in DOMAIN m.bigStuff : m1.bigStuff[k] = m.bigStuff[k]

LEMMA BigTableType ==
  ASSUME NEW b \in BigTables
  PROVE  /\ DOMAIN b \subseteq Nat \ {0} /\ IsFiniteSet(DOMAIN b) /\ b \in [DOMAIN b -> Nat]
  BY DEF BigTables

LEMMA BigAllocates ==
  ASSUME NEW m \in Models, NEW size \in Nat
  PROVE  \E k \in Nat \ {0} :
           /\ k \notin DOMAIN m.bigStuff /\ BigAllocate(m, size)[2] = {<<0, k>>}
           /\ BigAllocate(m, size)[1] \in Models
           /\ BigAllocate(m, size)[1].totalAllocated = m.totalAllocated
           /\ BlocksOf(BigAllocate(m, size)[1]) = BlocksOf(m) \cup {<<0, k>>}
           /\ BigAllocate(m, size)[1].bigStuff[k] = size
           /\ \A j \in DOMAIN m.bigStuff : BigAllocate(m, size)[1].bigStuff[j] = m.bigStuff[j]
<1> DEFINE D == DOMAIN m.bigStuff
           n == Cardinality(D)
           unused == (1..(n + 1)) \ D
           k == Min(unused)
           b == [j \in D \cup {k} |-> IF j = k THEN size ELSE m.bigStuff[j]]
           m1 == [m EXCEPT !.bigStuff = b]
<1>1. m.bigStuff \in BigTables /\ m.chunks \in [Classes -> Seq(SoundDecks)] /\ m.totalAllocated \in Int
  BY DEF Models
<1>2. D \subseteq Nat \ {0} /\ IsFiniteSet(D) /\ m.bigStuff \in [D -> Nat] /\ n \in Nat
  BY <1>1, BigTableType, FS_CardinalityType
<1>3. unused # {} /\ unused \in SUBSET Nat
  <2>1. CASE unused = {}
    <3>1. 1..(n + 1) \subseteq D
      BY <2>1
    <3>2. Cardinality(1..(n + 1)) <= n
      BY <1>2, <3>1, FS_Subset
    <3>3. Cardinality(1..(n + 1)) = n + 1
      BY <1>2, FS_Interval
    <3>4. QED BY <1>2, <3>2, <3>3
  <2>2. QED BY <2>1, <1>2
<1>4. k \in unused
  BY <1>3, MinExists
<1>5. k \in Nat \ {0} /\ k \notin D
  BY <1>2, <1>4
<1>6. BigAllocate(m, size) = <<m1, {<<0, k>>}>>
  BY DEF BigAllocate
<1> HIDE DEF k, unused, n
<1>7. b \in BigTables
  <2>1. IsFiniteSet(D \cup {k})
    BY <1>2, FS_AddElement
  <2>2. b \in [D \cup {k} -> Nat] /\ D \cup {k} \in SUBSET (Nat \ {0})
    BY <1>2, <1>5
  <2>3. DOMAIN b = D \cup {k}
    OBVIOUS
  <2> HIDE DEF b
  <2>4. QED BY <2>1, <2>2, <2>3 DEF BigTables
<1>8. b[k] = size /\ (\A j \in D : b[j] = m.bigStuff[j]) /\ DOMAIN b = D \cup {k}
  BY <1>5
<1> HIDE DEF b
<1>9. /\ m1 \in Models /\ m1.bigStuff = b /\ m1.totalAllocated = m.totalAllocated
      /\ m1.chunks = m.chunks
  BY <1>1, <1>7 DEF Models
<1> HIDE DEF m1
<1>10. BigIn(b) = BigIn(m.bigStuff) \cup {<<0, k>>}
  BY <1>8 DEF BigIn
<1>11. BlocksOf(m1) = BlocksOf(m) \cup {<<0, k>>}
  BY <1>9, <1>10, Zenon DEF BlocksOf, CellsOf
<1>12. QED BY <1>5, <1>6, <1>8, <1>9, <1>11

LEMMA Grows ==
  ASSUME NEW chain \in Seq(SoundDecks), NEW c \in Classes
  PROVE  grow(chain, c) \in Nat /\ (HintSuffices => grow(chain, c) > 0)
<1>1. CASE chain # <<>>
  <2>1. Head(chain) \in SoundDecks
    BY <1>1
  <2>2. Head(chain).total \in Nat /\ (HintSuffices => Head(chain).total > 0)
    BY <2>1 DEF SoundDecks, Decks
  <2>3. grow(chain, c) = Head(chain).total * 2
    BY <1>1 DEF grow
  <2>4. QED BY <2>2, <2>3
<1>2. CASE chain = <<>>
  <2> DEFINE w == c * 16
  <2>1. w \in Nat \ {0} /\ w <= maxShoeAllocation
    BY ClassesAreNumbers
  <2>2. grow(chain, c) = initialSize \div w
    BY <1>2 DEF grow
  <2> HIDE DEF w
  <2>3. initialSize \in Nat /\ maxShoeAllocation \in Nat
    BY HeapAssumption
  <2>4. HintSuffices => initialSize >= w
    BY <2>1, <2>3 DEF HintSuffices
  <2>5. initialSize \div w \in Nat /\ (initialSize >= w => initialSize \div w >= 1)
    BY <2>1, <2>3, DivNat
  <2>6. QED BY <2>2, <2>4, <2>5
<1>3. QED BY <1>1, <1>2

LEMMA ShoeAllocates ==
  ASSUME NEW m \in Models, NEW c \in Classes
  PROVE  LET r == ShoeAllocate(m, c)
         IN /\ r[1] \in Models /\ r[1].bigStuff = m.bigStuff
            /\ r[1].totalAllocated = m.totalAllocated
            /\ \/ r[2] = {} /\ ~HintSuffices /\ BlocksOf(r[1]) = BlocksOf(m)
               \/ \E p : /\ r[2] = {p} /\ p[1] = c /\ p \notin BlocksOf(m)
                         /\ BlocksOf(r[1]) = BlocksOf(m) \cup {p}
<1> DEFINE r == ShoeAllocate(m, c)
           old == m.chunks[c]
           full == \A j \in DOMAIN old : ~HasRoom(old[j])
           chain == IF full THEN <<Deck(grow(old, c))>> \o old ELSE old
           q == IF full THEN 1 ELSE Min({j \in DOMAIN old : HasRoom(old[j])})
           cell == FreeCell(chain[q])
           p == <<c, DeckAt(chain, q), cell>>
           new == [chain EXCEPT ![q] = DeckAllocate(@)]
<1>1. old \in Seq(SoundDecks)
  BY BlocksByClass
<1>2. /\ chain \in Seq(SoundDecks) /\ CellsIn(c, chain) = CellsIn(c, old)
      /\ q \in DOMAIN chain /\ (HasRoom(chain[q]) \/ ~HintSuffices)
  <2>1. CASE full
    <3> DEFINE d == Deck(grow(old, c))
    <3>1. d \in SoundDecks /\ d.bits = {} /\ d.allocated = 0
      BY <1>1, Grows, NewDeck
    <3>2. d.total \in Nat /\ (HintSuffices => d.total > 0)
      BY <3>1 DEF SoundDecks, Decks
    <3> HIDE DEF d
    <3>3. HasRoom(d) \/ ~HintSuffices
      BY <3>1, <3>2 DEF HasRoom
    <3> HIDE DEF old
    <3>4. <<d>> \o old \in Seq(SoundDecks) /\ CellsIn(c, <<d>> \o old) = CellsIn(c, old)
      BY <1>1, <3>1, ChainAdds
    <3>5. 1 \in DOMAIN (<<d>> \o old) /\ (<<d>> \o old)[1] = d
      BY <1>1, <3>1
    <3>6. chain = <<d>> \o old /\ q = 1
      BY <2>1 DEF d
    <3> HIDE DEF chain, q
    <3>7. QED BY <3>3, <3>4, <3>5, <3>6
  <2>2. CASE ~full
    <3> DEFINE J == {j \in DOMAIN old : HasRoom(old[j])}
    <3>1. J # {} /\ J \in SUBSET Nat
      BY <1>1, <2>2
    <3> HIDE DEF J
    <3>2. Min(J) \in J
      BY <3>1, MinExists
    <3>3. chain = old /\ q = Min(J)
      BY <2>2 DEF J
    <3> HIDE DEF chain, q, old
    <3>4. q \in DOMAIN old /\ HasRoom(old[q])
      BY <3>2, <3>3 DEF J
    <3>5. QED BY <1>1, <3>3, <3>4
  <2>3. QED BY <2>1, <2>2
<1>3. r = IF HasRoom(chain[q]) THEN <<[m EXCEPT !.chunks[c] = new], {p}>>
          ELSE <<[m EXCEPT !.chunks[c] = chain], {}>>
  BY DEF ShoeAllocate
<1> HIDE DEF chain, q, r
<1>4. CASE HasRoom(chain[q])
  <2>1. chain[q] \in SoundDecks
    BY <1>2
  <2> DEFINE d == DeckAllocate(chain[q])
  <2>2. d \in SoundDecks /\ d.bits = chain[q].bits \cup {cell} /\ cell \notin chain[q].bits
    BY <1>4, <2>1, DeckAllocates
  <2> HIDE DEF cell, d
  <2>3. new[q] = d /\ OtherDecks(chain, new, q)
    BY <1>2, <2>2 DEF d, OtherDecks
  <2> HIDE DEF new
  <2>4. new \in Seq(SoundDecks) /\ Adds(CellsIn(c, chain), CellsIn(c, new), p)
    <3>1. Adds(chain[q].bits, new[q].bits, cell)
      BY <2>2, <2>3, Zenon DEF Adds
    <3>2. QED BY <1>2, <2>3, <3>1, ChainChanges DEF OtherDecks
  <2>5. p \notin CellsIn(c, chain)
    <3>1. DeckAt(chain, DeckAt(chain, q)) = q
      BY <1>2 DEF DeckAt
    <3>2. p \in CellsIn(c, chain) => cell \in chain[DeckAt(chain, DeckAt(chain, q))].bits
      <4>1. p \in CellsIn(c, chain) =>
              \E n \in 1..Len(chain) : \E i \in chain[DeckAt(chain, n)].bits : p = <<c, n, i>>
        BY <1>2, CellsByNumber
      <4>2. QED BY <4>1
    <3>3. QED BY <2>2, <3>1, <3>2
  <2>6. p[1] = c
    OBVIOUS
  <2> HIDE DEF p
  <2>7. p \notin BlocksOf(m)
    <3>1. p \notin CellsOf(m)
      BY <1>2, <2>5, <2>6, BlocksByClass
    <3>2. p \notin BigIn(m.bigStuff)
      BY <2>6, BlocksByClass
    <3>3. QED BY <3>1, <3>2 DEF BlocksOf
  <2>8. Adds(CellsIn(c, m.chunks[c]), CellsIn(c, new), p)
    BY <1>2, <2>4
  <2>9. /\ [m EXCEPT !.chunks[c] = new] \in Models
        /\ [m EXCEPT !.chunks[c] = new].bigStuff = m.bigStuff
        /\ [m EXCEPT !.chunks[c] = new].totalAllocated = m.totalAllocated
        /\ BlocksOf([m EXCEPT !.chunks[c] = new]) = BlocksOf(m) \cup {p}
    <3> DEFINE m1 == [m EXCEPT !.chunks[c] = new]
    <3>1. OtherChains(m, m1, c) /\ m1.chunks[c] = new
      BY <2>4, WithChain
    <3> HIDE DEF m1
    <3>2. Adds(BlocksOf(m), BlocksOf(m1), p)
      BY <2>8, <3>1, ChainOfModel
    <3>3. BlocksOf(m1) = BlocksOf(m) \cup {p}
      BY <3>2, Zenon DEF Adds
    <3>4. QED BY <3>1, <3>3 DEF m1, OtherChains
  <2>10. r[1] = [m EXCEPT !.chunks[c] = new] /\ r[2] = {p}
    BY <1>3, <1>4
  <2>11. QED BY <2>6, <2>7, <2>9, <2>10 DEF r
<1>5. CASE ~HasRoom(chain[q])
  <2> HIDE DEF new, p
  <2>1. /\ [m EXCEPT !.chunks[c] = chain] \in Models
        /\ [m EXCEPT !.chunks[c] = chain].bigStuff = m.bigStuff
        /\ [m EXCEPT !.chunks[c] = chain].totalAllocated = m.totalAllocated
        /\ BlocksOf([m EXCEPT !.chunks[c] = chain]) = BlocksOf(m)
    <3> DEFINE m1 == [m EXCEPT !.chunks[c] = chain]
    <3>1. OtherChains(m, m1, c) /\ m1.chunks[c] = chain
      BY <1>2, WithChain
    <3> HIDE DEF m1
    <3>2. BlocksOf(m1) = BlocksOf(m)
      BY <1>2, <3>1, ChainOfModel
    <3>3. QED BY <3>1, <3>2 DEF m1, OtherChains
  <2>2. r[1] = [m EXCEPT !.chunks[c] = chain] /\ r[2] = {}
    BY <1>3, <1>5
  <2>3. QED BY <1>2, <1>5, <2>1, <2>2 DEF r
<1>6. QED BY <1>4, <1>5

\* Only more than the largest class is a block of its own.
LEMMA BigOrClass ==
  ASSUME NEW n \in Nat \ {0}
  PROVE  /\ Aligned(n) > maxShoeAllocation <=> RoundTo(n, 16) > maxShoeAllocation
         /\ Aligned(n) <= maxShoeAllocation => Class(n) \in Classes
<1> DEFINE a == Aligned(n)
           k == Class(maxShoeAllocation)
           c == Class(n)
<1>1. /\ a \in Nat /\ n <= a /\ c \in Nat /\ RoundTo(n, 16) = 16 * c /\ a <= 16 * c
  BY Rounding
<1>2. k \in Nat /\ maxShoeAllocation = 16 * k
  BY ClassesAreNumbers
<1>3. c = ((n + 15) \div 16) /\ 16 * c <= n + 15 /\ c >= 1
  <2>1. c = (((n + 16 - 1) \div 16) * 16) \div 16
    BY DEF Class, RoundTo
  <2>2. QED BY <2>1
<1>4. Classes = 1..k
  BY DEF Classes
<1> HIDE DEF a, k, c
<1>5. QED BY <1>1, <1>2, <1>3, <1>4 DEF a, c

LEMMA Allocates ==
  ASSUME NEW m \in Models, NEW n \in Nat \ {0}
  PROVE  LET r == allocate(m, n)
         IN /\ r[1] \in Models /\ r[1].totalAllocated = m.totalAllocated + Aligned(n)
            /\ \/ /\ r[2] = {} /\ ~HintSuffices /\ BlocksOf(r[1]) = BlocksOf(m)
                  /\ r[1].bigStuff = m.bigStuff
               \/ \E p : r[2] = {p} /\ Given(m, r[1], n, p)
<1> DEFINE r == allocate(m, n)
           a == Aligned(n)
           t == m.totalAllocated + a
           m1 == [m EXCEPT !.totalAllocated = @ + a]
<1>1. /\ a \in Nat /\ Class(a) = Class(n)
  BY Rounding
<1>2. m1 \in Models /\ m1.totalAllocated = t /\ m1.bigStuff = m.bigStuff /\ m1.chunks = m.chunks
  BY <1>1 DEF Models
<1>3. BlocksOf(m1) = BlocksOf(m)
  BY <1>2, Zenon DEF BlocksOf, CellsOf
<1>4. r = IF a > maxShoeAllocation THEN BigAllocate(m1, a) ELSE ShoeAllocate(m1, Class(a))
  BY DEF allocate
<1>5. /\ a > maxShoeAllocation <=> RoundTo(n, 16) > maxShoeAllocation
      /\ ~(a > maxShoeAllocation) => Class(n) \in Classes
  BY <1>1, BigOrClass, HeapAssumption
<1>6. \A p : MarkFinds(p, n) <=> p[1] = IF a > maxShoeAllocation THEN 0 ELSE Class(n)
  BY <1>5 DEF MarkFinds
<1>7. 0 \notin Classes
  BY ClassesAreNumbers
<1> HIDE DEF m1, r
<1>8. CASE a > maxShoeAllocation
  <2>1. r = BigAllocate(m1, a)
    BY <1>4, <1>8
  <2>2. PICK k \in Nat \ {0} :
          /\ k \notin DOMAIN m1.bigStuff /\ r[2] = {<<0, k>>}
          /\ r[1] \in Models
          /\ r[1].totalAllocated = m1.totalAllocated
          /\ BlocksOf(r[1]) = BlocksOf(m1) \cup {<<0, k>>}
          /\ r[1].bigStuff[k] = a
          /\ \A j \in DOMAIN m1.bigStuff : r[1].bigStuff[j] = m1.bigStuff[j]
    <3> HIDE DEF a
    <3>1. \E k \in Nat \ {0} :
            /\ k \notin DOMAIN m1.bigStuff /\ BigAllocate(m1, a)[2] = {<<0, k>>}
            /\ BigAllocate(m1, a)[1] \in Models
            /\ BigAllocate(m1, a)[1].totalAllocated = m1.totalAllocated
            /\ BlocksOf(BigAllocate(m1, a)[1]) = BlocksOf(m1) \cup {<<0, k>>}
            /\ BigAllocate(m1, a)[1].bigStuff[k] = a
            /\ \A j \in DOMAIN m1.bigStuff : BigAllocate(m1, a)[1].bigStuff[j] = m1.bigStuff[j]
      BY <1>1, <1>2, BigAllocates, Zenon
    <3>2. QED BY <2>1, <3>1
  <2> DEFINE p == <<0, k>>
  <2>3. p[1] = 0 /\ p[2] = k
    OBVIOUS
  <2> HIDE DEF p
  <2>4. p \notin BlocksOf(m)
    <3>1. p \notin CellsOf(m)
      BY <2>3, <1>7, BlocksByClass
    <3>2. p \notin BigIn(m.bigStuff)
      BY <2>2, <2>3, <1>2, BlocksByClass
    <3>3. QED BY <3>1, <3>2 DEF BlocksOf
  <2>5. MarkFinds(p, n)
    BY <1>6, <1>8, <2>3
  <2>6. Given(m, r[1], n, p) /\ r[2] = {p}
    BY <1>2, <1>3, <2>2, <2>3, <2>4, <2>5 DEF Given, p
  <2>7. r[1] \in Models /\ r[1].totalAllocated = t
    BY <1>2, <2>2
  <2>8. QED BY <2>6, <2>7 DEF r
<1>9. CASE ~(a > maxShoeAllocation)
  <2> DEFINE c == Class(n)
  <2>1. c \in Classes /\ r = ShoeAllocate(m1, c)
    BY <1>1, <1>4, <1>5, <1>9
  <2> HIDE DEF c
  <2>2. /\ r[1] \in Models /\ r[1].bigStuff = m1.bigStuff
        /\ r[1].totalAllocated = m1.totalAllocated
        /\ \/ r[2] = {} /\ ~HintSuffices /\ BlocksOf(r[1]) = BlocksOf(m1)
           \/ \E p : /\ r[2] = {p} /\ p[1] = c /\ p \notin BlocksOf(m1)
                     /\ BlocksOf(r[1]) = BlocksOf(m1) \cup {p}
    BY <1>2, <2>1, ShoeAllocates
  <2>3. r[1] \in Models /\ r[1].bigStuff = m.bigStuff /\ r[1].totalAllocated = t
    BY <1>2, <2>2
  <2>4. ASSUME NEW p, r[2] = {p}, p[1] = c, p \notin BlocksOf(m1), BlocksOf(r[1]) = BlocksOf(m1) \cup {p}
        PROVE  Given(m, r[1], n, p)
    <3>1. MarkFinds(p, n)
      BY <1>6, <1>9, <2>4 DEF c
    <3>2. p[1] # 0
      BY <1>7, <2>1, <2>4
    <3>3. QED BY <1>3, <2>3, <2>4, <3>1, <3>2 DEF Given
  <2>5. \/ r[2] = {} /\ ~HintSuffices /\ BlocksOf(r[1]) = BlocksOf(m)
        \/ \E p : r[2] = {p} /\ Given(m, r[1], n, p)
    BY <1>3, <2>2, <2>4
  <2>6. QED BY <2>3, <2>5 DEF r
<1>10. QED BY <1>8, <1>9

LEMMA Frees ==
  ASSUME NEW m \in Models, NEW n \in Nat \ {0}, NEW p \in BlocksOf(m), MarkFinds(p, n)
  PROVE  LET m1 == free(m, p, n)
         IN /\ m1 \in Models /\ m1.totalAllocated = m.totalAllocated - Aligned(n)
            /\ Drops(BlocksOf(m), BlocksOf(m1), p)
            /\ \A k \in DOMAIN m.bigStuff : <<0, k>> # p => m1.bigStuff[k] = m.bigStuff[k]
<1> DEFINE m1 == free(m, p, n)
           a == Aligned(n)
           c == Class(n)
           m0 == [m EXCEPT !.totalAllocated = @ - a]
<1>1. a \in Nat
  BY Rounding
<1>2. /\ m0 \in Models /\ m0.totalAllocated = m.totalAllocated - a
      /\ m0.bigStuff = m.bigStuff /\ m0.chunks = m.chunks
  BY <1>1 DEF Models
<1>3. BlocksOf(m0) = BlocksOf(m)
  BY <1>2, Zenon DEF BlocksOf, CellsOf
<1>4. /\ a > maxShoeAllocation <=> RoundTo(n, 16) > maxShoeAllocation
      /\ ~(a > maxShoeAllocation) => c \in Classes
  BY <1>1, BigOrClass, HeapAssumption
<1>5. p[1] = IF a > maxShoeAllocation THEN 0 ELSE c
  BY <1>4 DEF MarkFinds
<1>6. 0 \notin Classes
  BY ClassesAreNumbers
<1>7. m1 = IF a > maxShoeAllocation
           THEN [m0 EXCEPT !.bigStuff = Restrict(@, DOMAIN @ \ {p[2]})]
           ELSE [m0 EXCEPT !.chunks[c][DeckAt(m.chunks[c], p[2])] = DeckFree(@, p[3])]
  BY DEF free, Freed
<1> HIDE DEF m0, m1, a, c
<1>8. CASE a > maxShoeAllocation
  <2> DEFINE D == DOMAIN m.bigStuff
             k == p[2]
             b == [x \in D \ {k} |-> m.bigStuff[x]]
  <2>1. p[1] = 0
    BY <1>5, <1>8
  <2>2. p \in BigIn(m.bigStuff)
    BY <1>6, <2>1, BlocksByClass DEF BlocksOf
  <2>3. k \in D /\ p = <<0, k>>
    BY <2>2, BlocksByClass
  <2>4. m.bigStuff \in BigTables
    BY DEF Models
  <2>5. D \subseteq Nat \ {0} /\ IsFiniteSet(D) /\ m.bigStuff \in [D -> Nat]
    BY <2>4, BigTableType
  <2>6. b \in BigTables /\ DOMAIN b = D \ {k}
    <3>1. IsFiniteSet(D \ {k})
      BY <2>5, FS_RemoveElement
    <3>2. b \in [D \ {k} -> Nat] /\ D \ {k} \in SUBSET (Nat \ {0}) /\ DOMAIN b = D \ {k}
      BY <2>5
    <3> HIDE DEF b
    <3>3. QED BY <3>1, <3>2 DEF BigTables
  <2>7. m1 = [m0 EXCEPT !.bigStuff = b]
    BY <1>2, <1>7, <1>8 DEF Restrict
  <2>8. \A x \in D : x # k => b[x] = m.bigStuff[x]
    OBVIOUS
  <2> HIDE DEF b, k
  <2>9. /\ m1 \in Models /\ m1.bigStuff = b /\ m1.totalAllocated = m0.totalAllocated
        /\ m1.chunks = m0.chunks
    BY <1>2, <2>6, <2>7 DEF Models
  <2>10. BigIn(b) = BigIn(m.bigStuff) \ {p}
    BY <2>3, <2>6 DEF BigIn
  <2>11. CellsOf(m1) = CellsOf(m)
    BY <1>2, <2>9, Zenon DEF CellsOf
  <2>12. p \notin CellsOf(m)
    BY <1>6, <2>1, BlocksByClass
  <2>13. BlocksOf(m1) = BlocksOf(m) \ {p}
    BY <2>9, <2>10, <2>11, <2>12 DEF BlocksOf
  <2>14. QED BY <1>2, <2>3, <2>8, <2>9, <2>13 DEF m1, a, Drops
<1>9. CASE ~(a > maxShoeAllocation)
  <2> DEFINE chain == m.chunks[c]
             q == DeckAt(chain, p[2])
             cell == p[3]
             d == DeckFree(chain[q], cell)
             new == [chain EXCEPT ![q] = d]
  <2>1. c \in Classes /\ p[1] = c
    BY <1>4, <1>5, <1>9
  <2>2. p \in CellsIn(c, chain) /\ chain \in Seq(SoundDecks)
    <3>1. p \notin BigIn(m.bigStuff)
      BY <1>6, <2>1, BlocksByClass
    <3>2. p \in CellsOf(m)
      BY <3>1 DEF BlocksOf
    <3>3. QED BY <2>1, <3>2, BlocksByClass
  <2>3. m1 = [m0 EXCEPT !.chunks[c] = new]
    BY <1>2, <1>7, <1>9, <2>1 DEF Models
  <2> HIDE DEF chain
  <2>4. \E nr \in 1..Len(chain) : \E i \in chain[DeckAt(chain, nr)].bits : p = <<c, nr, i>>
    BY <2>2, CellsByNumber
  <2>5. /\ q \in DOMAIN chain /\ cell \in chain[q].bits /\ chain[q] \in SoundDecks
        /\ p = <<c, DeckAt(chain, q), cell>>
    <3>1. PICK nr \in 1..Len(chain) : \E i \in chain[DeckAt(chain, nr)].bits : p = <<c, nr, i>>
      BY <2>4
    <3>2. p[2] = nr /\ cell \in chain[q].bits /\ p = <<c, nr, cell>>
      BY <3>1
    <3>3. q \in DOMAIN chain /\ DeckAt(chain, q) = nr
      BY <2>2, <3>1, <3>2 DEF DeckAt
    <3>4. QED BY <2>2, <3>2, <3>3
  <2> HIDE DEF q, cell
  <2>6. d \in SoundDecks /\ d.bits = chain[q].bits \ {cell}
    BY <2>5, DeckFrees
  <2> HIDE DEF d
  <2>7. new[q] = d /\ OtherDecks(chain, new, q)
    BY <2>2, <2>5, <2>6 DEF OtherDecks
  <2> HIDE DEF new
  <2>8. Drops(CellsIn(c, chain), CellsIn(c, new), p)
    <3>1. Drops(chain[q].bits, new[q].bits, cell)
      BY <2>6, <2>7, Zenon DEF Drops
    <3>2. QED BY <2>2, <2>5, <2>7, <3>1, ChainChanges
  <2>9. OtherChains(m0, m1, c) /\ m1.chunks[c] = new
    BY <1>2, <2>1, <2>3, <2>7, WithChain DEF OtherDecks
  <2>10. Drops(BlocksOf(m0), BlocksOf(m1), p)
    BY <1>2, <2>1, <2>8, <2>9, ChainOfModel DEF chain
  <2>11. QED BY <1>2, <1>3, <2>9, <2>10 DEF OtherChains, m1, a
<1>10. QED BY <1>8, <1>9

-----------------------------------------------------------------------------
(* The heap and the program's ledger of what it holds, together.           *)

LEMMA SumSplits ==
  ASSUME NEW S, IsFiniteSet(S), NEW f \in [S -> Nat], NEW x \in S,
         NEW g \in [S \ {x} -> Nat], \A y \in S \ {x} : g[y] = f[y]
  PROVE  SumFunction(g) \in Nat /\ SumFunction(f) = SumFunction(g) + f[x]
<1> DEFINE T == S \ {x}
<1>1. IsFiniteSet(T) /\ T \in SUBSET S
  BY FS_RemoveElement
<1>2. Units(g, T) = Units(f, T)
  BY DEF Units
<1>3. SumFunction(f) = Cardinality(Units(f, S))
  BY SumIsCount
<1>4. SumFunction(g) = Cardinality(Units(g, T))
  BY <1>1, SumIsCount
<1>5. IsFiniteSet(Units(f, T))
  BY <1>1, UnitsFinite
<1>6. Cardinality(Units(f, S)) = f[x] + Cardinality(Units(f, T)) /\ Cardinality(Units(f, T)) \in Nat
  BY <1>5, UnitsWithout
<1>7. SumFunction(g) = Cardinality(Units(f, T))
  BY <1>2, <1>4, Zenon
<1>8. f[x] \in Nat
  OBVIOUS
<1>9. QED BY <1>3, <1>6, <1>7, <1>8

Holdings == [size : Nat \ {0}, text : Texts \cup {NoText}, holders : Nat]
Ledger(h) == IsFiniteSet(DOMAIN h) /\ h \in [DOMAIN h -> Holdings]

Bytes(h) == [p \in DOMAIN h |-> Aligned(h[p].size)]
BytesOf(h) == SumFunction(Bytes(h))

HeapOK(m, h) ==
  /\ m \in Models /\ Ledger(h) /\ DOMAIN h = BlocksOf(m)
  /\ \A p \in DOMAIN h : MarkFinds(p, h[p].size)
  /\ \A p \in DOMAIN h : p[1] = 0 => m.bigStuff[p[2]] = Aligned(h[p].size)

\* h1 is h with x for p, which is not in h, or without p.
Entered(h, h1, p, x) == h1 = [q \in DOMAIN h \cup {p} |-> IF q = p THEN x ELSE h[q]]
Struck(h, h1, p) == h1 = [q \in DOMAIN h \ {p} |-> h[q]]

LEMMA LedgerBytes ==
  ASSUME NEW h, Ledger(h)
  PROVE  /\ Bytes(h) \in [DOMAIN h -> Nat] /\ BytesOf(h) \in Nat
         /\ \A p \in DOMAIN h : h[p].size \in Nat \ {0} /\ h[p] \in Holdings
<1>1. \A p \in DOMAIN h : h[p] \in Holdings /\ h[p].size \in Nat \ {0}
  BY DEF Ledger, Holdings
<1>2. \A p \in DOMAIN h : Aligned(h[p].size) \in Nat
  BY <1>1, Rounding
<1>3. Bytes(h) \in [DOMAIN h -> Nat] /\ IsFiniteSet(DOMAIN h)
  BY <1>2 DEF Bytes, Ledger
<1> DEFINE f == Bytes(h)
           S == DOMAIN h
<1>4. f \in [S -> Nat] /\ IsFiniteSet(S)
  BY <1>3
<1> HIDE DEF f, S
<1>5. SumFunction(f) = Cardinality(Units(f, S))
  BY <1>4, SumIsCount
<1>6. Cardinality(Units(f, S)) \in Nat
  <2>1. S \in SUBSET S
    OBVIOUS
  <2>2. QED BY <1>4, <2>1, UnitsFinite
<1>7. BytesOf(h) \in Nat
  BY <1>5, <1>6 DEF BytesOf, f
<1>8. QED BY <1>1, <1>3, <1>7

LEMMA EntryCounts ==
  ASSUME NEW h, Ledger(h), NEW p, p \notin DOMAIN h, NEW x \in Holdings,
         NEW h1, Entered(h, h1, p, x)
  PROVE  /\ Ledger(h1) /\ DOMAIN h1 = DOMAIN h \cup {p} /\ h1[p] = x
         /\ \A q \in DOMAIN h : h1[q] = h[q]
         /\ BytesOf(h1) = BytesOf(h) + Aligned(x.size)
<1>1. /\ DOMAIN h1 = DOMAIN h \cup {p} /\ h1[p] = x
      /\ \A q \in DOMAIN h : h1[q] = h[q]
  BY DEF Entered
<1>2. Ledger(h1)
  <2>1. IsFiniteSet(DOMAIN h) /\ \A q \in DOMAIN h : h[q] \in Holdings
    BY DEF Ledger
  <2>2. IsFiniteSet(DOMAIN h \cup {p})
    BY <2>1, FS_AddElement
  <2>3. h1 \in [DOMAIN h \cup {p} -> Holdings]
    BY <2>1 DEF Entered
  <2>4. QED BY <1>1, <2>2, <2>3, Zenon DEF Ledger
<1> DEFINE S == DOMAIN h1
           f == Bytes(h1)
           g == Bytes(h)
<1>3. f \in [S -> Nat] /\ IsFiniteSet(S) /\ p \in S
  BY <1>1, <1>2, LedgerBytes DEF Ledger
<1>4. g \in [S \ {p} -> Nat]
  <2>1. DOMAIN h = S \ {p}
    BY <1>1
  <2>2. QED BY <2>1, LedgerBytes
<1>5. \A y \in S \ {p} : g[y] = f[y]
  BY <1>1 DEF Bytes
<1>6. f[p] = Aligned(x.size)
  BY <1>1 DEF Bytes
<1> HIDE DEF f, g, S
<1>7. SumFunction(f) = SumFunction(g) + f[p]
  BY <1>3, <1>4, <1>5, SumSplits
<1>8. QED BY <1>1, <1>2, <1>6, <1>7 DEF f, g, BytesOf

\* The bytes of p are those h has and h1 has not.
Lighter(h, h1, p) == BytesOf(h) = BytesOf(h1) + Aligned(h[p].size)

LEMMA StrikeCounts ==
  ASSUME NEW h, Ledger(h), NEW p \in DOMAIN h, NEW h1, Struck(h, h1, p)
  PROVE  /\ Ledger(h1) /\ DOMAIN h1 = DOMAIN h \ {p}
         /\ \A q \in DOMAIN h1 : h1[q] = h[q]
         /\ Lighter(h, h1, p)
<1>1. /\ DOMAIN h1 = DOMAIN h \ {p} /\ \A q \in DOMAIN h1 : h1[q] = h[q]
  BY DEF Struck
<1>2. Ledger(h1)
  <2>1. IsFiniteSet(DOMAIN h) /\ \A q \in DOMAIN h : h[q] \in Holdings
    BY DEF Ledger
  <2>2. IsFiniteSet(DOMAIN h \ {p})
    BY <2>1, FS_RemoveElement
  <2>3. h1 \in [DOMAIN h \ {p} -> Holdings]
    BY <2>1 DEF Struck
  <2>4. QED BY <1>1, <2>2, <2>3, Zenon DEF Ledger
<1> DEFINE S == DOMAIN h
           f == Bytes(h)
           g == Bytes(h1)
<1>3. f \in [S -> Nat] /\ IsFiniteSet(S) /\ p \in S
  BY LedgerBytes DEF Ledger
<1>4. g \in [S \ {p} -> Nat]
  BY <1>1, <1>2, LedgerBytes
<1>5. \A y \in S \ {p} : g[y] = f[y]
  BY <1>1 DEF Bytes
<1>6. f[p] = Aligned(h[p].size)
  BY DEF Bytes
<1> HIDE DEF f, g, S
<1>7. SumFunction(f) = SumFunction(g) + f[p]
  BY <1>3, <1>4, <1>5, SumSplits
<1>8. QED BY <1>1, <1>2, <1>6, <1>7 DEF f, g, BytesOf, Lighter

LEMMA BigHeld ==
  ASSUME NEW m \in Models, NEW p \in BlocksOf(m), p[1] = 0
  PROVE  p[2] \in DOMAIN m.bigStuff /\ p = <<0, p[2]>>
<1>1. p \notin CellsOf(m)
  BY ClassesAreNumbers, BlocksByClass
<1>2. QED BY <1>1, BlocksByClass DEF BlocksOf

\* A request that is given a block.
LEMMA Gives ==
  ASSUME NEW m, NEW h, HeapOK(m, h), NEW x \in Holdings, NEW p, NEW m1, Given(m, m1, x.size, p),
         NEW h1, Entered(h, h1, p, x)
  PROVE  HeapOK(m1, h1) /\ BytesOf(h1) = BytesOf(h) + Aligned(x.size)
<1>1. /\ m \in Models /\ Ledger(h) /\ DOMAIN h = BlocksOf(m)
      /\ \A q \in DOMAIN h : MarkFinds(q, h[q].size)
      /\ \A q \in DOMAIN h : q[1] = 0 => m.bigStuff[q[2]] = Aligned(h[q].size)
  BY DEF HeapOK
<1>2. /\ m1 \in Models /\ p \notin BlocksOf(m) /\ BlocksOf(m1) = BlocksOf(m) \cup {p}
      /\ MarkFinds(p, x.size)
      /\ p[1] = 0 => m1.bigStuff[p[2]] = Aligned(x.size)
      /\ \A k \in DOMAIN m.bigStuff : m1.bigStuff[k] = m.bigStuff[k]
  BY DEF Given
<1>3. /\ Ledger(h1) /\ DOMAIN h1 = DOMAIN h \cup {p} /\ h1[p] = x
      /\ \A q \in DOMAIN h : h1[q] = h[q]
      /\ BytesOf(h1) = BytesOf(h) + Aligned(x.size)
  <2>1. Ledger(h) /\ p \notin DOMAIN h
    BY <1>1, <1>2
  <2>2. QED BY <2>1, EntryCounts
<1>4. DOMAIN h1 = BlocksOf(m1)
  BY <1>1, <1>2, <1>3
<1>5. \A q \in DOMAIN h1 : MarkFinds(q, h1[q].size)
  BY <1>1, <1>2, <1>3
<1>6. ASSUME NEW q \in DOMAIN h1, q[1] = 0 PROVE m1.bigStuff[q[2]] = Aligned(h1[q].size)
  <2>1. CASE q = p
    BY <1>2, <1>3, <1>6, <2>1
  <2>2. CASE q # p
    <3>1. q \in BlocksOf(m) /\ h1[q] = h[q]
      BY <1>1, <1>3, <2>2
    <3>2. q[2] \in DOMAIN m.bigStuff
      BY <1>1, <1>6, <3>1, BigHeld
    <3>3. QED BY <1>1, <1>2, <1>6, <3>1, <3>2
  <2>3. QED BY <2>1, <2>2
<1>7. QED BY <1>2, <1>3, <1>4, <1>5, <1>6 DEF HeapOK

\* A block that is freed with the size it was asked for.
LEMMA Takes ==
  ASSUME NEW m, NEW h, HeapOK(m, h), NEW p \in DOMAIN h, NEW h1, Struck(h, h1, p)
  PROVE  LET m1 == free(m, p, h[p].size)
         IN /\ HeapOK(m1, h1) /\ BytesOf(h) = BytesOf(h1) + Aligned(h[p].size)
            /\ m1.totalAllocated = m.totalAllocated - Aligned(h[p].size)
<1> DEFINE n == h[p].size
           m1 == free(m, p, n)
<1>1. /\ m \in Models /\ Ledger(h) /\ DOMAIN h = BlocksOf(m)
      /\ \A q \in DOMAIN h : MarkFinds(q, h[q].size)
      /\ \A q \in DOMAIN h : q[1] = 0 => m.bigStuff[q[2]] = Aligned(h[q].size)
  BY DEF HeapOK
<1>2. n \in Nat \ {0} /\ MarkFinds(p, n) /\ p \in BlocksOf(m)
  BY <1>1, LedgerBytes
<1>3. /\ Ledger(h1) /\ DOMAIN h1 = DOMAIN h \ {p}
      /\ \A q \in DOMAIN h1 : h1[q] = h[q]
      /\ BytesOf(h) = BytesOf(h1) + Aligned(n)
  <2>1. Ledger(h)
    BY <1>1
  <2>2. /\ Ledger(h1) /\ DOMAIN h1 = DOMAIN h \ {p} /\ Lighter(h, h1, p)
        /\ \A q \in DOMAIN h1 : h1[q] = h[q]
    BY <2>1, StrikeCounts
  <2>3. QED BY <2>2 DEF Lighter
<1> HIDE DEF n
<1>4. /\ m1 \in Models /\ m1.totalAllocated = m.totalAllocated - Aligned(n)
      /\ Drops(BlocksOf(m), BlocksOf(m1), p)
      /\ \A k \in DOMAIN m.bigStuff : <<0, k>> # p => m1.bigStuff[k] = m.bigStuff[k]
  BY <1>1, <1>2, Frees
<1> HIDE DEF m1
<1>5. DOMAIN h1 = BlocksOf(m1)
  BY <1>1, <1>3, <1>4 DEF Drops
<1>6. \A q \in DOMAIN h1 : MarkFinds(q, h1[q].size)
  BY <1>1, <1>3
<1>7. ASSUME NEW q \in DOMAIN h1, q[1] = 0 PROVE m1.bigStuff[q[2]] = Aligned(h1[q].size)
  <2>1. q \in BlocksOf(m) /\ q # p /\ h1[q] = h[q] /\ q \in DOMAIN h
    BY <1>1, <1>3
  <2>2. q[2] \in DOMAIN m.bigStuff /\ q = <<0, q[2]>>
    BY <1>1, <1>7, <2>1, BigHeld
  <2>3. m1.bigStuff[q[2]] = m.bigStuff[q[2]]
    BY <1>4, <2>1, <2>2
  <2>4. QED BY <1>1, <1>7, <2>1, <2>3
<1>8. HeapOK(m1, h1)
  BY <1>3, <1>4, <1>5, <1>6, <1>7 DEF HeapOK
<1>9. QED BY <1>3, <1>4, <1>8 DEF m1, n

-----------------------------------------------------------------------------
(* A sweep: the blocks it leaves, and the bytes it counts.                 *)

LEMMA SumGrows ==
  ASSUME NEW S, NEW T, IsFiniteSet(T), S \subseteq T, NEW f \in [S -> Nat], NEW g \in [T -> Nat],
         \A x \in S : f[x] <= g[x]
  PROVE  SumFunction(f) <= SumFunction(g)
<1>1. IsFiniteSet(S)
  BY FS_Subset
<1>2. SumFunction(f) = Cardinality(Units(f, S)) /\ SumFunction(g) = Cardinality(Units(g, T))
  BY <1>1, SumIsCount
<1>3. Units(f, S) \subseteq Units(g, T)
  <2>1. \A x \in S : x \in T /\ (1..f[x]) \subseteq (1..g[x])
    OBVIOUS
  <2>2. QED BY <2>1 DEF Units
<1>4. IsFiniteSet(Units(g, T))
  <2>1. T \in SUBSET T
    OBVIOUS
  <2>2. QED BY <2>1, UnitsFinite
<1>5. Cardinality(Units(f, S)) <= Cardinality(Units(g, T))
  BY <1>3, <1>4, FS_Subset
<1>6. QED BY <1>2, <1>5

All(P, T) == UNION {P[x] : x \in T}

\* The size of a union of sets that have nothing in common.
LEMMA SumOfParts ==
  ASSUME NEW S, IsFiniteSet(S), NEW P, \A x \in S : IsFiniteSet(P[x]),
         \A x, y \in S : x # y => P[x] \cap P[y] = {},
         NEW f \in [S -> Nat], \A x \in S : f[x] = Cardinality(P[x])
  PROVE  IsFiniteSet(All(P, S)) /\ SumFunction(f) = Cardinality(All(P, S))
<1> DEFINE Good(T) == IsFiniteSet(All(P, T)) /\ Cardinality(All(P, T)) = Cardinality(Units(f, T))
           Bad == {T \in SUBSET S : ~Good(T)}
<1>1. ASSUME Bad # {} PROVE FALSE
  <2>1. Bad \in SUBSET SUBSET S
    OBVIOUS
  <2> HIDE DEF Bad
  <2>2. PICK T \in Bad : \A V \in Bad : V \subseteq T => V = T
    BY <1>1, <2>1, SmallestSubset
  <2>3. T \in SUBSET S /\ ~Good(T)
    BY DEF Bad
  <2>4. CASE T = {}
    <3>1. Units(f, T) = {} /\ All(P, T) = {}
      BY <2>4 DEF Units, All
    <3>2. QED BY <3>1, <2>3, FS_EmptySet
  <2>5. CASE T # {}
    <3>1. PICK x \in T : TRUE
      BY <2>5
    <3> DEFINE U == T \ {x}
    <3>2. U \notin Bad /\ U \in SUBSET S
      BY <2>2, <2>3, <3>1
    <3>3. Good(U)
      BY <3>2 DEF Bad
    <3>4. All(P, T) = P[x] \cup All(P, U)
      BY <3>1 DEF All
    <3>5. P[x] \cap All(P, U) = {}
      <4>1. x \in S /\ \A y \in U : y \in S /\ y # x
        BY <2>3, <3>1
      <4>2. \A y \in U : P[x] \cap P[y] = {}
        BY <4>1
      <4>3. QED BY <4>2 DEF All
    <3>6. IsFiniteSet(P[x]) /\ f[x] = Cardinality(P[x])
      BY <2>3, <3>1
    <3>7. IsFiniteSet(Units(f, U))
      BY <3>2, UnitsFinite
    <3>8. Cardinality(Units(f, T)) = f[x] + Cardinality(Units(f, U))
      BY <2>3, <3>1, <3>7, UnitsWithout
    <3> HIDE DEF U
    <3>9. /\ IsFiniteSet(P[x] \cup All(P, U))
          /\ Cardinality(P[x] \cup All(P, U)) = Cardinality(P[x]) + Cardinality(All(P, U))
      BY <3>3, <3>5, <3>6, DisjointUnion
    <3>10. /\ IsFiniteSet(All(P, T))
           /\ Cardinality(All(P, T)) = Cardinality(P[x]) + Cardinality(All(P, U))
      BY <3>4, <3>9, Zenon
    <3>11. QED BY <2>3, <3>3, <3>6, <3>8, <3>10
  <2>6. QED BY <2>4, <2>5
<1>2. Good(S)
  <2>1. S \in SUBSET S
    OBVIOUS
  <2>2. QED BY <1>1, <2>1
<1>3. QED BY <1>2, SumIsCount

\* beforeGC, the marks of the blocks of R in class c, and afterGC, deck by deck.
Collected(c, chain, new, R) ==
  new = [q \in DOMAIN chain |-> DeckCollect(chain[q],
          {p[3] : p \in {r \in R : r[1] = c /\ DeckAt(chain, r[2]) = q}})]

LEMMA ChainCollects ==
  ASSUME NEW c, NEW chain \in Seq(SoundDecks), NEW R, \A r \in R : r[1] = c => r \in CellsIn(c, chain),
         NEW new, Collected(c, chain, new, R)
  PROVE  new \in Seq(SoundDecks) /\ CellsIn(c, new) = {r \in R : r[1] = c}
<1> DEFINE K(q) == {p[3] : p \in {r \in R : r[1] = c /\ DeckAt(chain, r[2]) = q}}
<1>1. ASSUME NEW r \in R, r[1] = c
      PROVE  /\ r[2] \in 1..Len(chain) /\ r[3] \in chain[DeckAt(chain, r[2])].bits
             /\ r = <<c, r[2], r[3]>>
  <2>1. \E n \in 1..Len(chain) : \E i \in chain[DeckAt(chain, n)].bits : r = <<c, n, i>>
    BY <1>1, CellsByNumber
  <2>2. QED BY <2>1
<1>2. \A q \in DOMAIN chain : K(q) \in SUBSET chain[q].bits
  BY <1>1
<1>3. new = [q \in DOMAIN chain |-> DeckCollect(chain[q], K(q))]
  BY DEF Collected
<1>4. \A n \in 1..Len(chain) : DeckAt(chain, n) \in DOMAIN chain
  BY DEF DeckAt
<1>5. \A n, k \in 1..Len(chain) : DeckAt(chain, n) = DeckAt(chain, k) => n = k
  BY DEF DeckAt
<1>6. \A q : \A i : i \in K(q) <=> \E r \in R : r[1] = c /\ DeckAt(chain, r[2]) = q /\ r[3] = i
  OBVIOUS
<1> HIDE DEF K
<1>7. \A q \in DOMAIN chain : new[q] \in SoundDecks /\ new[q].bits = K(q)
  <2>1. ASSUME NEW q \in DOMAIN chain PROVE DeckCollect(chain[q], K(q)) \in SoundDecks
                                     /\ DeckCollect(chain[q], K(q)).bits = K(q)
    <3>1. chain[q] \in SoundDecks
      OBVIOUS
    <3>2. QED BY <1>2, <3>1, DeckCollects
  <2>2. QED BY <1>3, <2>1
<1>8. new \in Seq(SoundDecks) /\ Len(new) = Len(chain)
  <2>1. DOMAIN new = 1..Len(chain) /\ Len(chain) \in Nat
    BY <1>3
  <2>2. new \in [1..Len(chain) -> SoundDecks]
    BY <1>3, <1>7
  <2>3. QED BY <2>1, <2>2
<1>9. \A n : DeckAt(new, n) = DeckAt(chain, n)
  BY <1>8 DEF DeckAt
<1>10. \A p : p \in CellsIn(c, new) <=>
          \E n \in 1..Len(new) : \E i \in new[DeckAt(new, n)].bits : p = <<c, n, i>>
  BY <1>8, CellsByNumber
<1>11. ASSUME NEW p, p \in CellsIn(c, new) PROVE p \in R /\ p[1] = c
  <2>1. PICK n \in 1..Len(chain) : \E i \in new[DeckAt(chain, n)].bits : p = <<c, n, i>>
    BY <1>8, <1>9, <1>10, <1>11
  <2>2. PICK i \in new[DeckAt(chain, n)].bits : p = <<c, n, i>>
    BY <2>1
  <2>3. i \in K(DeckAt(chain, n))
    BY <1>4, <1>7, <2>2
  <2>4. PICK r \in R : r[1] = c /\ DeckAt(chain, r[2]) = DeckAt(chain, n) /\ r[3] = i
    BY <1>6, <2>3
  <2>5. r[2] = n /\ r = <<c, r[2], r[3]>>
    BY <1>1, <1>5, <2>4
  <2>6. r = p
    BY <2>2, <2>4, <2>5
  <2>7. QED BY <2>4, <2>6
<1>12. ASSUME NEW p \in R, p[1] = c PROVE p \in CellsIn(c, new)
  <2>1. /\ p[2] \in 1..Len(new) /\ p = <<c, p[2], p[3]>> /\ DeckAt(chain, p[2]) \in DOMAIN chain
    BY <1>1, <1>4, <1>8, <1>12
  <2>2. p[3] \in K(DeckAt(chain, p[2]))
    BY <1>6, <1>12
  <2>3. p[3] \in new[DeckAt(new, p[2])].bits
    BY <1>7, <1>9, <2>1, <2>2
  <2>4. QED BY <1>10, <2>1, <2>3
<1>13. CellsIn(c, new) = {r \in R : r[1] = c}
  BY <1>11, <1>12
<1>14. QED BY <1>8, <1>13

CellsAt(c, n, B) == {<<c, n, i>> : i \in B}

LEMMA CellsOfDeck ==
  ASSUME NEW B, IsFiniteSet(B), NEW c, NEW n
  PROVE  IsFiniteSet(CellsAt(c, n, B)) /\ Cardinality(CellsAt(c, n, B)) = Cardinality(B)
<1> DEFINE f == [i \in B |-> 1]
           P == [i \in B |-> {<<c, n, i>>}]
           Q == [i \in B |-> {i}]
           C == CellsAt(c, n, B)
<1>1. f \in [B -> Nat]
  OBVIOUS
<1>2. \A i \in B : IsFiniteSet(P[i]) /\ f[i] = Cardinality(P[i])
  BY FS_Singleton
<1>3. \A i \in B : IsFiniteSet(Q[i]) /\ f[i] = Cardinality(Q[i])
  BY FS_Singleton
<1>4. \A i, j \in B : i # j => P[i] \cap P[j] = {}
  OBVIOUS
<1>5. \A i, j \in B : i # j => Q[i] \cap Q[j] = {}
  OBVIOUS
<1>6. All(P, B) = C /\ All(Q, B) = B
  BY DEF All, CellsAt
<1> HIDE DEF f, P, Q, C
<1>7. IsFiniteSet(All(P, B)) /\ SumFunction(f) = Cardinality(All(P, B))
  BY <1>1, <1>2, <1>4, SumOfParts
<1>8. SumFunction(f) = Cardinality(All(Q, B))
  BY <1>1, <1>3, <1>5, SumOfParts
<1>9. IsFiniteSet(C) /\ Cardinality(C) = Cardinality(B)
  BY <1>6, <1>7, <1>8, Zenon
<1>10. QED BY <1>9 DEF C

\* The bits of a chain are its cells.
LEMMA ChainCounts ==
  ASSUME NEW c, NEW chain \in Seq(SoundDecks)
  PROVE  /\ IsFiniteSet(CellsIn(c, chain)) /\ Cardinality(CellsIn(c, chain)) \in Nat
         /\ SumFunction([q \in DOMAIN chain |-> Cardinality(chain[q].bits)]) = Cardinality(CellsIn(c, chain))
<1> DEFINE D == DOMAIN chain
           f == [q \in D |-> Cardinality(chain[q].bits)]
           P == [q \in D |-> CellsAt(c, DeckAt(chain, q), chain[q].bits)]
<1>1. IsFiniteSet(D) /\ D = 1..Len(chain)
  BY FS_Interval
<1>2. \A q \in D : IsFiniteSet(chain[q].bits) /\ Cardinality(chain[q].bits) \in Nat
  BY BitsFinite
<1>3. f \in [D -> Nat]
  BY <1>2
<1>4. \A q \in D : IsFiniteSet(P[q]) /\ f[q] = Cardinality(P[q])
  <2>1. ASSUME NEW q \in D PROVE IsFiniteSet(P[q]) /\ f[q] = Cardinality(P[q])
    <3> DEFINE B == chain[q].bits
               n == DeckAt(chain, q)
    <3>1. IsFiniteSet(B)
      BY <1>2
    <3>2. P[q] = CellsAt(c, n, B) /\ f[q] = Cardinality(B)
      OBVIOUS
    <3> HIDE DEF B, n, P, f
    <3>3. IsFiniteSet(CellsAt(c, n, B)) /\ Cardinality(CellsAt(c, n, B)) = Cardinality(B)
      BY <3>1, CellsOfDeck
    <3>4. QED BY <3>2, <3>3, Zenon
  <2>2. QED BY <2>1
<1>5. \A q, r \in D : q # r => P[q] \cap P[r] = {}
  <2>1. \A q, r \in D : q # r => DeckAt(chain, q) # DeckAt(chain, r)
    BY <1>1 DEF DeckAt
  <2>2. QED BY <2>1 DEF CellsAt
<1>6. All(P, D) = CellsIn(c, chain)
  BY DEF All, CellsIn, CellsAt
<1> HIDE DEF P, f
<1>7. IsFiniteSet(All(P, D)) /\ SumFunction(f) = Cardinality(All(P, D))
  BY <1>1, <1>3, <1>4, <1>5, SumOfParts
<1>8. IsFiniteSet(CellsIn(c, chain)) /\ SumFunction(f) = Cardinality(CellsIn(c, chain))
  BY <1>6, <1>7, Zenon
<1>9. QED BY <1>8, FS_CardinalityType DEF f

\* What a sweep counts for each block: its cell, or its own size.
Weigh(m, p) == IF p[1] = 0 THEN m.bigStuff[p[2]] ELSE p[1] * 16
Weights(m) == [p \in BlocksOf(m) |-> Weigh(m, p)]

LEMMA CellsFinite ==
  ASSUME NEW m \in Models
  PROVE  /\ IsFiniteSet(CellsOf(m)) /\ IsFiniteSet(BigIn(m.bigStuff)) /\ IsFiniteSet(BlocksOf(m))
         /\ Weights(m) \in [BlocksOf(m) -> Nat]
         /\ \A p \in CellsOf(m) : Weights(m)[p] = p[1] * 16
         /\ \A k \in DOMAIN m.bigStuff : Weights(m)[<<0, k>>] = m.bigStuff[k] /\ m.bigStuff[k] \in Nat
<1>1. IsFiniteSet(CellsOf(m))
  <2> DEFINE P == [c \in Classes |-> CellsIn(c, m.chunks[c])]
             f == [c \in Classes |-> Cardinality(P[c])]
  <2>1. \A c \in Classes : IsFiniteSet(P[c]) /\ Cardinality(P[c]) \in Nat
    BY BlocksByClass, ChainCounts
  <2>2. \A c, d \in Classes : c # d => P[c] \cap P[d] = {}
    <3>1. \A c \in Classes : \A p \in P[c] : p[1] = c
      BY BlocksByClass
    <3>2. QED BY <3>1
  <2>3. All(P, Classes) = CellsOf(m)
    BY DEF All, CellsOf
  <2> HIDE DEF P
  <2>4. f \in [Classes -> Nat] /\ \A c \in Classes : f[c] = Cardinality(P[c])
    BY <2>1
  <2> HIDE DEF f
  <2>5. IsFiniteSet(All(P, Classes))
    BY <2>1, <2>2, <2>4, ClassesAreNumbers, SumOfParts
  <2>6. QED BY <2>3, <2>5, Zenon
<1>2. m.bigStuff \in BigTables
  BY DEF Models
<1> DEFINE D == DOMAIN m.bigStuff
<1>3. IsFiniteSet(D) /\ m.bigStuff \in [D -> Nat]
  BY <1>2, BigTableType
<1>4. IsFiniteSet(BigIn(m.bigStuff))
  <2>1. IsFiniteSet({0} \X D)
    BY <1>3, FS_Singleton, FS_Product
  <2>2. BigIn(m.bigStuff) \subseteq {0} \X D
    BY DEF BigIn
  <2>3. QED BY <2>1, <2>2, FS_Subset
<1>5. IsFiniteSet(BlocksOf(m))
  BY <1>1, <1>4, FS_Union DEF BlocksOf
<1>6. \A p \in CellsOf(m) : p[1] \in Nat \ {0} /\ p \in BlocksOf(m) /\ Weigh(m, p) = p[1] * 16
                           /\ p[1] * 16 \in Nat
  <2>1. \A p \in CellsOf(m) : p[1] \in Classes /\ p \in BlocksOf(m)
    BY BlocksByClass DEF BlocksOf
  <2>2. QED BY <2>1, ClassesAreNumbers DEF Weigh
<1>7. \A k \in D : <<0, k>> \in BlocksOf(m) /\ Weigh(m, <<0, k>>) = m.bigStuff[k] /\ m.bigStuff[k] \in Nat
  BY <1>3 DEF BlocksOf, BigIn, Weigh
<1>8. \A p \in BlocksOf(m) : Weigh(m, p) \in Nat
  <2>1. ASSUME NEW p \in BigIn(m.bigStuff) PROVE Weigh(m, p) \in Nat
    BY <1>7 DEF BigIn
  <2>2. QED BY <1>6, <2>1 DEF BlocksOf
<1>9. QED BY <1>1, <1>4, <1>5, <1>6, <1>7, <1>8 DEF Weights

\* The bytes a sweep counts, chain by chain and block by block.
LEMMA SweepCounts ==
  ASSUME NEW m \in Models
  PROVE  SumFunction([c \in Classes |-> SweptBytes(m, c)]) + SumFunction(m.bigStuff)
           = SumFunction(Weights(m))
<1> DEFINE W == Weights(m)
           big == m.bigStuff
           K == DOMAIN big
           f == [c \in Classes |-> SweptBytes(m, c)]
           P == [c \in Classes |-> Units(W, CellsIn(c, m.chunks[c]))]
           Q == [k \in K |-> {<<0, k>>} \X (1..big[k])]
           S == BlocksOf(m)
<1>1. /\ IsFiniteSet(CellsOf(m)) /\ IsFiniteSet(BigIn(big)) /\ IsFiniteSet(S)
      /\ W \in [S -> Nat]
      /\ \A p \in CellsOf(m) : W[p] = p[1] * 16
      /\ \A k \in K : W[<<0, k>>] = big[k] /\ big[k] \in Nat
  BY CellsFinite
<1>2. CellsOf(m) \in SUBSET S /\ BigIn(big) \in SUBSET S /\ S = CellsOf(m) \cup BigIn(big)
  BY DEF BlocksOf
<1>3. big \in BigTables
  BY DEF Models
<1>4. IsFiniteSet(K) /\ big \in [K -> Nat]
  BY <1>3, BigTableType
<1> HIDE DEF W, big
<1>5. ASSUME NEW c \in Classes
      PROVE  IsFiniteSet(P[c]) /\ f[c] = Cardinality(P[c]) /\ f[c] \in Nat
  <2> DEFINE C == CellsIn(c, m.chunks[c])
             w == c * 16
             n == Cardinality(C)
  <2>1. /\ IsFiniteSet(C) /\ n \in Nat
        /\ SumFunction([q \in DOMAIN m.chunks[c] |-> Cardinality(m.chunks[c][q].bits)]) = n
    BY BlocksByClass, ChainCounts
  <2>2. f[c] = n * c * 16
    BY <2>1 DEF SweptBytes
  <2>3. \A p \in C : p \in CellsOf(m) /\ p[1] = c
    BY BlocksByClass DEF CellsOf
  <2>4. w \in Nat /\ c \in Nat
    BY ClassesAreNumbers
  <2>5. \A p \in C : W[p] = w
    BY <1>1, <2>3
  <2> HIDE DEF C, w, n
  <2>6. Units(W, C) = C \X (1..w)
    BY <2>5 DEF Units
  <2>7. IsFiniteSet(1..w) /\ Cardinality(1..w) = w
    BY <2>4, FS_Interval
  <2>8. IsFiniteSet(C \X (1..w)) /\ Cardinality(C \X (1..w)) = n * w
    <3>1. /\ IsFiniteSet(C \X (1..w))
          /\ Cardinality(C \X (1..w)) = Cardinality(C) * Cardinality(1..w)
      BY <2>1, <2>7, FS_Product
    <3>2. Cardinality(C) = n /\ Cardinality(1..w) = w
      BY <2>7 DEF n
    <3>3. QED BY <3>1, <3>2
  <2>9. IsFiniteSet(Units(W, C)) /\ Cardinality(Units(W, C)) = n * w
    BY <2>6, <2>8, Zenon
  <2>10. n * w = n * c * 16 /\ n * w \in Nat
    <3>1. n \in Nat /\ c \in Nat
      BY <2>1, <2>4
    <3>2. QED BY <3>1 DEF w
  <2>11. P[c] = Units(W, C)
    BY DEF C
  <2>12. QED BY <2>2, <2>9, <2>10, <2>11
<1>6. \A c, d \in Classes : c # d => P[c] \cap P[d] = {}
  <2>1. \A c \in Classes : \A u \in P[c] : u[1][1] = c
    <3>1. \A c \in Classes : \A u \in P[c] : u[1] \in CellsIn(c, m.chunks[c])
      BY DEF Units
    <3>2. QED BY <3>1, BlocksByClass
  <2>2. QED BY <2>1
<1>7. All(P, Classes) = Units(W, CellsOf(m))
  BY DEF All, Units, CellsOf
<1>8. ASSUME NEW k \in K
      PROVE  IsFiniteSet(Q[k]) /\ big[k] = Cardinality(Q[k])
  <2>1. big[k] \in Nat
    BY <1>1
  <2>2. QED BY <2>1, OneUnits
<1>9. \A k, j \in K : k # j => Q[k] \cap Q[j] = {}
  OBVIOUS
<1>10. All(Q, K) = Units(W, BigIn(big))
  <2>1. \A k \in K : W[<<0, k>>] = big[k]
    BY <1>1
  <2>2. QED BY <2>1 DEF All, Units, BigIn
<1>11. f \in [Classes -> Nat]
  <2>1. DOMAIN f = Classes /\ f = [c \in Classes |-> f[c]]
    OBVIOUS
  <2> HIDE DEF f
  <2>2. \A c \in Classes : f[c] \in Nat
    BY <1>5
  <2>3. QED BY <2>1, <2>2
<1> HIDE DEF f, P, Q, S, K
<1>12. SumFunction(f) = Cardinality(All(P, Classes)) /\ IsFiniteSet(All(P, Classes))
  BY <1>5, <1>6, <1>11, ClassesAreNumbers, SumOfParts
<1>13. SumFunction(big) = Cardinality(All(Q, K)) /\ IsFiniteSet(All(Q, K))
  BY <1>4, <1>8, <1>9, SumOfParts
<1>14. Units(W, S) = Units(W, CellsOf(m)) \cup Units(W, BigIn(big))
  BY <1>2 DEF Units
<1>15. Units(W, CellsOf(m)) \cap Units(W, BigIn(big)) = {}
  <2>1. \A u \in Units(W, CellsOf(m)) : u[1] \in CellsOf(m)
    BY DEF Units
  <2>2. \A u \in Units(W, BigIn(big)) : u[1] \in BigIn(big)
    BY DEF Units
  <2>3. CellsOf(m) \cap BigIn(big) = {}
    BY BlocksByClass DEF big
  <2>4. QED BY <2>1, <2>2, <2>3
<1> DEFINE A == Units(W, CellsOf(m))
           B == Units(W, BigIn(big))
<1>16. IsFiniteSet(A) /\ SumFunction(f) = Cardinality(A)
  BY <1>7, <1>12, Zenon
<1>17. IsFiniteSet(B) /\ SumFunction(big) = Cardinality(B)
  BY <1>10, <1>13, Zenon
<1> HIDE DEF A, B
<1>18. Cardinality(A \cup B) = Cardinality(A) + Cardinality(B)
  <2>1. A \cap B = {}
    BY <1>15 DEF A, B
  <2>2. QED BY <2>1, <1>16, <1>17, DisjointUnion
<1>19. SumFunction(W) = Cardinality(Units(W, S))
  BY <1>1, SumIsCount
<1>20. Cardinality(Units(W, S)) = Cardinality(A \cup B)
  BY <1>14, Zenon DEF A, B
<1>21. SumFunction(f) + SumFunction(big) = SumFunction(W)
  BY <1>16, <1>17, <1>18, <1>19, <1>20
<1>22. QED BY <1>21 DEF f, big, W

LEMMA Sweeps ==
  ASSUME NEW m, HeapOK(m, held), NEW R \in SUBSET DOMAIN held
  PROVE  LET m1 == sweep(m, R)
             h1 == Restrict(held, R)
         IN /\ HeapOK(m1, h1) /\ BytesOf(h1) <= BytesOf(held) /\ m1.totalAllocated >= BytesOf(h1)
            /\ kind = "data" => m1.totalAllocated = BytesOf(h1)
<1> DEFINE marked == {p \in R : MarkFinds(p, held[p].size)}
           chunks == [c \in Classes |-> [q \in DOMAIN m.chunks[c] |->
                       DeckCollect(m.chunks[c][q],
                         {p[3] : p \in {r \in marked : r[1] = c /\ DeckAt(m.chunks[c], r[2]) = q}})]]
           big    == Restrict(m.bigStuff, {p[2] : p \in {r \in marked : r[1] = 0}})
           swept  == [m EXCEPT !.chunks = chunks, !.bigStuff = big]
           t      == SumFunction([c \in Classes |-> SweptBytes(swept, c)]) + SumFunction(big)
           m1     == sweep(m, R)
           h1     == Restrict(held, R)
<1>1. /\ m \in Models /\ Ledger(held) /\ DOMAIN held = BlocksOf(m)
      /\ \A p \in DOMAIN held : MarkFinds(p, held[p].size)
      /\ \A p \in DOMAIN held : p[1] = 0 => m.bigStuff[p[2]] = Aligned(held[p].size)
  BY DEF HeapOK
<1>2. m1 = [swept EXCEPT !.totalAllocated = t]
  BY Zenon DEF sweep
<1>3. marked = R
  BY <1>1
<1> HIDE DEF m1, t, swept, chunks, big, marked
<1>4. /\ \A p \in R : p[1] \in Classes \/ p[1] = 0
      /\ \A p \in R : p[1] \in Classes => p \in CellsIn(p[1], m.chunks[p[1]])
      /\ \A p \in R : p[1] = 0 => p[2] \in DOMAIN m.bigStuff /\ p = <<0, p[2]>>
      /\ \A c \in Classes : m.chunks[c] \in Seq(SoundDecks)
      /\ 0 \notin Classes
  <2>1. \A p \in R : p \in CellsOf(m) \/ p \in BigIn(m.bigStuff)
    BY <1>1 DEF BlocksOf
  <2>2. QED BY <1>1, <2>1, BlocksByClass
<1>5. ASSUME NEW c \in Classes
      PROVE  chunks[c] \in Seq(SoundDecks) /\ CellsIn(c, chunks[c]) = {r \in R : r[1] = c}
  <2> DEFINE chain == m.chunks[c]
             new == chunks[c]
  <2>1. Collected(c, chain, new, R)
    BY <1>3 DEF Collected, chunks
  <2>2. chain \in Seq(SoundDecks) /\ \A r \in R : r[1] = c => r \in CellsIn(c, chain)
    BY <1>4
  <2> HIDE DEF chain, new
  <2>3. new \in Seq(SoundDecks) /\ CellsIn(c, new) = {r \in R : r[1] = c}
    BY <2>1, <2>2, ChainCollects
  <2>4. QED BY <2>3 DEF new
<1>6. chunks \in [Classes -> Seq(SoundDecks)]
  <2>1. DOMAIN chunks = Classes /\ chunks = [c \in Classes |-> chunks[c]]
    BY DEF chunks
  <2>2. QED BY <1>5, <2>1
<1>7. /\ big \in BigTables /\ DOMAIN big = {p[2] : p \in {r \in R : r[1] = 0}}
      /\ \A k \in DOMAIN big : k \in DOMAIN m.bigStuff /\ big[k] = m.bigStuff[k]
  <2> DEFINE K == {p[2] : p \in {r \in R : r[1] = 0}}
  <2>1. K \subseteq DOMAIN m.bigStuff
    BY <1>4
  <2>2. big = [k \in K |-> m.bigStuff[k]]
    BY <1>3 DEF big, Restrict
  <2> HIDE DEF K
  <2>3. m.bigStuff \in BigTables
    BY <1>1 DEF Models
  <2>4. /\ DOMAIN m.bigStuff \subseteq Nat \ {0} /\ IsFiniteSet(DOMAIN m.bigStuff)
        /\ m.bigStuff \in [DOMAIN m.bigStuff -> Nat]
    BY <2>3, BigTableType
  <2>5. IsFiniteSet(K)
    BY <2>1, <2>4, FS_Subset
  <2>6. big \in [K -> Nat] /\ DOMAIN big = K /\ K \in SUBSET (Nat \ {0})
    BY <2>1, <2>2, <2>4
  <2>7. big \in BigTables
    BY <2>5, <2>6 DEF BigTables
  <2>8. \A k \in DOMAIN big : k \in DOMAIN m.bigStuff /\ big[k] = m.bigStuff[k]
    BY <2>1, <2>2, <2>6
  <2>9. QED BY <2>6, <2>7, <2>8 DEF K
<1>8. swept \in Models /\ swept.chunks = chunks /\ swept.bigStuff = big
  <2> DEFINE x == [m EXCEPT !.chunks = chunks]
             y == [x EXCEPT !.bigStuff = big]
  <2>1. x \in Models /\ x.chunks = chunks
    BY <1>1, <1>6 DEF Models
  <2> HIDE DEF x
  <2>2. y \in Models /\ y.chunks = chunks /\ y.bigStuff = big
    BY <2>1, <1>7 DEF Models
  <2>3. swept = y
    BY DEF swept, y, x
  <2>4. QED BY <2>2, <2>3
<1>9. BlocksOf(swept) = R
  <2>1. ASSUME NEW p \in R PROVE p \in BlocksOf(swept)
    <3>1. CASE p[1] \in Classes
      <4>1. p \in CellsIn(p[1], chunks[p[1]])
        BY <1>5, <3>1
      <4>2. QED BY <3>1, <4>1, <1>8 DEF BlocksOf, CellsOf
    <3>2. CASE p[1] = 0
      <4>1. p[2] \in DOMAIN big /\ p = <<0, p[2]>>
        BY <1>4, <1>7, <3>2
      <4>2. QED BY <4>1, <1>8 DEF BlocksOf, BigIn
    <3>3. QED BY <3>1, <3>2, <1>4
  <2>2. ASSUME NEW p \in BlocksOf(swept) PROVE p \in R
    <3>1. CASE p \in CellsOf(swept)
      BY <3>1, <1>5, <1>8 DEF CellsOf
    <3>2. CASE p \in BigIn(big)
      <4>1. PICK k \in DOMAIN big : p = <<0, k>>
        BY <3>2 DEF BigIn
      <4>2. PICK r \in R : r[1] = 0 /\ r[2] = k
        BY <1>7, <4>1
      <4>3. r = p
        BY <1>4, <4>1, <4>2
      <4>4. QED BY <4>3
    <3>3. QED BY <3>1, <3>2, <1>8 DEF BlocksOf
  <2>3. QED BY <2>1, <2>2
<1>10. t = SumFunction(Weights(swept))
  BY <1>8, SweepCounts DEF t
<1> DEFINE W == Weights(swept)
           f == Bytes(h1)
           g == Bytes(held)
           H == DOMAIN held
<1>11. /\ h1 = [p \in R |-> held[p]] /\ DOMAIN h1 = R /\ Ledger(h1)
       /\ \A p \in R : h1[p] = held[p]
  <2>1. h1 = [p \in R |-> held[p]]
    BY DEF Restrict
  <2>2. IsFiniteSet(H) /\ \A p \in H : held[p] \in Holdings
    BY <1>1 DEF Ledger
  <2>3. IsFiniteSet(R)
    BY <2>2, FS_Subset
  <2> HIDE DEF h1
  <2>4. h1 \in [R -> Holdings] /\ DOMAIN h1 = R /\ \A p \in R : h1[p] = held[p]
    BY <2>1, <2>2
  <2>5. QED BY <2>1, <2>3, <2>4 DEF Ledger
<1> HIDE DEF h1
<1>12. /\ IsFiniteSet(R) /\ f \in [R -> Nat] /\ g \in [H -> Nat] /\ W \in [R -> Nat] /\ IsFiniteSet(H)
  <2>1. IsFiniteSet(R) /\ f \in [R -> Nat]
    BY <1>11, LedgerBytes DEF Ledger
  <2>2. g \in [H -> Nat] /\ IsFiniteSet(H)
    BY <1>1, LedgerBytes DEF Ledger
  <2>3. W \in [R -> Nat]
    BY <1>8, <1>9, CellsFinite
  <2>4. QED BY <2>1, <2>2, <2>3
<1>13. \A p \in R : f[p] = Aligned(held[p].size) /\ g[p] = Aligned(held[p].size) /\ W[p] = Weigh(swept, p)
  BY <1>9, <1>11 DEF Bytes, Weights
<1>14. ASSUME NEW p \in R
       PROVE  /\ Aligned(held[p].size) <= Weigh(swept, p)
              /\ kind = "data" => Aligned(held[p].size) = Weigh(swept, p)
  <2> DEFINE n == held[p].size
  <2>1. n \in Nat \ {0} /\ MarkFinds(p, n)
    BY <1>1, LedgerBytes
  <2>2. CASE p[1] = 0
    <3>1. p[2] \in DOMAIN big
      BY <1>7, <2>2
    <3>2. Weigh(swept, p) = Aligned(n)
      BY <1>1, <1>7, <1>8, <2>2, <3>1 DEF Weigh
    <3>3. QED BY <2>1, <3>2, Rounding
  <2>3. CASE p[1] # 0
    <3>1. p[1] = Class(n)
      BY <2>1, <2>3 DEF MarkFinds
    <3>2. Weigh(swept, p) = Class(n) * 16
      BY <2>3, <3>1 DEF Weigh
    <3> HIDE DEF n
    <3>3. /\ Class(n) \in Nat /\ Aligned(n) \in Nat /\ Aligned(n) <= 16 * Class(n)
          /\ kind = "data" => Aligned(n) = 16 * Class(n)
      BY <2>1, Rounding
    <3>4. Aligned(n) <= Weigh(swept, p) /\ (kind = "data" => Aligned(n) = Weigh(swept, p))
      BY <3>2, <3>3
    <3>5. QED BY <3>4 DEF n
  <2>4. QED BY <2>2, <2>3
<1> HIDE DEF f, g, W, H
<1>15. SumFunction(f) <= SumFunction(W)
  BY <1>12, <1>13, <1>14, SumGrows
<1>16. SumFunction(f) <= SumFunction(g)
  <2>1. \A p \in R : f[p] <= g[p] /\ R \subseteq H
    BY <1>12, <1>13 DEF H
  <2>2. R \subseteq H
    BY DEF H
  <2>3. QED BY <1>12, <2>1, <2>2, SumGrows
<1>17. kind = "data" => f = W
  BY <1>12, <1>13, <1>14
<1>18. SumFunction(f) \in Nat
  BY <1>11, LedgerBytes DEF f, BytesOf
<1>19. SumFunction(W) \in Nat
  <2>1. SumFunction(W) = Cardinality(Units(W, R))
    BY <1>12, SumIsCount
  <2>2. R \in SUBSET R
    OBVIOUS
  <2>3. Cardinality(Units(W, R)) \in Nat
    BY <1>12, <2>2, UnitsFinite
  <2>4. QED BY <2>1, <2>3
<1>20. t \in Int /\ t >= SumFunction(f) /\ (kind = "data" => t = SumFunction(f))
  <2>1. t = SumFunction(W)
    BY <1>10 DEF W
  <2>2. kind = "data" => SumFunction(W) = SumFunction(f)
    BY <1>17
  <2>3. QED BY <2>1, <2>2, <1>15, <1>18, <1>19
<1>21. /\ m1 \in Models /\ m1.chunks = swept.chunks /\ m1.bigStuff = swept.bigStuff
       /\ m1.totalAllocated = t
  BY <1>2, <1>8, <1>20 DEF Models
<1>22. BlocksOf(m1) = R
  BY <1>9, <1>21, Zenon DEF BlocksOf, CellsOf
<1>23. \A p \in DOMAIN h1 : MarkFinds(p, h1[p].size)
  BY <1>1, <1>11
<1>24. ASSUME NEW p \in DOMAIN h1, p[1] = 0 PROVE m1.bigStuff[p[2]] = Aligned(h1[p].size)
  <2>1. p \in R /\ p[2] \in DOMAIN big /\ h1[p] = held[p]
    BY <1>7, <1>11, <1>24
  <2>2. QED BY <1>1, <1>7, <1>8, <1>21, <1>24, <2>1
<1>25. HeapOK(m1, h1)
  BY <1>11, <1>21, <1>22, <1>23, <1>24 DEF HeapOK
<1>26. QED BY <1>16, <1>20, <1>21, <1>25 DEF m1, h1, f, g, BytesOf

LEMMA NothingHeld ==
  <<>> \in BigTables /\ BigIn(<<>>) = {} /\ Ledger(<<>>) /\ DOMAIN <<>> = {} /\ BytesOf(<<>>) = 0
<1>1. DOMAIN <<>> = {} /\ IsFiniteSet({})
  BY FS_EmptySet
<1>2. <<>> \in [{} -> Nat] /\ <<>> \in [{} -> Holdings]
  OBVIOUS
<1>3. <<>> \in BigTables
  <2>1. {} \in SUBSET (Nat \ {0})
    OBVIOUS
  <2>2. QED BY <1>1, <1>2, <2>1 DEF BigTables
<1>4. Ledger(<<>>)
  BY <1>1, <1>2 DEF Ledger
<1>5. BigIn(<<>>) = {}
  BY <1>1 DEF BigIn
<1>6. BytesOf(<<>>) = 0
  <2> DEFINE f == Bytes(<<>>)
  <2>1. f \in [{} -> Nat]
    BY <1>1, <1>4, LedgerBytes
  <2>2. Units(f, {}) = {}
    BY DEF Units
  <2> HIDE DEF f
  <2>3. SumFunction(f) = Cardinality(Units(f, {}))
    BY <1>1, <2>1, SumIsCount
  <2>4. Cardinality(Units(f, {})) = 0
    BY <2>2, FS_EmptySet
  <2>5. QED BY <2>3, <2>4 DEF BytesOf, f
<1>7. QED BY <1>1, <1>3, <1>4, <1>5, <1>6

LEMMA EmptyHeap ==
  ASSUME NEW m \in Models, m.bigStuff = <<>>, \A c \in Classes : CellsIn(c, m.chunks[c]) = {}
  PROVE  HeapOK(m, <<>>)
<1>1. CellsOf(m) = {}
  BY DEF CellsOf
<1>2. BlocksOf(m) = {}
  BY <1>1, NothingHeld DEF BlocksOf
<1>3. QED BY <1>2, NothingHeld DEF HeapOK

LEMMA Starts == HeapOK(Empty, <<>>) /\ Empty.totalAllocated = 0
<1>1. \A c \in Classes : CellsIn(c, <<>>) = {} /\ <<>> \in Seq(SoundDecks)
  BY DEF CellsIn
<1>2. Empty \in Models
  BY <1>1, NothingHeld DEF Empty, Models
<1>3. /\ Empty.bigStuff = <<>> /\ Empty.totalAllocated = 0
      /\ \A c \in Classes : CellsIn(c, Empty.chunks[c]) = {}
  BY <1>1 DEF Empty
<1>4. QED BY <1>2, <1>3, EmptyHeap

LEMMA Resets ==
  ASSUME NEW m \in Models
  PROVE  HeapOK(reset(m), <<>>) /\ reset(m).totalAllocated = m.totalAllocated
<1> DEFINE chunks == [c \in Classes |-> [q \in DOMAIN m.chunks[c] |-> DeckReset(m.chunks[c][q])]]
           x == [m EXCEPT !.chunks = chunks]
           y == [x EXCEPT !.bigStuff = <<>>]
<1>1. ASSUME NEW c \in Classes
      PROVE  chunks[c] \in Seq(SoundDecks) /\ CellsIn(c, chunks[c]) = {}
  <2> DEFINE chain == m.chunks[c]
             new == chunks[c]
  <2>1. chain \in Seq(SoundDecks)
    BY BlocksByClass
  <2>2. new = [q \in DOMAIN chain |-> DeckReset(chain[q])]
    OBVIOUS
  <2> HIDE DEF new, chain
  <2>3. \A q \in DOMAIN chain : DeckReset(chain[q]) = DeckCollect(chain[q], {})
    <3>1. ASSUME NEW q \in DOMAIN chain PROVE DeckReset(chain[q]) = DeckCollect(chain[q], {})
      <4>1. chain[q] \in SoundDecks /\ {} \in SUBSET chain[q].bits
        BY <2>1
      <4>2. QED BY <4>1, DeckCollects
    <3>2. QED BY <3>1
  <2> DEFINE R == {}
  <2>4. Collected(c, chain, new, R)
    BY <2>2, <2>3 DEF Collected
  <2>5. \A r \in R : r[1] = c => r \in CellsIn(c, chain)
    OBVIOUS
  <2>6. {r \in R : r[1] = c} = {}
    OBVIOUS
  <2> HIDE DEF R
  <2>7. new \in Seq(SoundDecks) /\ CellsIn(c, new) = {r \in R : r[1] = c}
    BY <2>1, <2>4, <2>5, ChainCollects
  <2>8. QED BY <2>6, <2>7 DEF new
<1>2. reset(m) = y
  BY DEF reset
<1>3. chunks \in [Classes -> Seq(SoundDecks)]
  BY <1>1
<1> HIDE DEF chunks
<1>4. x \in Models /\ x.totalAllocated = m.totalAllocated /\ x.chunks = chunks
  BY <1>3 DEF Models
<1> HIDE DEF x
<1>5. y \in Models /\ y.totalAllocated = m.totalAllocated /\ y.chunks = chunks /\ y.bigStuff = <<>>
  BY <1>4, NothingHeld DEF Models
<1> HIDE DEF y
<1>6. QED BY <1>1, <1>2, <1>5, EmptyHeap

-----------------------------------------------------------------------------
(* What the operations of the allocators do to both.                       *)

HoldingTexts == Texts \cup {NoText}

\* A refused request may be counted when the first deck has no cell.
Refused(size) ==
  /\ ret' = <<"out of memory", {}>> /\ UNCHANGED <<held, internMap>>
  /\ ~WithinLimit(size) \/ ~HintSuffices
  /\ \/ model'.totalAllocated = model.totalAllocated
     \/ ~HintSuffices /\ WithinLimit(size) /\ model'.totalAllocated = model.totalAllocated + Aligned(size)

Granted(size, text, S, p) ==
  /\ ret' = <<"block", {p}>> /\ p \notin DOMAIN held /\ DOMAIN held' = DOMAIN held \cup {p}
  /\ held'[p] = Holding(p, size, text) /\ \A q \in DOMAIN held : held'[q] = held[q]
  /\ internMap' = internMap \cup {[text |-> t, ptr |-> p] : t \in S}
  /\ WithinLimit(size) /\ model'.totalAllocated = model.totalAllocated + Aligned(size)
  /\ BytesOf(held') = BytesOf(held) + Aligned(size)

LEMMA RequestStep ==
  ASSUME HeapOK(model, held), NEW size \in Nat \ {0}, NEW text \in HoldingTexts, NEW S,
         Request(size, text, S)
  PROVE  HeapOK(model', held') /\ (Refused(size) \/ \E p : Granted(size, text, S, p))
<1> DEFINE r == allocate(model, size)
<1>1. model \in Models /\ Ledger(held) /\ DOMAIN held = BlocksOf(model)
  BY DEF HeapOK
<1>2. CASE ~WithinLimit(size)
  <2>1. model' = model /\ ret' = <<"out of memory", {}>> /\ held' = held /\ internMap' = internMap
    BY <1>2 DEF Request
  <2>2. QED BY <1>2, <2>1 DEF Refused
<1>3. CASE WithinLimit(size)
  <2>1. /\ model' = r[1]
        /\ \/ /\ r[2] = {} /\ ret' = <<"out of memory", {}>> /\ held' = held /\ internMap' = internMap
           \/ \E p \in r[2] :
                /\ ret' = <<"block", {p}>> /\ held' = Hold(p, size, text)
                /\ internMap' = internMap \cup {[text |-> t, ptr |-> p] : t \in S}
    BY <1>3 DEF Request
  <2>2. /\ r[1] \in Models /\ r[1].totalAllocated = model.totalAllocated + Aligned(size)
        /\ \/ /\ r[2] = {} /\ ~HintSuffices /\ BlocksOf(r[1]) = BlocksOf(model)
              /\ r[1].bigStuff = model.bigStuff
           \/ \E p : r[2] = {p} /\ Given(model, r[1], size, p)
    BY <1>1, Allocates
  <2> HIDE DEF r
  <2>3. CASE r[2] = {}
    <3>1. /\ ret' = <<"out of memory", {}>> /\ held' = held /\ internMap' = internMap
          /\ model' = r[1] /\ ~HintSuffices
          /\ BlocksOf(r[1]) = BlocksOf(model) /\ r[1].bigStuff = model.bigStuff
      BY <2>1, <2>2, <2>3
    <3>2. HeapOK(model', held')
      BY <2>2, <3>1 DEF HeapOK
    <3>3. QED BY <1>3, <2>2, <3>1, <3>2 DEF Refused
  <2>4. CASE r[2] # {}
    <3>1. PICK p : r[2] = {p} /\ Given(model, r[1], size, p)
      BY <2>2, <2>4
    <3> DEFINE x == Holding(p, size, text)
    <3>2. /\ model' = r[1] /\ ret' = <<"block", {p}>> /\ held' = Hold(p, size, text)
          /\ internMap' = internMap \cup {[text |-> t, ptr |-> p] : t \in S}
      BY <2>1, <3>1
    <3>3. x \in Holdings /\ x.size = size
      BY DEF Holding, Holdings, HoldingTexts
    <3>4. Entered(held, held', p, x)
      BY <3>2, Zenon DEF Entered, Hold
    <3> HIDE DEF x
    <3>5. p \notin DOMAIN held /\ Given(model, model', x.size, p)
      BY <1>1, <3>1, <3>2, <3>3 DEF Given
    <3>6. HeapOK(model', held') /\ BytesOf(held') = BytesOf(held) + Aligned(size)
      BY <3>3, <3>4, <3>5, Gives
    <3>7. DOMAIN held' = DOMAIN held \cup {p} /\ held'[p] = x /\ \A q \in DOMAIN held : held'[q] = held[q]
      <4>1. held' = [q \in DOMAIN held \cup {p} |-> IF q = p THEN x ELSE held[q]]
        BY <3>4 DEF Entered
      <4>2. DOMAIN held' = DOMAIN held \cup {p}
        BY <4>1
      <4>3. held'[p] = x
        BY <4>1
      <4>4. ASSUME NEW q \in DOMAIN held PROVE held'[q] = held[q]
        <5>1. q # p
          BY <3>5
        <5>2. QED BY <4>1, <5>1
      <4>5. QED BY <4>2, <4>3, <4>4
    <3>8. model'.totalAllocated = model.totalAllocated + Aligned(size)
      BY <2>2, <3>2
    <3>9. Granted(size, text, S, p)
      BY <1>3, <3>2, <3>5, <3>6, <3>7, <3>8 DEF Granted, x
    <3>10. QED BY <3>6, <3>9
  <2>5. QED BY <2>3, <2>4
<1>4. QED BY <1>2, <1>3

LEMMA FreeStep ==
  ASSUME HeapOK(model, held), NEW p \in DOMAIN held,
         model' = free(model, p, held[p].size),
         NEW h1, Struck(held, h1, p)
  PROVE  /\ HeapOK(model', h1) /\ DOMAIN h1 = DOMAIN held \ {p} /\ \A q \in DOMAIN h1 : h1[q] = held[q]
         /\ BytesOf(held) = BytesOf(h1) + Aligned(held[p].size) /\ Aligned(held[p].size) \in Nat
         /\ model'.totalAllocated = model.totalAllocated - Aligned(held[p].size)
<1>1. Ledger(held)
  BY DEF HeapOK
<1>2. Aligned(held[p].size) \in Nat
  BY <1>1, LedgerBytes, Rounding
<1>3. DOMAIN h1 = DOMAIN held \ {p} /\ \A q \in DOMAIN h1 : h1[q] = held[q]
  BY <1>1, StrikeCounts
<1>4. QED BY <1>2, <1>3, Takes

LEMMA Alignments == alignMask \in {3, 15}
  BY DEF alignMask

\* reallocate asks for what it has aligned already.
LEMMA GivenAligned ==
  ASSUME NEW m, NEW m1, NEW n \in Nat, NEW p, Given(m, m1, Aligned(n), p)
  PROVE  Given(m, m1, n, p)
<1>1. Aligned(n) \in Nat /\ Aligned(Aligned(n)) = Aligned(n) /\ Class(Aligned(n)) = Class(n)
  BY Rounding
<1>2. RoundTo(n, 16) = 16 * Class(n) /\ RoundTo(Aligned(n), 16) = 16 * Class(Aligned(n))
  BY <1>1, Rounding
<1>3. MarkFinds(p, Aligned(n)) <=> MarkFinds(p, n)
  BY <1>1, <1>2 DEF MarkFinds
<1>4. QED BY <1>1, <1>3 DEF Given

Moved(p, nsize, new) ==
  /\ ret' = <<"moved", {new}>> /\ new \notin DOMAIN held
  /\ DOMAIN held' = (DOMAIN held \ {p}) \cup {new}
  /\ WithinLimit(nsize - held[p].size)
  /\ model'.totalAllocated = model.totalAllocated + Aligned(nsize) - Aligned(held[p].size)
  /\ BytesOf(held') = BytesOf(held) + Aligned(nsize) - Aligned(held[p].size)

LEMMA ReallocateStep ==
  ASSUME HeapOK(model, held), NEW p \in DOMAIN held, NEW nsize \in Nat, Reallocate(p, nsize)
  PROVE  /\ kind = "data" /\ HeapOK(model', held')
         /\ held[p].size \in Nat \ {0} /\ nsize \in Nat \ {0}
         /\ \/ /\ ~WithinLimit(nsize - held[p].size) /\ ret' = <<"out of memory", {}>>
               /\ UNCHANGED <<model, held>>
            \/ \E new : Moved(p, nsize, new)
<1> DEFINE a == Aligned(nsize)
           r == allocate(model, a)
           size == held[p].size
<1>1. model \in Models /\ Ledger(held) /\ DOMAIN held = BlocksOf(model)
  BY DEF HeapOK
<1>2. kind = "data" /\ nsize \in Nat \ {0}
  <2>1. kind = "data" /\ nsize > 0
    BY DEF Reallocate
  <2>2. QED BY <2>1
<1>3. size \in Nat \ {0}
  BY <1>1, LedgerBytes
<1> DEFINE res == reallocate(model, p, size, nsize)
           Refuse == /\ ~WithinLimit(nsize - size) /\ ret' = <<"out of memory", {}>>
                     /\ model' = model /\ held' = held
           Move == /\ WithinLimit(nsize - size) /\ model' = res[1] /\ ret' = <<"moved", res[2]>>
                   /\ \E new \in res[2] :
                        held' = [q \in (DOMAIN held \ {p}) \cup {new} |->
                                   IF q = new THEN Holding(q, nsize, NoText) ELSE held[q]]
<1>4. Move \/ Refuse
  BY DEF Reallocate
<1>5. res = <<free(r[1], p, size), r[2]>>
  BY DEF reallocate
<1> HIDE DEF res
<1>6. CASE Refuse
  <2>1. HeapOK(model', held')
    BY <1>6
  <2>2. QED BY <1>2, <1>3, <1>6, <2>1
<1>7. CASE Move
  <2>1. /\ WithinLimit(nsize - size)
        /\ model' = free(r[1], p, size) /\ ret' = <<"moved", r[2]>>
        /\ \E new \in r[2] :
             held' = [q \in (DOMAIN held \ {p}) \cup {new} |->
                        IF q = new THEN Holding(q, nsize, NoText) ELSE held[q]]
    <3> HIDE DEF r, size
    <3>1. res[1] = free(r[1], p, size) /\ res[2] = r[2]
      BY <1>5
    <3>2. QED BY <1>7, <3>1
  <2>2. a \in Nat \ {0} /\ Aligned(a) = a
    BY <1>2, Rounding
  <2> HIDE DEF a
  <2>3. /\ r[1] \in Models /\ r[1].totalAllocated = model.totalAllocated + Aligned(a)
        /\ \/ r[2] = {}
           \/ \E new : r[2] = {new} /\ Given(model, r[1], a, new)
    BY <1>1, <2>2, Allocates
  <2> HIDE DEF r
  <2>4. PICK new : r[2] = {new} /\ Given(model, r[1], a, new)
    BY <2>1, <2>3
  <2> DEFINE x == Holding(new, nsize, NoText)
             h1 == [q \in DOMAIN held \cup {new} |-> IF q = new THEN x ELSE held[q]]
             m1 == r[1]
  <2>5. x \in Holdings /\ x.size = nsize
    BY <1>2 DEF Holding, Holdings
  <2>6. Given(model, m1, x.size, new)
    BY <1>2, <2>4, <2>5, GivenAligned DEF a
  <2>7. new \notin DOMAIN held
    BY <1>1, <2>4 DEF Given
  <2>8. held' = [q \in (DOMAIN held \ {p}) \cup {new} |-> IF q = new THEN x ELSE held[q]]
    BY <2>1, <2>4 DEF Holding
  <2>9. Entered(held, h1, new, x)
    BY DEF Entered
  <2> HIDE DEF x
  <2>10. /\ DOMAIN h1 = DOMAIN held \cup {new} /\ p \in DOMAIN h1 /\ h1[p] = held[p]
    BY <2>7
  <2>11. Struck(h1, held', p)
    BY <2>7, <2>8 DEF Struck
  <2> HIDE DEF h1, m1
  <2>12. HeapOK(m1, h1) /\ BytesOf(h1) = BytesOf(held) + Aligned(nsize)
    <3>1. HeapOK(m1, h1) /\ BytesOf(h1) = BytesOf(held) + Aligned(x.size)
      BY <2>5, <2>6, <2>9, Gives
    <3>2. QED BY <2>5, <3>1
  <2>13. /\ HeapOK(free(m1, p, h1[p].size), held')
         /\ BytesOf(h1) = BytesOf(held') + Aligned(h1[p].size)
         /\ free(m1, p, h1[p].size).totalAllocated = m1.totalAllocated - Aligned(h1[p].size)
    BY <2>10, <2>11, <2>12, Takes
  <2>14. model' = free(m1, p, h1[p].size) /\ h1[p].size = size
    BY <2>1, <2>10 DEF m1
  <2>15. /\ HeapOK(model', held') /\ BytesOf(h1) = BytesOf(held') + Aligned(size)
         /\ model'.totalAllocated = m1.totalAllocated - Aligned(size)
    BY <2>13, <2>14
  <2>16. m1.totalAllocated = model.totalAllocated + Aligned(nsize)
    BY <2>2, <2>3 DEF m1, a
  <2>17. /\ Aligned(nsize) \in Nat /\ Aligned(size) \in Nat /\ BytesOf(held) \in Nat
         /\ model.totalAllocated \in Int /\ BytesOf(held') \in Nat
    <3>1. Ledger(held')
      BY <2>15 DEF HeapOK
    <3>2. QED BY <1>1, <1>2, <1>3, <3>1, LedgerBytes, Rounding DEF Models
  <2>18. /\ model'.totalAllocated = model.totalAllocated + Aligned(nsize) - Aligned(size)
         /\ BytesOf(held') = BytesOf(held) + Aligned(nsize) - Aligned(size)
    <3> HIDE DEF size
    <3>1. model'.totalAllocated = model.totalAllocated + Aligned(nsize) - Aligned(size)
      BY <2>15, <2>16, <2>17
    <3>2. BytesOf(held') = BytesOf(held) + Aligned(nsize) - Aligned(size)
      BY <2>12, <2>15, <2>17
    <3>3. QED BY <3>1, <3>2
  <2>19. DOMAIN held' = (DOMAIN held \ {p}) \cup {new}
    BY <2>8
  <2>20. Moved(p, nsize, new)
    BY <2>1, <2>4, <2>7, <2>18, <2>19 DEF Moved
  <2>21. QED BY <1>2, <1>3, <2>15, <2>20
<1>8. QED BY <1>4, <1>6, <1>7

\* Who holds a string, and how often, is nothing to the heap.
LEMMA Relabels ==
  ASSUME NEW m, NEW h, HeapOK(m, h), NEW g, g \in [DOMAIN h -> Holdings],
         \A p \in DOMAIN h : g[p].size = h[p].size
  PROVE  HeapOK(m, g) /\ BytesOf(g) = BytesOf(h) /\ DOMAIN g = DOMAIN h
<1>1. /\ m \in Models /\ Ledger(h) /\ DOMAIN h = BlocksOf(m)
      /\ \A p \in DOMAIN h : MarkFinds(p, h[p].size)
      /\ \A p \in DOMAIN h : p[1] = 0 => m.bigStuff[p[2]] = Aligned(h[p].size)
  BY DEF HeapOK
<1>2. DOMAIN g = DOMAIN h
  OBVIOUS
<1>3. Ledger(g)
  <2>1. IsFiniteSet(DOMAIN g)
    BY <1>1, <1>2 DEF Ledger
  <2>2. QED BY <1>2, <2>1 DEF Ledger
<1>4. Bytes(g) = Bytes(h)
  BY <1>2 DEF Bytes
<1>5. BytesOf(g) = BytesOf(h)
  BY <1>4 DEF BytesOf
<1>6. HeapOK(m, g)
  BY <1>1, <1>2, <1>3 DEF HeapOK
<1>7. QED BY <1>2, <1>5, <1>6

-----------------------------------------------------------------------------
(* The invariant.                                                          *)

Counted(total, h, r) ==
  /\ total >= BytesOf(h)
  /\ HintSuffices /\ kind = "data" /\ r = 0 => total = BytesOf(h)

Limited(total) == kind = "data" /\ limit # 0 => total <= limit + alignMask

\* Strings that were given up, and interned ones.
StringsOK(h, dispose, interned) ==
  /\ \A q \in dispose : q \in DOMAIN h /\ h[q].holders = 0
  /\ \A p, q \in dispose : p = q
  /\ dispose # {} => kind = "strings" /\ ~needIntern
  /\ interned # {} => kind = "strings" /\ needIntern
  /\ ~RestartInterned => \A e \in interned : e.ptr \in DOMAIN h /\ h[e.ptr].text = e.text

IInv ==
  /\ kind \in {"data", "strings"} /\ limit \in Nat /\ restarts \in Nat
  /\ needIntern => kind = "strings"
  /\ HeapOK(model, held)
  /\ Counted(model.totalAllocated, held, restarts)
  /\ Limited(model.totalAllocated)
  /\ StringsOK(held, disposeQue, internMap)

\* IInv after a step that leaves the settings alone.
Kept ==
  /\ kind' = kind /\ limit' = limit /\ needIntern' = needIntern /\ restarts' \in Nat
  /\ HeapOK(model', held')
  /\ Counted(model'.totalAllocated, held', restarts')
  /\ Limited(model'.totalAllocated)
  /\ StringsOK(held', disposeQue', internMap')

LEMMA AlignedAfter ==
  ASSUME kind' = kind
  PROVE  alignMask' = alignMask /\ \A n : Aligned(n)' = Aligned(n)
  BY DEF Aligned, alignMask

LEMMA KeptIsInvariant ==
  ASSUME IInv, Kept
  PROVE  IInv'
<1>1. kind' = kind /\ limit' = limit /\ needIntern' = needIntern
  BY DEF Kept
<1>2. /\ kind' \in {"data", "strings"} /\ limit' \in Nat /\ restarts' \in Nat
      /\ needIntern' => kind' = "strings"
      /\ HeapOK(model', held')
      /\ Counted(model'.totalAllocated, held', restarts')
      /\ Limited(model'.totalAllocated)
      /\ StringsOK(held', disposeQue', internMap')
  BY DEF IInv, Kept
<1>3. alignMask' = alignMask
  BY <1>1, AlignedAfter
<1>4. HeapOK(model, held)'
  BY <1>2, <1>3 DEF HeapOK, Aligned
<1>5. BytesOf(held)' = BytesOf(held')
  BY <1>3 DEF BytesOf, Bytes, Aligned
<1>6. Counted(model.totalAllocated, held, restarts)'
  BY <1>1, <1>2, <1>5 DEF Counted
<1>7. Limited(model.totalAllocated)'
  BY <1>1, <1>2, <1>3 DEF Limited
<1>8. StringsOK(held, disposeQue, internMap)'
  BY <1>1, <1>2 DEF StringsOK
<1>9. QED BY <1>2, <1>4, <1>6, <1>7, <1>8 DEF IInv

LEMMA Numbers ==
  ASSUME HeapOK(model, held)
  PROVE  model.totalAllocated \in Int /\ BytesOf(held) \in Nat /\ alignMask \in Nat
  BY LedgerBytes, Alignments DEF HeapOK, Models

LEMMA RequestCounts ==
  ASSUME IInv, NEW size \in Nat \ {0}, NEW text \in HoldingTexts, NEW S,
         Request(size, text, S), kind' = kind, restarts' = restarts
  PROVE  /\ HeapOK(model', held') /\ Counted(model'.totalAllocated, held', restarts')
         /\ Limited(model'.totalAllocated)
<1>1. /\ HeapOK(model, held) /\ Counted(model.totalAllocated, held, restarts)
      /\ Limited(model.totalAllocated) /\ limit \in Nat
  BY DEF IInv
<1>2. HeapOK(model', held') /\ (Refused(size) \/ \E p : Granted(size, text, S, p))
  BY <1>1, RequestStep
<1> DEFINE t == model.totalAllocated
           u == model'.totalAllocated
           a == Aligned(size)
           b == BytesOf(held)
<1>3. t \in Int /\ b \in Nat /\ alignMask \in Nat
  BY <1>1, Numbers
<1>4. a \in Nat /\ a <= size + alignMask
  BY Rounding
<1>5. CASE Refused(size)
  <2>1. /\ held' = held
        /\ u = t \/ (~HintSuffices /\ WithinLimit(size) /\ u = t + a)
    BY <1>5 DEF Refused
  <2>2. BytesOf(held') = b
    BY <2>1
  <2> HIDE DEF t, u, a, b
  <2>3. Counted(u, held', restarts')
    BY <1>1, <1>3, <1>4, <2>1, <2>2 DEF Counted, t, b
  <2>4. Limited(u)
    <3>1. CASE u = t
      BY <1>1, <3>1 DEF t
    <3>2. CASE WithinLimit(size) /\ u = t + a
      <4>1. limit = 0 \/ t + size <= limit
        BY <3>2 DEF WithinLimit, t
      <4>2. QED BY <1>1, <1>3, <1>4, <3>2, <4>1 DEF Limited
    <3>3. QED BY <2>1, <3>1, <3>2
  <2>5. QED BY <1>2, <2>3, <2>4 DEF u
<1>6. CASE \E p : Granted(size, text, S, p)
  <2>1. WithinLimit(size) /\ u = t + a /\ BytesOf(held') = b + a
    BY <1>6 DEF Granted
  <2>2. limit = 0 \/ t + size <= limit
    BY <2>1 DEF WithinLimit
  <2> HIDE DEF t, u, a, b
  <2>3. Counted(u, held', restarts')
    BY <1>1, <1>3, <1>4, <2>1 DEF Counted, t, b
  <2>4. Limited(u)
    BY <1>1, <1>3, <1>4, <2>1, <2>2 DEF Limited
  <2>5. QED BY <1>2, <2>3, <2>4 DEF u
<1>7. QED BY <1>2, <1>5, <1>6

LEMMA RequestStrings ==
  ASSUME IInv, NEW size \in Nat \ {0}, NEW text \in HoldingTexts, NEW S \in SUBSET {text},
         Request(size, text, S), S # {} => kind = "strings" /\ needIntern
  PROVE  StringsOK(held', disposeQue, internMap')
<1>1. HeapOK(model, held) /\ StringsOK(held, disposeQue, internMap)
  BY DEF IInv
<1>2. Refused(size) \/ \E p : Granted(size, text, S, p)
  BY <1>1, RequestStep
<1>3. CASE Refused(size)
  <2>1. held' = held /\ internMap' = internMap
    BY <1>3 DEF Refused
  <2>2. QED BY <1>1, <2>1
<1>4. CASE \E p : Granted(size, text, S, p)
  <2>1. PICK p : Granted(size, text, S, p)
    BY <1>4
  <2>2. /\ DOMAIN held' = DOMAIN held \cup {p} /\ held'[p] = Holding(p, size, text)
        /\ \A q \in DOMAIN held : held'[q] = held[q]
        /\ internMap' = internMap \cup {[text |-> t, ptr |-> p] : t \in S}
    BY <2>1 DEF Granted
  <2>3. held'[p].text = text
    BY <2>2 DEF Holding
  <2>4. internMap' # {} => kind = "strings" /\ needIntern
    BY <1>1, <2>2 DEF StringsOK
  <2>5. ASSUME ~RestartInterned, NEW e \in internMap'
        PROVE  e.ptr \in DOMAIN held' /\ held'[e.ptr].text = e.text
    <3>1. CASE e \in internMap
      BY <1>1, <2>2, <2>5, <3>1 DEF StringsOK
    <3>2. CASE e \notin internMap
      <4>1. PICK t \in S : e = [text |-> t, ptr |-> p]
        BY <2>2, <2>5, <3>2
      <4>2. t = text /\ e.ptr = p /\ e.text = text
        BY <4>1
      <4>3. QED BY <2>2, <2>3, <4>2
    <3>3. QED BY <3>1, <3>2
  <2>6. \A q \in disposeQue : q \in DOMAIN held' /\ held'[q].holders = 0
    BY <1>1, <2>2 DEF StringsOK
  <2>7. QED BY <1>1, <2>4, <2>5, <2>6 DEF StringsOK
<1>5. QED BY <1>2, <1>3, <1>4

LEMMA FreeCounts ==
  ASSUME IInv, NEW p \in DOMAIN held, model' = free(model, p, held[p].size),
         NEW h1, Struck(held, h1, p), kind' = kind, restarts' = restarts
  PROVE  /\ HeapOK(model', h1) /\ Counted(model'.totalAllocated, h1, restarts')
         /\ Limited(model'.totalAllocated)
<1>1. /\ HeapOK(model, held) /\ Counted(model.totalAllocated, held, restarts)
      /\ Limited(model.totalAllocated) /\ limit \in Nat
  BY DEF IInv
<1>2. /\ HeapOK(model', h1)
      /\ BytesOf(held) = BytesOf(h1) + Aligned(held[p].size) /\ Aligned(held[p].size) \in Nat
      /\ model'.totalAllocated = model.totalAllocated - Aligned(held[p].size)
  BY <1>1, FreeStep
<1> DEFINE t == model.totalAllocated
           u == model'.totalAllocated
           a == Aligned(held[p].size)
           b == BytesOf(held)
           c == BytesOf(h1)
<1>3. t \in Int /\ b \in Nat /\ alignMask \in Nat
  BY <1>1, Numbers
<1>4. c \in Nat
  BY <1>2, LedgerBytes DEF HeapOK
<1>5. a \in Nat /\ b = c + a /\ u = t - a
  BY <1>2
<1> HIDE DEF t, u, a, b, c
<1>6. Counted(u, h1, restarts')
  BY <1>1, <1>3, <1>4, <1>5 DEF Counted, t, b, c
<1>7. Limited(u)
  <2>1. Limited(t)
    BY <1>1 DEF t
  <2>2. QED BY <2>1, <1>1, <1>3, <1>5 DEF Limited
<1>8. QED BY <1>2, <1>6, <1>7 DEF u

LEMMA AllocateKeeps ==
  ASSUME IInv, NEW size \in Sizes, Allocate(size)
  PROVE  Kept
<1>1. /\ kind = "data" /\ kind' = kind /\ limit' = limit /\ needIntern' = needIntern
      /\ restarts' = restarts /\ disposeQue' = disposeQue
  BY DEF Allocate, Settings
<1>2. restarts \in Nat /\ size \in Nat
  BY HeapAssumption DEF IInv
<1>3. CASE size = 0
  <2>1. model' = model /\ held' = held /\ internMap' = internMap
    BY <1>3 DEF Allocate
  <2>2. QED BY <1>1, <1>2, <2>1 DEF Kept, IInv
<1>4. CASE size # 0
  <2> DEFINE S == {}
  <2>1. Request(size, NoText, S)
    BY <1>4 DEF Allocate
  <2>2. /\ NoText \in HoldingTexts /\ S \in SUBSET {NoText} /\ size \in Nat \ {0}
        /\ S # {} => kind = "strings" /\ needIntern
    BY <1>2, <1>4 DEF HoldingTexts
  <2> HIDE DEF S
  <2>3. /\ HeapOK(model', held') /\ Counted(model'.totalAllocated, held', restarts')
        /\ Limited(model'.totalAllocated)
    BY <1>1, <2>1, <2>2, RequestCounts
  <2>4. StringsOK(held', disposeQue, internMap')
    BY <2>1, <2>2, RequestStrings
  <2>5. QED BY <1>1, <1>2, <2>3, <2>4 DEF Kept
<1>5. QED BY <1>3, <1>4

LEMMA ReallocateKeeps ==
  ASSUME IInv, NEW nsize \in Sizes, NEW p \in DOMAIN held, Reallocate(p, nsize)
  PROVE  Kept
<1>1. /\ kind' = kind /\ limit' = limit /\ needIntern' = needIntern
      /\ restarts' = restarts /\ disposeQue' = disposeQue /\ internMap' = internMap
  BY DEF Reallocate, Settings, Strings
<1>2. restarts \in Nat /\ nsize \in Nat /\ limit \in Nat
  BY HeapAssumption DEF IInv
<1>3. /\ HeapOK(model, held) /\ Counted(model.totalAllocated, held, restarts)
      /\ Limited(model.totalAllocated) /\ StringsOK(held, disposeQue, internMap)
  BY DEF IInv
<1> DEFINE size == held[p].size
<1>4. /\ kind = "data" /\ HeapOK(model', held') /\ size \in Nat \ {0} /\ nsize \in Nat \ {0}
      /\ \/ /\ ~WithinLimit(nsize - size) /\ ret' = <<"out of memory", {}>>
            /\ UNCHANGED <<model, held>>
         \/ \E new : Moved(p, nsize, new)
  BY <1>2, <1>3, ReallocateStep
<1>5. disposeQue = {} /\ internMap = {}
  BY <1>3, <1>4 DEF StringsOK
<1>6. StringsOK(held', disposeQue', internMap')
  BY <1>1, <1>5 DEF StringsOK
<1>7. CASE UNCHANGED <<model, held>>
  <2>1. model' = model /\ held' = held
    BY <1>7
  <2>2. QED BY <1>1, <1>2, <1>3, <2>1 DEF Kept
<1>8. CASE \E new : Moved(p, nsize, new)
  <2> DEFINE t == model.totalAllocated
             u == model'.totalAllocated
             a == Aligned(nsize)
             z == Aligned(size)
             b == BytesOf(held)
             c == BytesOf(held')
  <2>1. WithinLimit(nsize - size) /\ u = t + a - z /\ c = b + a - z
    BY <1>8 DEF Moved
  <2>2. t \in Int /\ b \in Nat /\ alignMask \in Nat
    BY <1>3, Numbers
  <2>3. a \in Nat /\ a <= nsize + alignMask
    BY <1>2, Rounding
  <2>4. z \in Nat /\ size <= z
    BY <1>4, Rounding
  <2>5. limit = 0 \/ t + (nsize - size) <= limit
    BY <2>1 DEF WithinLimit
  <2>6. size \in Nat /\ nsize \in Nat
    BY <1>4
  <2>7. HeapOK(model', held')
    BY <1>4
  <2> HIDE DEF t, u, a, z, b, c, size
  <2>8. Counted(u, held', restarts')
    BY <1>1, <1>3, <2>1, <2>2, <2>3, <2>4 DEF Counted, t, b, c
  <2>9. Limited(u)
    <3>1. SUFFICES ASSUME limit # 0 PROVE u <= limit + alignMask
      BY DEF Limited
    <3>2. limit \in Nat
      BY <1>2
    <3>3. u = t + a - z /\ t + (nsize - size) <= limit
      BY <2>1, <2>5, <3>1
    <3>4. QED BY <2>2, <2>3, <2>4, <2>6, <3>2, <3>3
  <2>10. QED BY <1>1, <1>2, <1>6, <2>7, <2>8, <2>9 DEF Kept, u
<1>9. QED BY <1>4, <1>7, <1>8

LEMMA FreeKeeps ==
  ASSUME IInv, NEW p \in DOMAIN held, Free(p)
  PROVE  Kept
<1>1. /\ kind = "data" /\ kind' = kind /\ limit' = limit /\ needIntern' = needIntern
      /\ restarts' = restarts /\ disposeQue' = disposeQue /\ internMap' = internMap
      /\ model' = free(model, p, held[p].size) /\ held' = Without(p)
  BY DEF Free, Settings, Strings
<1>2. restarts \in Nat /\ StringsOK(held, disposeQue, internMap)
  BY DEF IInv
<1>3. Struck(held, held', p)
  BY <1>1 DEF Struck, Without, Restrict
<1>4. /\ HeapOK(model', held') /\ Counted(model'.totalAllocated, held', restarts')
      /\ Limited(model'.totalAllocated)
  BY <1>1, <1>3, FreeCounts
<1>5. StringsOK(held', disposeQue', internMap')
  BY <1>1, <1>2 DEF StringsOK
<1>6. QED BY <1>1, <1>2, <1>4, <1>5 DEF Kept

TextSizes == \A t \in Texts : TextSize[t] \in Nat \ {0}

LEMMA TextsHaveSizes == TextSizes
  BY HeapAssumption DEF TextSizes, Texts

LEMMA ShareKeeps ==
  ASSUME IInv, NEW e, held' = [held EXCEPT ![e.ptr].holders = @ + 1],
         UNCHANGED <<Settings, disposeQue, model, internMap>>, e \in internMap
  PROVE  Kept
<1>1. /\ kind' = kind /\ limit' = limit /\ needIntern' = needIntern
      /\ restarts' = restarts /\ disposeQue' = disposeQue /\ internMap' = internMap /\ model' = model
  BY DEF Settings
<1>2. /\ HeapOK(model, held) /\ Counted(model.totalAllocated, held, restarts)
      /\ Limited(model.totalAllocated) /\ StringsOK(held, disposeQue, internMap)
      /\ restarts \in Nat
  BY DEF IInv
<1>3. \A q \in DOMAIN held : held[q] \in Holdings
  BY <1>2, LedgerBytes DEF HeapOK
<1> DEFINE D == DOMAIN held
<1>4. held \in [D -> Holdings]
  BY <1>2 DEF HeapOK, Ledger
<1>5. \A q \in D : q # e.ptr => held'[q] = held[q]
  BY <1>4
<1>6. e.ptr \in D => /\ held'[e.ptr] \in Holdings /\ held'[e.ptr].size = held[e.ptr].size
                     /\ held'[e.ptr].text = held[e.ptr].text
  <2>1. SUFFICES ASSUME e.ptr \in D
                 PROVE  /\ held'[e.ptr] \in Holdings /\ held'[e.ptr].size = held[e.ptr].size
                        /\ held'[e.ptr].text = held[e.ptr].text
    OBVIOUS
  <2> DEFINE x == held[e.ptr]
  <2>2. x \in Holdings /\ held'[e.ptr] = [x EXCEPT !.holders = @ + 1]
    BY <1>4, <2>1
  <2> HIDE DEF x
  <2>3. /\ [x EXCEPT !.holders = @ + 1] \in Holdings /\ [x EXCEPT !.holders = @ + 1].size = x.size
        /\ [x EXCEPT !.holders = @ + 1].text = x.text
    BY <2>2 DEF Holdings
  <2>4. QED BY <2>2, <2>3 DEF x
<1>7. DOMAIN held' = D /\ held' = [q \in D |-> held'[q]]
  BY <1>4
<1>8. /\ held' \in [DOMAIN held -> Holdings] /\ \A q \in DOMAIN held : held'[q].size = held[q].size
      /\ \A q \in DOMAIN held : held'[q].text = held[q].text
  <2>1. \A q \in D : held'[q] \in Holdings
    BY <1>3, <1>5, <1>6
  <2>2. QED BY <1>5, <1>6, <1>7, <2>1
<1>9. HeapOK(model, held') /\ BytesOf(held') = BytesOf(held) /\ DOMAIN held' = DOMAIN held
  BY <1>2, <1>8, Relabels
<1>10. disposeQue = {}
  BY <1>2 DEF StringsOK
<1>11. StringsOK(held', disposeQue', internMap')
  BY <1>1, <1>2, <1>8, <1>9, <1>10 DEF StringsOK
<1>12. Counted(model.totalAllocated, held', restarts)
  BY <1>2, <1>9 DEF Counted
<1>13. QED BY <1>1, <1>2, <1>9, <1>11, <1>12 DEF Kept

LEMMA AllocateStringKeeps ==
  ASSUME IInv, NEW t \in Texts, AllocateString(t) \/ SimPolicy_String_Add(t)
  PROVE  Kept
<1>1. /\ kind = "strings" /\ kind' = kind /\ limit' = limit /\ needIntern' = needIntern
      /\ restarts' = restarts /\ disposeQue' = disposeQue
  BY DEF AllocateString, SimPolicy_String_Add, Settings
<1>2. restarts \in Nat
  BY DEF IInv
<1>3. \/ \E S \in SUBSET {t} : Request(TextSize[t], t, S) /\ (S # {} => needIntern)
      \/ \E e \in Interned(t) : /\ held' = [held EXCEPT ![e.ptr].holders = @ + 1]
                                /\ model' = model /\ internMap' = internMap
  <2>1. CASE AllocateString(t)
    BY <2>1 DEF AllocateString
  <2>2. CASE SimPolicy_String_Add(t)
    BY <2>2 DEF SimPolicy_String_Add
  <2>3. QED BY <2>1, <2>2
<1>4. CASE \E S \in SUBSET {t} : Request(TextSize[t], t, S) /\ (S # {} => needIntern)
  <2>1. PICK S \in SUBSET {t} : Request(TextSize[t], t, S) /\ (S # {} => needIntern)
    BY <1>4
  <2> DEFINE n == TextSize[t]
  <2>2. n \in Nat \ {0} /\ t \in HoldingTexts /\ (S # {} => kind = "strings" /\ needIntern)
    BY <1>1, <2>1, TextsHaveSizes DEF TextSizes, HoldingTexts
  <2>3. Request(n, t, S)
    BY <2>1
  <2> HIDE DEF n
  <2>4. /\ HeapOK(model', held') /\ Counted(model'.totalAllocated, held', restarts')
        /\ Limited(model'.totalAllocated)
    BY <1>1, <2>2, <2>3, RequestCounts
  <2>5. StringsOK(held', disposeQue, internMap')
    BY <2>2, <2>3, RequestStrings
  <2>6. QED BY <1>1, <1>2, <2>4, <2>5 DEF Kept
<1>5. CASE \E e \in Interned(t) : /\ held' = [held EXCEPT ![e.ptr].holders = @ + 1]
                                  /\ model' = model /\ internMap' = internMap
  <2>1. PICK e \in Interned(t) : /\ held' = [held EXCEPT ![e.ptr].holders = @ + 1]
                                /\ model' = model /\ internMap' = internMap
    BY <1>5
  <2>2. UNCHANGED <<Settings, disposeQue, model, internMap>> /\ e \in internMap
    BY <1>1, <2>1 DEF Settings, Interned
  <2>3. QED BY <2>1, <2>2, ShareKeeps
<1>6. QED BY <1>3, <1>4, <1>5

LEMMA DeleteStringKeeps ==
  ASSUME IInv, NEW p \in DOMAIN held, delete_string(p)
  PROVE  Kept
<1>1. /\ kind = "strings" /\ kind' = kind /\ limit' = limit /\ needIntern' = needIntern
      /\ restarts' = restarts /\ disposeQue' = disposeQue /\ held[p].holders = 1
      /\ internMap' = internMap \ Interned(held[p].text)
      /\ model' = free(model, p, held[p].size) /\ held' = Without(p)
  BY DEF delete_string, freeString, UnInterned, Settings
<1>2. restarts \in Nat /\ StringsOK(held, disposeQue, internMap)
  BY DEF IInv
<1>3. Struck(held, held', p)
  BY <1>1 DEF Struck, Without, Restrict
<1>4. /\ HeapOK(model', held') /\ Counted(model'.totalAllocated, held', restarts')
      /\ Limited(model'.totalAllocated)
  BY <1>1, <1>3, FreeCounts
<1>5. DOMAIN held' = DOMAIN held \ {p} /\ \A q \in DOMAIN held' : held'[q] = held[q]
  BY <1>3 DEF Struck
<1>6. StringsOK(held', disposeQue', internMap')
  <2>1. \A q \in disposeQue : q \in DOMAIN held' /\ held'[q].holders = 0
    <3>1. ASSUME NEW q \in disposeQue PROVE q \in DOMAIN held' /\ held'[q].holders = 0
      <4>1. q \in DOMAIN held /\ held[q].holders = 0
        BY <1>2 DEF StringsOK
      <4>2. q # p
        BY <1>1, <4>1
      <4>3. QED BY <1>5, <4>1, <4>2
    <3>2. QED BY <3>1
  <2>2. ASSUME ~RestartInterned, NEW e \in internMap'
        PROVE  e.ptr \in DOMAIN held' /\ held'[e.ptr].text = e.text
    <3>1. e \in internMap /\ e.text # held[p].text
      BY <1>1, <2>2 DEF Interned
    <3>2. e.ptr \in DOMAIN held /\ held[e.ptr].text = e.text
      BY <1>2, <2>2, <3>1 DEF StringsOK
    <3>3. e.ptr # p
      BY <3>1, <3>2
    <3>4. QED BY <1>5, <3>2, <3>3
  <2>3. internMap' # {} => kind = "strings" /\ needIntern
    BY <1>1, <1>2 DEF StringsOK
  <2>4. QED BY <1>1, <1>2, <2>1, <2>2, <2>3 DEF StringsOK
<1>7. QED BY <1>1, <1>2, <1>4, <1>6 DEF Kept

\* The strings of S are given up.
GivenUp(h, g, S) ==
  g = [q \in DOMAIN h |-> IF q \in S THEN [h[q] EXCEPT !.holders = 0] ELSE h[q]]

LEMMA GivingUp ==
  ASSUME NEW m, NEW h, HeapOK(m, h), NEW g, NEW S, GivenUp(h, g, S)
  PROVE  /\ HeapOK(m, g) /\ BytesOf(g) = BytesOf(h) /\ DOMAIN g = DOMAIN h
         /\ \A q \in DOMAIN h : q \in S => g[q].holders = 0
<1>1. g = [q \in DOMAIN h |-> IF q \in S THEN [h[q] EXCEPT !.holders = 0] ELSE h[q]]
  BY DEF GivenUp
<1>2. \A q \in DOMAIN h : h[q] \in Holdings
  BY LedgerBytes DEF HeapOK
<1>3. ASSUME NEW q \in DOMAIN h
      PROVE  g[q] \in Holdings /\ g[q].size = h[q].size /\ (q \in S => g[q].holders = 0)
  <2> DEFINE x == h[q]
  <2>1. x \in Holdings
    BY <1>2
  <2>2. q \in S => g[q] = [x EXCEPT !.holders = 0]
    BY <1>1
  <2>3. q \notin S => g[q] = x
    BY <1>1
  <2> HIDE DEF x
  <2>4. /\ [x EXCEPT !.holders = 0] \in Holdings /\ [x EXCEPT !.holders = 0].size = x.size
        /\ [x EXCEPT !.holders = 0].holders = 0
    BY <2>1 DEF Holdings
  <2>5. QED BY <2>1, <2>2, <2>3, <2>4 DEF x
<1>4. DOMAIN g = DOMAIN h /\ g = [q \in DOMAIN h |-> g[q]]
  BY <1>1
<1>5. g \in [DOMAIN h -> Holdings]
  BY <1>3, <1>4
<1>6. QED BY <1>3, <1>5, Relabels

\* What FreeTempString does: to the string given up before, and with the next.
TempFreed(next) ==
  \/ /\ disposeQue = {} /\ model' = model /\ internMap' = internMap
     /\ ret' = <<"none", {}>> /\ GivenUp(held, held', next)
  \/ \E q \in DOMAIN held :
       /\ disposeQue = {q} /\ model' = free(model, q, held[q].size) /\ internMap' = {}
       /\ ret' = <<"freed", {q}>>
       /\ \E h1 : Struck(held, h1, q) /\ GivenUp(h1, held', next)

LEMMA FreeTempStringStep ==
  ASSUME IInv, NEW next, FreeTempString(next)
  PROVE  TempFreed(next)
<1> DEFINE gone == {q \in DOMAIN held : q \in disposeQue}
           kept == DOMAIN held \ gone
<1>1. /\ ~needIntern
      /\ \/ disposeQue = {} /\ ret' = <<"none", {}>> /\ model' = model /\ internMap' = internMap
         \/ \E q \in disposeQue : freeString(q)
      /\ held' = [q \in kept |-> IF q \in next THEN [held[q] EXCEPT !.holders = 0] ELSE held[q]]
  BY DEF FreeTempString
<1>2. StringsOK(held, disposeQue, internMap)
  BY DEF IInv
<1>3. internMap = {}
  BY <1>1, <1>2 DEF StringsOK
<1>4. CASE disposeQue = {} /\ ret' = <<"none", {}>> /\ model' = model /\ internMap' = internMap
  <2>1. kept = DOMAIN held
    BY <1>4
  <2>2. GivenUp(held, held', next)
    BY <1>1, <2>1, Zenon DEF GivenUp
  <2>3. QED BY <1>4, <2>2 DEF TempFreed
<1>5. CASE \E q \in disposeQue : freeString(q)
  <2>1. PICK q \in disposeQue : freeString(q)
    BY <1>5
  <2>2. q \in DOMAIN held /\ disposeQue = {q}
    BY <1>2, <2>1 DEF StringsOK
  <2>3. model' = free(model, q, held[q].size) /\ internMap' = {} /\ ret' = <<"freed", {q}>>
    BY <1>3, <2>1 DEF freeString, UnInterned
  <2> DEFINE h1 == [x \in DOMAIN held \ {q} |-> held[x]]
  <2>4. kept = DOMAIN held \ {q}
    BY <2>2
  <2>5. Struck(held, h1, q)
    BY DEF Struck
  <2>6. DOMAIN h1 = kept /\ \A x \in kept : h1[x] = held[x]
    BY <2>4
  <2> HIDE DEF h1, kept
  <2>7. GivenUp(h1, held', next)
    BY <1>1, <2>6 DEF GivenUp
  <2>8. QED BY <2>2, <2>3, <2>5, <2>7 DEF TempFreed
<1>6. QED BY <1>1, <1>4, <1>5

LEMMA FreeTempStringKeeps ==
  ASSUME IInv, NEW next, FreeTempString(next), \A p, q \in next : p = q
  PROVE  Kept
<1>1. /\ kind = "strings" /\ ~needIntern /\ kind' = kind /\ limit' = limit
      /\ needIntern' = needIntern /\ restarts' = restarts /\ disposeQue' = next
      /\ \A p \in next : p \in DOMAIN held /\ held[p].holders = 1
  BY DEF FreeTempString, Settings
<1>2. /\ HeapOK(model, held) /\ Counted(model.totalAllocated, held, restarts)
      /\ Limited(model.totalAllocated) /\ StringsOK(held, disposeQue, internMap)
      /\ restarts \in Nat
  BY DEF IInv
<1>3. TempFreed(next)
  BY FreeTempStringStep
<1>4. ASSUME NEW h1, HeapOK(model', h1), Counted(model'.totalAllocated, h1, restarts'),
             Limited(model'.totalAllocated), GivenUp(h1, held', next),
             \A p \in next : p \in DOMAIN h1, internMap' = {}
      PROVE  Kept
  <2>1. /\ HeapOK(model', held') /\ BytesOf(held') = BytesOf(h1) /\ DOMAIN held' = DOMAIN h1
        /\ \A q \in DOMAIN h1 : q \in next => held'[q].holders = 0
    BY <1>4, GivingUp
  <2>2. Counted(model'.totalAllocated, held', restarts')
    BY <1>4, <2>1 DEF Counted
  <2>3. StringsOK(held', disposeQue', internMap')
    BY <1>1, <1>4, <2>1 DEF StringsOK
  <2>4. QED BY <1>1, <1>2, <1>4, <2>1, <2>2, <2>3 DEF Kept
<1>5. CASE disposeQue = {} /\ model' = model /\ internMap' = internMap /\ GivenUp(held, held', next)
  <2>1. internMap' = {}
    BY <1>1, <1>2, <1>5 DEF StringsOK
  <2>2. QED BY <1>1, <1>2, <1>4, <1>5, <2>1
<1>6. ASSUME NEW q \in DOMAIN held, disposeQue = {q}, model' = free(model, q, held[q].size),
             internMap' = {}, NEW h1, Struck(held, h1, q), GivenUp(h1, held', next)
      PROVE  Kept
  <2>1. /\ HeapOK(model', h1) /\ Counted(model'.totalAllocated, h1, restarts')
        /\ Limited(model'.totalAllocated)
    BY <1>1, <1>6, FreeCounts
  <2>2. DOMAIN h1 = DOMAIN held \ {q}
    BY <1>6 DEF Struck
  <2>3. held[q].holders = 0
    BY <1>2, <1>6 DEF StringsOK
  <2>4. \A p \in next : p \in DOMAIN h1
    BY <1>1, <2>2, <2>3
  <2>5. QED BY <1>4, <1>6, <2>1, <2>4
<1>7. QED BY <1>3, <1>5, <1>6 DEF TempFreed

LEMMA CollectHeapKeeps ==
  ASSUME IInv, NEW R \in SUBSET DOMAIN held, collectHeap(R)
  PROVE  Kept
<1>1. /\ kind' = kind /\ limit' = limit /\ needIntern' = needIntern
      /\ restarts' = restarts /\ disposeQue' = {}
      /\ model' = sweep(model, R) /\ held' = Restrict(held, R)
  BY DEF collectHeap, Settings
<1>2. /\ HeapOK(model, held) /\ Counted(model.totalAllocated, held, restarts)
      /\ Limited(model.totalAllocated) /\ StringsOK(held, disposeQue, internMap)
      /\ restarts \in Nat /\ limit \in Nat /\ (needIntern => kind = "strings")
  BY DEF IInv
<1>3. /\ HeapOK(model', held') /\ BytesOf(held') <= BytesOf(held)
      /\ model'.totalAllocated >= BytesOf(held')
      /\ kind = "data" => model'.totalAllocated = BytesOf(held')
  BY <1>1, <1>2, Sweeps
<1>4. DOMAIN held' = R /\ \A q \in R : held'[q] = held[q]
  BY <1>1 DEF Restrict
<1> DEFINE t == model.totalAllocated
           u == model'.totalAllocated
           b == BytesOf(held)
           c == BytesOf(held')
<1>5. t \in Int /\ b \in Nat /\ alignMask \in Nat
  BY <1>2, Numbers
<1>6. c \in Nat
  BY <1>3, LedgerBytes DEF HeapOK
<1>7. c <= b /\ u >= c /\ (kind = "data" => u = c) /\ t >= b
  BY <1>2, <1>3 DEF Counted
<1>8. Counted(u, held', restarts')
  <2> HIDE DEF u
  <2>1. QED BY <1>7 DEF Counted
<1>9. Limited(u)
  <2>1. SUFFICES ASSUME kind = "data", limit # 0 PROVE u <= limit + alignMask
    BY DEF Limited
  <2>2. t <= limit + alignMask
    BY <1>2, <2>1 DEF Limited
  <2>3. u = c
    BY <1>7, <2>1
  <2>4. limit \in Nat
    BY <1>2
  <2> HIDE DEF t, u, b, c
  <2>5. QED BY <1>5, <1>6, <1>7, <2>2, <2>3, <2>4
<1>10. CASE needIntern
  <2>1. internMap' = Reinterned(R)
    BY <1>10 DEF collectHeap
  <2>2. ASSUME NEW e \in internMap' PROVE e.ptr \in DOMAIN held' /\ held'[e.ptr].text = e.text
    <3>1. PICK x \in {held[p].text : p \in R} :
            e = [text |-> x, ptr |-> CHOOSE p \in R : held[p].text = x]
      BY <2>1, <2>2 DEF Reinterned
    <3>2. \E p \in R : held[p].text = x
      BY <3>1
    <3> DEFINE y == CHOOSE p \in R : held[p].text = x
    <3>3. y \in R /\ held[y].text = x
      BY <3>2
    <3>4. e.text = x /\ e.ptr = y
      BY <3>1
    <3> HIDE DEF y
    <3>5. QED BY <1>4, <3>3, <3>4
  <2>3. StringsOK(held', disposeQue', internMap')
    BY <1>1, <1>2, <1>10, <2>2 DEF StringsOK
  <2>4. QED BY <1>1, <1>2, <1>3, <1>8, <1>9, <2>3 DEF Kept
<1>11. CASE ~needIntern
  <2>1. internMap' = {}
    BY <1>2, <1>11 DEF collectHeap, StringsOK
  <2>2. StringsOK(held', disposeQue', internMap')
    BY <1>1, <2>1 DEF StringsOK
  <2>3. QED BY <1>1, <1>2, <1>3, <1>8, <1>9, <2>2 DEF Kept
<1>12. QED BY <1>10, <1>11

LEMMA CollectOtherHeapKeeps ==
  ASSUME IInv, collectOtherHeap
  PROVE  Kept
<1>1. /\ kind' = kind /\ limit' = limit /\ needIntern' = needIntern /\ restarts' = restarts
      /\ disposeQue' = {} /\ model' = model /\ held' = held /\ internMap' = internMap
  BY DEF collectOtherHeap, Settings
<1>2. StringsOK(held', disposeQue', internMap')
  BY <1>1 DEF IInv, StringsOK
<1>3. QED BY <1>1, <1>2 DEF IInv, Kept

LEMMA RestartHeapsKeeps ==
  ASSUME IInv, restartHeaps
  PROVE  Kept
<1>1. /\ kind' = kind /\ limit' = limit /\ needIntern' = needIntern /\ restarts' = restarts + 1
      /\ disposeQue' = {} /\ model' = reset(model) /\ held' = <<>> /\ internMap' = internMap
      /\ internMap # {} => RestartInterned
  BY DEF restartHeaps
<1>2. /\ HeapOK(model, held) /\ Counted(model.totalAllocated, held, restarts)
      /\ Limited(model.totalAllocated) /\ StringsOK(held, disposeQue, internMap)
      /\ restarts \in Nat
  BY DEF IInv
<1>3. HeapOK(model', <<>>) /\ model'.totalAllocated = model.totalAllocated
  BY <1>1, <1>2, Resets DEF HeapOK
<1> DEFINE t == model.totalAllocated
           b == BytesOf(held)
<1>4. t \in Int /\ b \in Nat /\ t >= b /\ BytesOf(<<>>) = 0
  BY <1>2, Numbers, NothingHeld DEF Counted
<1>5. Counted(t, <<>>, restarts')
  <2> HIDE DEF t, b
  <2>1. restarts' # 0
    BY <1>1, <1>2
  <2>2. QED BY <1>4, <2>1 DEF Counted
<1>6. StringsOK(<<>>, {}, internMap)
  BY <1>1, <1>2 DEF StringsOK
<1>7. QED BY <1>1, <1>2, <1>3, <1>5, <1>6 DEF Kept

LEMMA InitIsInvariant ==
  ASSUME Init
  PROVE  IInv
<1>1. /\ kind \in {"data", "strings"} /\ limit \in Limits /\ (needIntern => kind = "strings")
      /\ model = Empty /\ held = <<>> /\ internMap = {} /\ disposeQue = {} /\ restarts = 0
  BY DEF Init
<1>2. HeapOK(Empty, <<>>) /\ Empty.totalAllocated = 0 /\ BytesOf(<<>>) = 0
  BY Starts, NothingHeld
<1>3. limit \in Nat
  BY <1>1, HeapAssumption
<1>4. Counted(0, <<>>, 0)
  BY <1>2 DEF Counted
<1>5. Limited(0)
  BY <1>3, Alignments DEF Limited
<1>6. StringsOK(<<>>, {}, {})
  BY DEF StringsOK
<1>7. QED BY <1>1, <1>2, <1>3, <1>4, <1>5, <1>6 DEF IInv

LEMMA Inductive ==
  ASSUME IInv, [Next]_vars
  PROVE  IInv'
<1>1. ASSUME NEW size \in Sizes, Allocate(size) PROVE Kept
  BY <1>1, AllocateKeeps
<1>2. ASSUME NEW size \in Sizes, NEW p \in DOMAIN held, Reallocate(p, size) PROVE Kept
  BY <1>2, ReallocateKeeps
<1>3. ASSUME NEW t \in Texts, AllocateString(t) \/ SimPolicy_String_Add(t) PROVE Kept
  BY <1>3, AllocateStringKeeps
<1>4. ASSUME NEW p \in DOMAIN held, Free(p) PROVE Kept
  BY <1>4, FreeKeeps
<1>5. ASSUME NEW p \in DOMAIN held, delete_string(p) PROVE Kept
  BY <1>5, DeleteStringKeeps
<1>6. ASSUME NEW p \in DOMAIN held, FreeTempString({p}) PROVE Kept
  BY <1>6, FreeTempStringKeeps
<1>7. ASSUME FreeTempString({}) PROVE Kept
  BY <1>7, FreeTempStringKeeps
<1>8. ASSUME NEW reached \in SUBSET DOMAIN held, collectHeap(reached) PROVE Kept
  BY <1>8, CollectHeapKeeps
<1>9. ASSUME collectOtherHeap PROVE Kept
  BY <1>9, CollectOtherHeapKeeps
<1>10. ASSUME restartHeaps PROVE Kept
  BY <1>10, RestartHeapsKeeps
<1>11. ASSUME UNCHANGED vars PROVE Kept
  <2>1. /\ kind' = kind /\ limit' = limit /\ needIntern' = needIntern /\ restarts' = restarts
        /\ disposeQue' = disposeQue /\ model' = model /\ held' = held /\ internMap' = internMap
    BY <1>11 DEF vars
  <2>2. QED BY <2>1 DEF Kept, IInv
<1>12. Kept
  BY <1>1, <1>2, <1>3, <1>4, <1>5, <1>6, <1>7, <1>8, <1>9, <1>10, <1>11 DEF Next
<1>13. QED BY <1>12, KeptIsInvariant

LEMMA Invariance == Spec => []IInv
  BY InitIsInvariant, Inductive, PTL DEF Spec

-----------------------------------------------------------------------------
(* What a step answers the program, in terms of the blocks it holds.       *)

Answered ==
  \/ \E p : /\ ret' = <<"block", {p}>> /\ p \notin DOMAIN held
            /\ DOMAIN held' = DOMAIN held \cup {p}
  \/ \E p : /\ ret' = <<"shared", {p}>> /\ (~RestartInterned => p \in DOMAIN held)
            /\ DOMAIN held' = DOMAIN held
  \/ ret' = <<"null", {}>> /\ DOMAIN held' = DOMAIN held
  \/ /\ ret' = <<"out of memory", {}>> /\ DOMAIN held' = DOMAIN held
     /\ limit # 0 \/ ~HintSuffices
  \/ \E p \in DOMAIN held : ret' = <<"freed", {p}>> /\ DOMAIN held' = DOMAIN held \ {p}
  \/ \E new : \E p \in DOMAIN held :
       /\ ret' = <<"moved", {new}>> /\ new \notin DOMAIN held
       /\ DOMAIN held' = (DOMAIN held \ {p}) \cup {new}
  \/ \E R \in SUBSET DOMAIN held : ret' = <<"kept", R>> /\ DOMAIN held' = R
  \/ ret' = <<"none", {}>> /\ DOMAIN held' = DOMAIN held

LEMMA RequestAnswers ==
  ASSUME IInv, NEW size \in Nat \ {0}, NEW text \in HoldingTexts, NEW S, Request(size, text, S)
  PROVE  Answered
<1>1. HeapOK(model, held)
  BY DEF IInv
<1>2. Refused(size) \/ \E p : Granted(size, text, S, p)
  BY <1>1, RequestStep
<1>3. CASE Refused(size)
  <2>1. ret' = <<"out of memory", {}>> /\ held' = held /\ (~WithinLimit(size) \/ ~HintSuffices)
    BY <1>3 DEF Refused
  <2>2. ~WithinLimit(size) => limit # 0
    BY DEF WithinLimit
  <2>3. QED BY <2>1, <2>2 DEF Answered
<1>4. CASE \E p : Granted(size, text, S, p)
  BY <1>4 DEF Granted, Answered
<1>5. QED BY <1>2, <1>3, <1>4

LEMMA AllocateAnswers ==
  ASSUME IInv, NEW size \in Sizes, Allocate(size)
  PROVE  Answered
<1>1. CASE size = 0
  BY <1>1 DEF Allocate, Answered
<1>2. CASE size # 0
  <2>1. size \in Nat \ {0} /\ NoText \in HoldingTexts
    BY <1>2, HeapAssumption DEF HoldingTexts
  <2>2. Request(size, NoText, {})
    BY <1>2 DEF Allocate
  <2>3. QED BY <2>1, <2>2, RequestAnswers
<1>3. QED BY <1>1, <1>2

LEMMA ReallocateAnswers ==
  ASSUME IInv, NEW nsize \in Sizes, NEW p \in DOMAIN held, Reallocate(p, nsize)
  PROVE  Answered
<1>1. nsize \in Nat /\ HeapOK(model, held)
  BY HeapAssumption DEF IInv
<1>2. \/ /\ ~WithinLimit(nsize - held[p].size) /\ ret' = <<"out of memory", {}>>
         /\ UNCHANGED <<model, held>>
      \/ \E new : Moved(p, nsize, new)
  BY <1>1, ReallocateStep
<1>3. CASE ~WithinLimit(nsize - held[p].size) /\ ret' = <<"out of memory", {}>> /\ UNCHANGED <<model, held>>
  <2>1. limit # 0 /\ held' = held
    BY <1>3 DEF WithinLimit
  <2>2. QED BY <1>3, <2>1 DEF Answered
<1>4. CASE \E new : Moved(p, nsize, new)
  BY <1>4 DEF Moved, Answered
<1>5. QED BY <1>2, <1>3, <1>4

LEMMA StringAnswers ==
  ASSUME IInv, NEW t \in Texts, AllocateString(t) \/ SimPolicy_String_Add(t)
  PROVE  Answered
<1>1. TextSize[t] \in Nat \ {0} /\ t \in HoldingTexts
  BY TextsHaveSizes DEF TextSizes, HoldingTexts
<1>2. CASE \E S : Request(TextSize[t], t, S)
  BY <1>1, <1>2, RequestAnswers
<1>3. CASE \E e \in Interned(t) : /\ held' = [held EXCEPT ![e.ptr].holders = @ + 1]
                                  /\ ret' = <<"shared", {e.ptr}>>
  <2>1. PICK e \in Interned(t) : /\ held' = [held EXCEPT ![e.ptr].holders = @ + 1]
                                /\ ret' = <<"shared", {e.ptr}>>
    BY <1>3
  <2>2. DOMAIN held' = DOMAIN held
    BY <2>1
  <2>3. ~RestartInterned => e.ptr \in DOMAIN held
    BY <2>1 DEF IInv, StringsOK, Interned
  <2>4. QED BY <2>1, <2>2, <2>3 DEF Answered
<1>4. QED BY <1>2, <1>3 DEF AllocateString, SimPolicy_String_Add

LEMMA FreeAnswers ==
  ASSUME NEW p \in DOMAIN held, Free(p) \/ delete_string(p)
  PROVE  Answered
<1>1. ret' = <<"freed", {p}>> /\ held' = Without(p)
  BY DEF Free, delete_string, freeString
<1>2. DOMAIN held' = DOMAIN held \ {p}
  BY <1>1 DEF Without, Restrict
<1>3. QED BY <1>1, <1>2 DEF Answered

LEMMA FreeTempStringAnswers ==
  ASSUME IInv, NEW next, FreeTempString(next)
  PROVE  Answered
<1>1. TempFreed(next)
  BY FreeTempStringStep
<1>2. CASE ret' = <<"none", {}>> /\ GivenUp(held, held', next)
  BY <1>2 DEF GivenUp, Answered
<1>3. CASE \E q \in DOMAIN held : /\ ret' = <<"freed", {q}>>
                                  /\ \E h1 : Struck(held, h1, q) /\ GivenUp(h1, held', next)
  <2>1. PICK q \in DOMAIN held : /\ ret' = <<"freed", {q}>>
                                /\ \E h1 : Struck(held, h1, q) /\ GivenUp(h1, held', next)
    BY <1>3
  <2>2. PICK h1 : Struck(held, h1, q) /\ GivenUp(h1, held', next)
    BY <2>1
  <2>3. DOMAIN h1 = DOMAIN held \ {q}
    BY <2>2 DEF Struck
  <2>4. DOMAIN held' = DOMAIN h1
    BY <2>2 DEF GivenUp
  <2>5. QED BY <2>1, <2>3, <2>4 DEF Answered
<1>4. QED BY <1>1, <1>2, <1>3 DEF TempFreed

LEMMA CollectAnswers ==
  ASSUME (\E R \in SUBSET DOMAIN held : collectHeap(R)) \/ collectOtherHeap \/ restartHeaps
  PROVE  Answered
<1>1. CASE \E R \in SUBSET DOMAIN held : collectHeap(R)
  <2>1. PICK R \in SUBSET DOMAIN held : collectHeap(R)
    BY <1>1
  <2>2. ret' = <<"kept", R>> /\ held' = Restrict(held, R)
    BY <2>1 DEF collectHeap
  <2>3. DOMAIN held' = R
    BY <2>2 DEF Restrict
  <2>4. QED BY <2>2, <2>3 DEF Answered
<1>2. CASE collectOtherHeap
  BY <1>2 DEF collectOtherHeap, Answered
<1>3. CASE restartHeaps
  <2>1. ret' = <<"kept", {}>> /\ held' = <<>>
    BY <1>3 DEF restartHeaps
  <2>2. DOMAIN held' = {}
    BY <2>1, NothingHeld
  <2>3. {} \in SUBSET DOMAIN held
    OBVIOUS
  <2>4. QED BY <2>1, <2>2, <2>3 DEF Answered
<1>4. QED BY <1>1, <1>2, <1>3

LEMMA StepsAnswer ==
  ASSUME IInv, Next
  PROVE  Answered
<1>1. ASSUME NEW size \in Sizes, Allocate(size) PROVE Answered
  BY <1>1, AllocateAnswers
<1>2. ASSUME NEW size \in Sizes, NEW p \in DOMAIN held, Reallocate(p, size) PROVE Answered
  BY <1>2, ReallocateAnswers
<1>3. ASSUME NEW t \in Texts, AllocateString(t) \/ SimPolicy_String_Add(t) PROVE Answered
  BY <1>3, StringAnswers
<1>4. ASSUME NEW p \in DOMAIN held, Free(p) \/ delete_string(p) PROVE Answered
  BY <1>4, FreeAnswers
<1>5. ASSUME NEW next, FreeTempString(next) PROVE Answered
  BY <1>5, FreeTempStringAnswers
<1>6. ASSUME (\E R \in SUBSET DOMAIN held : collectHeap(R)) \/ collectOtherHeap \/ restartHeaps
      PROVE  Answered
  BY <1>6, CollectAnswers
<1>7. QED BY <1>1, <1>2, <1>3, <1>4, <1>5, <1>6 DEF Next

LEMMA AnswersKeepThePromise ==
  ASSUME Answered, ~RestartInterned, Blocks = DOMAIN held, Blocks' = DOMAIN held'
  PROVE  Promise!Next
<1> DEFINE B == Blocks
           B1 == Blocks'
<1>1. ASSUME NEW p, ret' = <<"block", {p}>>, p \notin B, B1 = B \cup {p}
      PROVE  Promise!Give
  <2>1. ret'[1] = "block" /\ ret'[2] = {p}
    BY <1>1
  <2>2. ret'[2] \cap B = {} /\ B1 = B \cup ret'[2]
    BY <1>1, <2>1
  <2>3. QED BY <2>1, <2>2 DEF Promise!Give, Promise!Outcome
<1>2. ASSUME NEW p \in B, ret' = <<"shared", {p}>>, B1 = B
      PROVE  Promise!Share
  <2>1. ret'[1] = "shared" /\ ret'[2] = {p}
    BY <1>2
  <2>2. QED BY <1>2, <2>1 DEF Promise!Share, Promise!Outcome
<1>3. ASSUME ret' \in {<<"null", {}>>, <<"out of memory", {}>>}, B1 = B
      PROVE  Promise!Refuse
  BY <1>3 DEF Promise!Refuse
<1>4. ASSUME NEW p \in B, ret' = <<"freed", {p}>>, B1 = B \ {p}
      PROVE  Promise!Take
  <2>1. ret'[1] = "freed" /\ ret'[2] = {p}
    BY <1>4
  <2>2. QED BY <1>4, <2>1 DEF Promise!Take, Promise!Outcome
<1>5. ASSUME NEW new, NEW p \in B, ret' = <<"moved", {new}>>, new \notin B,
             B1 = (B \ {p}) \cup {new}
      PROVE  Promise!Move
  <2>1. ret'[1] = "moved" /\ ret'[2] = {new}
    BY <1>5
  <2>2. ret'[2] \cap B = {} /\ B1 = (B \ {p}) \cup ret'[2]
    BY <1>5, <2>1
  <2>3. QED BY <2>1, <2>2 DEF Promise!Move, Promise!Outcome
<1>6. ASSUME NEW R \in SUBSET B, ret' = <<"kept", R>>, B1 = R
      PROVE  Promise!Keep
  <2>1. ret'[1] = "kept" /\ ret'[2] = R
    BY <1>6
  <2>2. QED BY <1>6, <2>1 DEF Promise!Keep, Promise!Outcome
<1>7. ASSUME ret' = <<"none", {}>>, B1 = B
      PROVE  Promise!Nothing
  BY <1>7 DEF Promise!Nothing
<1>8. B = DOMAIN held /\ B1 = DOMAIN held'
  OBVIOUS
<1> HIDE DEF B, B1
<1>9. \/ \E p : ret' = <<"block", {p}>> /\ p \notin B /\ B1 = B \cup {p}
      \/ \E p \in B : ret' = <<"shared", {p}>> /\ B1 = B
      \/ ret' \in {<<"null", {}>>, <<"out of memory", {}>>} /\ B1 = B
      \/ \E p \in B : ret' = <<"freed", {p}>> /\ B1 = B \ {p}
      \/ \E new : \E p \in B :
           ret' = <<"moved", {new}>> /\ new \notin B /\ B1 = (B \ {p}) \cup {new}
      \/ \E R \in SUBSET B : ret' = <<"kept", R>> /\ B1 = R
      \/ ret' = <<"none", {}>> /\ B1 = B
  BY <1>8, Zenon DEF Answered
<1>10. QED
  BY <1>1, <1>2, <1>3, <1>4, <1>5, <1>6, <1>7, <1>9, Zenon DEF Promise!Next

LEMMA FirstOfPair == \A r, w, S : r = <<w, S>> => r[1] = w
  OBVIOUS

LEMMA AnswersDiffer ==
  ASSUME Answered, ret' = <<"out of memory", {}>>
  PROVE  limit # 0 \/ ~HintSuffices
<1>1. ret'[1] = "out of memory"
  OBVIOUS
<1>2. ASSUME NEW w, NEW S, ret' = <<w, S>> PROVE w = "out of memory"
  <2>1. ret'[1] = w
    BY <1>2, Zenon, FirstOfPair
  <2>2. QED BY <1>1, <2>1
<1>3. /\ \A p : ret' # <<"block", {p}>> /\ ret' # <<"shared", {p}>> /\ ret' # <<"freed", {p}>>
      /\ \A S : ret' # <<"moved", S>> /\ ret' # <<"kept", S>> /\ ret' # <<"none", S>>
      /\ ret' # <<"null", {}>>
  BY <1>2
<1>4. QED BY <1>3, Zenon DEF Answered

-----------------------------------------------------------------------------
(* The theorems.                                                           *)

\* The blocks a program holds are those the bits of the decks and the table of
\* big blocks say are in use, each where mark would look for it; every deck
\* counts its cells right; and an interned string is in use and has its text.
\* A heap that was restarted with interned strings is left out: its reset hides
\* the one that forgets them.
THEOREM HeapIsSound ==
  ASSUME ~RestartInterned
  PROVE  Spec => []HeapSound
<1>1. IInv => HeapSound
  <2>1. SUFFICES ASSUME IInv PROVE HeapSound
    OBVIOUS
  <2>2. HeapOK(model, held) /\ StringsOK(held, disposeQue, internMap)
    BY <2>1 DEF IInv
  <2>3. DOMAIN held = Blocks /\ \A p \in DOMAIN held : MarkFinds(p, held[p].size)
    BY <2>2, BlocksAreBlocksOf DEF HeapOK
  <2>4. ASSUME NEW c \in Classes, NEW q \in DOMAIN model.chunks[c]
        PROVE  model.chunks[c][q].allocated = Cardinality(model.chunks[c][q].bits)
    <3> DEFINE chain == model.chunks[c]
    <3>1. chain \in Seq(SoundDecks)
      BY <2>2, BlocksByClass DEF HeapOK
    <3>2. q \in DOMAIN chain
      OBVIOUS
    <3> HIDE DEF chain
    <3>3. chain[q] \in SoundDecks
      BY <3>1, <3>2
    <3>4. chain[q].allocated = Cardinality(chain[q].bits)
      BY <3>3 DEF SoundDecks
    <3>5. QED BY <3>4 DEF chain
  <2>5. \A e \in internMap : e.ptr \in DOMAIN held /\ held[e.ptr].text = e.text
    BY <2>2 DEF StringsOK
  <2>6. QED BY <2>3, <2>4, <2>5 DEF HeapSound
<1>2. QED BY <1>1, Invariance, PTL

\* MemoryModel::totalAllocated is a uint64_t that every free takes from: it never
\* drops below the bytes of the blocks in use, so it never wraps around.
THEOREM CountNeverFallsShort == Spec => [](model.totalAllocated >= BytesHeld)
<1>1. IInv => model.totalAllocated >= BytesHeld
  BY DEF IInv, Counted, BytesHeld, BytesOf, Bytes
<1>2. QED BY <1>1, Invariance, PTL

\* And it is those bytes exactly, in a data heap that was not restarted and whose
\* hint gives the first deck of every class a cell; without that a request that
\* finds no cell is counted although it gets nothing.
THEOREM CountCoversTheBlocks ==
  ASSUME HintSuffices
  PROVE  Spec => []CountCoversBlocks
<1>1. IInv => CountCoversBlocks
  BY DEF IInv, Counted, CountCoversBlocks, BytesHeld, BytesOf, Bytes
<1>2. QED BY <1>1, Invariance, PTL

\* impl_allocate and impl_reallocate test the limit against the size they are
\* asked for and count what they round it up to: a data heap goes over its limit
\* by less than one unit of its alignment, however often it does either.
THEOREM LimitIsKept == Spec => []LimitHolds
<1>1. IInv => LimitHolds
  BY DEF IInv, Limited, LimitHolds
<1>2. QED BY <1>1, Invariance, PTL

\* allocate returns nullptr for the limit only, when the hint for the first deck
\* holds the largest cell a Shoe has.
THEOREM NoLimitNoFailure ==
  ASSUME HintSuffices
  PROVE  Spec => UnlimitedNeverFails
<1>1. ASSUME IInv, [Next]_vars
      PROVE  [limit = 0 => ret' # <<"out of memory", {}>>]_vars
  <2>1. CASE UNCHANGED vars
    BY <2>1
  <2>2. CASE Next
    <3>1. Answered
      BY <1>1, <2>2, StepsAnswer
    <3>2. limit = 0 => ret' # <<"out of memory", {}>>
      BY <3>1, AnswersDiffer
    <3>3. QED BY <3>2
  <2>3. QED BY <1>1, <2>1, <2>2
<1>2. QED BY <1>1, Invariance, PTL DEF Spec, UnlimitedNeverFails

\* The decks and big blocks implement the heap of HeapBlocks: allocate and
\* reallocate give memory nobody holds, free takes the block it names and no
\* other, an interned string that is shared is in use, and a collection keeps
\* what it reached and nothing else.
THEOREM HeapImplementsTheBlocks ==
  ASSUME ~RestartInterned
  PROVE  Spec => HeapImplementsBlocks
<1>1. Init => Promise!Init
  <2>1. SUFFICES ASSUME Init PROVE Promise!Init
    OBVIOUS
  <2>2. HeapOK(model, held)
    BY <2>1, InitIsInvariant DEF IInv
  <2>3. held = <<>> /\ ret = <<"none", {}>>
    BY <2>1 DEF Init
  <2>4. Blocks = DOMAIN held
    BY <2>2, BlocksAreBlocksOf DEF HeapOK
  <2>5. QED BY <2>3, <2>4, NothingHeld DEF Promise!Init
<1>2. IInv => Blocks = DOMAIN held
  BY BlocksAreBlocksOf DEF IInv, HeapOK
<1>3. ASSUME IInv, [Next]_vars, Blocks = DOMAIN held, (Blocks = DOMAIN held)'
      PROVE  [Promise!Next]_(Promise!vars)
  <2>1. Blocks' = DOMAIN held'
    BY <1>3
  <2>2. CASE UNCHANGED vars
    <3>1. model' = model /\ ret' = ret
      BY <2>2 DEF vars
    <3>2. Blocks' = Blocks
      BY <3>1 DEF Blocks
    <3>3. QED BY <3>1, <3>2 DEF Promise!vars
  <2>3. CASE Next
    <3>1. Answered
      BY <1>3, <2>3, StepsAnswer
    <3>2. QED BY <1>3, <2>1, <3>1, AnswersKeepThePromise
  <2>4. QED BY <1>3, <2>2, <2>3
<1>4. QED BY <1>1, <1>2, <1>3, Invariance, PTL DEF Spec, HeapImplementsBlocks, Promise!Spec

=============================================================================
