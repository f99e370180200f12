----------------------------- MODULE TableProofs ----------------------------
(***************************************************************************)
(* Hash tables, for every set of keys, every sequence of operations and    *)
(* every number of borrowers.                                              *)
(*                                                                         *)
(* Two invariants carry the argument.  Sound says what the slots hold and  *)
(* that the counters count them; it holds for every hash function.  Placed *)
(* says that no empty slot lies between the place where the probe for a    *)
(* key starts and the slot that holds the key, and that no key is held     *)
(* twice: it is what makes a key found.  A table whose keys are not        *)
(* strings has it for every hash function too; a table of strings needs    *)
(* HashesServe, which the code takes for granted and does not ensure.      *)
(***************************************************************************)
EXTENDS Table, FiniteSetTheorems, WellFoundedInduction, TLAPS

-----------------------------------------------------------------------------
(* Least elements.                                                         *)

LEMMA SmallestSubset ==
  ASSUME NEW S, IsFiniteSet(S), NEW B \in SUBSET SUBSET S, B # {}
  PROVE  \E T \in B : \A U \in B : U \subseteq T => U = T
<1> DEFINE R == StrictSubsetOrdering(S)
<1>1. FiniteSubsetsOf(S) = SUBSET S
  BY FS_FiniteSubsetsOfFinite
<1>2. IsWellFoundedOn(R, SUBSET S)
  BY <1>1, FS_StrictSubsetOrderingWellFounded
<1> HIDE DEF R
<1>3. \E T \in B : \A U \in B : ~(<<U, T>> \in R)
  BY <1>2, WFMin
<1>4. QED BY <1>3 DEF R, StrictSubsetOrdering

LEMMA MinExists ==
  ASSUME NEW S \in SUBSET Nat, S # {}
  PROVE  Min(S) \in S /\ \A y \in S : Min(S) <= y
<1>1. PICK s \in S : s \in Nat
  OBVIOUS
<1> DEFINE B == {0..x : x \in {y \in S : y <= s}}
<1>2. IsFiniteSet(0..s)
  BY <1>1, FS_Interval
<1>3. B # {} /\ B \in SUBSET SUBSET (0..s)
  BY <1>1
<1> HIDE DEF B
<1>4. \E T \in B : \A U \in B : U \subseteq T => U = T
  <2> DEFINE I == 0..s
  <2>1. IsFiniteSet(I)
    BY <1>2
  <2>2. B \in SUBSET SUBSET I
    BY <1>3
  <2>3. B # {}
    BY <1>3
  <2> HIDE DEF I
  <2>4. QED BY <2>1, <2>2, <2>3, SmallestSubset
<1> PICK T \in B : \A U \in B : U \subseteq T => U = T
  BY <1>4
<1>5. PICK x \in S : x <= s /\ T = 0..x
  BY <1>4 DEF B
<1>6. ASSUME NEW y \in S PROVE x <= y
  <2>1. CASE y < x
    <3>1. 0..y \in B /\ 0..y \subseteq 0..x
      BY <1>1, <1>5, <2>1 DEF B
    <3>2. 0..y = 0..x
      BY <1>4, <1>5, <3>1
    <3>3. x \in 0..y
      BY <3>2
    <3>4. QED BY <2>1, <3>3
  <2>2. QED BY <2>1
<1>7. QED BY <1>5, <1>6 DEF Min

-----------------------------------------------------------------------------
(* Distances on a probe sequence.                                          *)

LEMMA ModOfMod ==
  ASSUME NEW a \in Int, NEW b \in Int, NEW n \in Nat \ {0}, b \in 0..(n-1)
  PROVE  (a + ((b - a) % n)) % n = b
<1> DEFINE x == b - a
           q == x \div n
           r == x % n
           y == a + r
           d == y \div n
           e == y % n
<1>1. x \in Int /\ q \in Int /\ r \in 0..(n-1) /\ x = n * q + r
  OBVIOUS
<1> HIDE DEF q, r
<1>2. y \in Int /\ d \in Int /\ e \in 0..(n-1) /\ y = n * d + e
  <2>1. y \in Int
    BY <1>1
  <2> HIDE DEF y
  <2>2. QED BY <2>1
<1> HIDE DEF d, e
<1>3. b - e = n * q + n * d
  BY <1>1, <1>2
<1>4. n * q + n * d = n * (q + d)
  BY <1>1, <1>2
<1>5. e = b
  <2> DEFINE k == q + d
  <2>1. k \in Int
    BY <1>1, <1>2
  <2>2. b - e = n * k
    BY <1>3, <1>4
  <2> HIDE DEF k
  <2>3. k = 0
    <3>1. CASE k >= 1
      <4>1. n * k >= n
        BY <2>1, <3>1
      <4>2. QED BY <4>1, <2>2, <1>2
    <3>2. CASE k <= -1
      <4>1. n * k <= -n
        BY <2>1, <3>2
      <4>2. QED BY <4>1, <2>2, <1>2
    <3>3. QED BY <2>1, <3>1, <3>2
  <2>4. QED BY <2>2, <2>3, <1>2
<1>6. QED BY <1>5 DEF e, y, r, x

LEMMA ModShift ==
  ASSUME NEW a \in Int, NEW n \in Nat \ {0}, NEW k \in Int
  PROVE  (a + n * k) % n = a % n
<1> DEFINE q == a \div n
           r == a % n
           y == a + n * k
           d == y \div n
           e == y % n
<1>1. q \in Int /\ r \in 0..(n-1) /\ a = n * q + r
  OBVIOUS
<1>2. y \in Int /\ d \in Int /\ e \in 0..(n-1) /\ y = n * d + e
  <2>1. y \in Int
    OBVIOUS
  <2> HIDE DEF y
  <2>2. QED BY <2>1
<1>3. y = a + n * k
  OBVIOUS
<1> HIDE DEF q, r, y, d, e
<1> DEFINE m == q + k - d
<1>4. m \in Int /\ e - r = n * m
  <2>1. e - r = n * q + n * k - n * d
    BY <1>1, <1>2, <1>3
  <2>2. n * q + n * k - n * d = n * (q + k - d)
    BY <1>1, <1>2
  <2>3. QED BY <1>1, <1>2, <2>1, <2>2
<1> HIDE DEF m
<1>5. m = 0
  <2>1. CASE m >= 1
    <3>1. n * m >= n
      BY <1>4, <2>1
    <3>2. QED BY <3>1, <1>1, <1>2, <1>4
  <2>2. CASE m <= -1
    <3>1. n * m <= -n
      BY <1>4, <2>2
    <3>2. QED BY <3>1, <1>1, <1>2, <1>4
  <2>3. QED BY <1>4, <2>1, <2>2
<1>6. e = r
  BY <1>1, <1>2, <1>4, <1>5
<1>7. QED BY <1>6 DEF e, r, y

\* The steps from the slot a hash starts at to slot i.
Dist(c, hash, i) == (i - hash) % c

LEMMA DistType ==
  ASSUME NEW c \in Nat \ {0}, NEW hash \in Int, NEW i \in Int
  PROVE  Dist(c, hash, i) \in 0..(c - 1)
  BY DEF Dist

\* A hash that is reduced modulo a multiple of the capacity starts at the same slot.
LEMMA DistReduced ==
  ASSUME NEW c \in Nat \ {0}, NEW m \in Nat \ {0}, m % c = 0, NEW hash \in Nat, NEW i \in Int
  PROVE  Dist(c, hash % m, i) = Dist(c, hash, i)
<1> DEFINE p == hash \div m
           r == hash % m
           q == m \div c
<1>1. p \in Int /\ r \in Int /\ hash = m * p + r
  OBVIOUS
<1>2. q \in Int /\ m = c * q
  OBVIOUS
<1> HIDE DEF p, r, q
<1>3. m * p = c * (q * p) /\ q * p \in Int
  BY <1>1, <1>2
<1> DEFINE k == q * p
           a == i - hash
<1>4. k \in Int /\ a \in Int /\ i - r = a + c * k
  BY <1>1, <1>3
<1> HIDE DEF k, a
<1>5. (a + c * k) % c = a % c
  BY <1>4, ModShift
<1>6. (i - r) % c = a % c
  BY <1>4, <1>5
<1>7. QED BY <1>6 DEF Dist, a, r

LEMMA DistInjective ==
  ASSUME NEW c \in Nat \ {0}, NEW hash \in Nat, NEW i \in 0..(c - 1), NEW j \in 0..(c - 1),
         Dist(c, hash, i) = Dist(c, hash, j)
  PROVE  i = j
<1>1. hash \in Int /\ i \in Int /\ j \in Int
  OBVIOUS
<1>2. (hash + ((i - hash) % c)) % c = i
  BY <1>1, ModOfMod
<1>3. (hash + ((j - hash) % c)) % c = j
  BY <1>1, ModOfMod
<1>4. QED BY <1>2, <1>3 DEF Dist

LEMMA FirstIsNearest ==
  ASSUME NEW t, t.capacity \in Nat \ {0}, NEW hash \in Nat,
         NEW S \in SUBSET (0..(t.capacity - 1)), S # {}
  PROVE  /\ First(t, hash, S) \in S
         /\ \A j \in S : Dist(t.capacity, hash, First(t, hash, S)) <= Dist(t.capacity, hash, j)
<1> DEFINE c == t.capacity
           A == {Dist(c, hash, i) : i \in S}
<1> HIDE DEF c
<1>0. c \in Nat \ {0} /\ S \in SUBSET (0..(c - 1))
  BY DEF c
<1>1. A \in SUBSET Nat /\ A # {}
  <2>1. ASSUME NEW i \in S PROVE Dist(c, hash, i) \in Nat
    <3>1. hash \in Int /\ i \in Int
      BY <1>0
    <3>2. Dist(c, hash, i) \in 0..(c - 1)
      BY <1>0, <3>1, DistType
    <3>3. QED BY <3>2, <1>0
  <2>2. QED BY <2>1
<1>2. Min(A) \in A /\ \A y \in A : Min(A) <= y
  BY <1>1, MinExists
<1>3. PICK i \in S : Min(A) = Dist(c, hash, i)
  BY <1>2
<1>4. (hash + ((i - hash) % c)) % c = i
  <2>1. hash \in Int /\ i \in Int /\ i \in 0..(c - 1)
    BY <1>0
  <2>2. QED BY <1>0, <2>1, ModOfMod
<1>5. First(t, hash, S) = (hash + Min(A)) % c
  BY DEF First, Dist, c
<1>6. First(t, hash, S) = i
  BY <1>3, <1>4, <1>5 DEF Dist
<1>7. QED BY <1>2, <1>3, <1>6 DEF c

-----------------------------------------------------------------------------
(* What a table is made of.                                                *)

TablesOf(c) ==
  [capacity : {c}, size : Int, tombstones : Int, tableNoHash : BOOLEAN,
   hashes : [0..(c - 1) -> Nat], keys : [0..(c - 1) -> Keys \cup {NoKey}],
   data : [0..(c - 1) -> Values]]

Used(t) == {i \in Slots(t) : t.hashes[i] > TOMBSTONE}

Formed(t) ==
  /\ t \in TablesOf(t.capacity)
  /\ t.capacity \in Capacities[noHash] \cup {0}
  /\ t.capacity # 0 => t.tableNoHash = noHash

\* A live slot is filed under its key, any other holds no key and no value.
Filed(t) ==
  /\ \A i \in Used(t) : t.keys[i] \in Keys /\ t.hashes[i] = SlotHash(t, t.keys[i])
  /\ \A i \in Slots(t) \ Used(t) : t.keys[i] = NoKey /\ t.data[i] = 0

\* The counters count, a packed table is dense, and any other has room to spare.
Counts(t) ==
  /\ t.size = Cardinality(Used(t)) /\ t.tombstones = Cardinality(Killed(t))
  /\ Packed(t) => Used(t) = 0..(t.size - 1) /\ Killed(t) = {}
  /\ t.capacity # 0 /\ ~Packed(t) => t.size + t.tombstones < t.capacity

Sound(t) == Formed(t) /\ Filed(t) /\ Counts(t)

\* What an insertion finds after growing.
Roomy(t) ==
  IF Packed(t) THEN t.size < t.capacity ELSE t.size + t.tombstones + 1 < t.capacity

LEMMA Fields ==
  ASSUME NEW t, t \in TablesOf(t.capacity)
  PROVE  /\ t.size \in Int /\ t.tombstones \in Int /\ t.tableNoHash \in BOOLEAN
         /\ t.hashes \in [Slots(t) -> Nat] /\ t.keys \in [Slots(t) -> Keys \cup {NoKey}]
         /\ t.data \in [Slots(t) -> Values]
  BY DEF TablesOf, Slots

LEMMA CapacityTypes ==
  ASSUME noHash \in BOOLEAN, NEW c \in Capacities[noHash]
  PROVE  /\ c \in Nat /\ c >= minCapacity[noHash]
         /\ minCapacity[noHash] \in Nat /\ minCapacity[noHash] \in Capacities[noHash]
         /\ c >= 2
         /\ ~(~noHash /\ c <= minCapacity[noHash]) => c >= 4
<1>1. /\ c \in Nat /\ c >= minCapacity[noHash]
      /\ c = minCapacity[noHash] \/ \E b \in Capacities[noHash] : c = 2 * b
  BY TableAssumption
<1>2. minCapacity[noHash] \in Nat /\ minCapacity[noHash] \in Capacities[noHash]
  BY TableAssumption
<1>3. minCapacity[noHash] >= 2
  <2>1. minCapacity[TRUE] >= 2 /\ minCapacity[FALSE] >= 2
    <3>1. minCapacity[TRUE] >= 4 /\ minCapacity[FALSE] >= 2
      BY TableAssumption, Zenon
    <3>2. minCapacity[TRUE] \in Nat
      BY TableAssumption
    <3> DEFINE m == minCapacity[TRUE]
    <3>3. m \in Nat /\ m >= 4
      BY <3>1, <3>2, Zenon
    <3> HIDE DEF m
    <3>4. m >= 2
      BY <3>3
    <3>5. QED BY <3>1, <3>4, Zenon DEF m
  <2>2. noHash = TRUE \/ noHash = FALSE
    OBVIOUS
  <2>3. CASE noHash = TRUE
    BY <2>1, <2>3
  <2>4. CASE noHash = FALSE
    BY <2>1, <2>4
  <2>5. QED BY <2>2, <2>3, <2>4
<1>4. CASE noHash
  <2>1. noHash = TRUE
    BY <1>4
  <2>2. minCapacity[noHash] >= 4
    BY <2>1, TableAssumption
  <2>3. QED BY <1>1, <1>2, <2>2
<1>5. CASE ~noHash
  <2>1. ASSUME c > minCapacity[noHash] PROVE c >= 4
    <3>1. PICK b \in Capacities[noHash] : c = 2 * b
      BY <1>1, <1>2, <2>1
    <3>2. b \in Nat /\ b >= minCapacity[noHash]
      BY TableAssumption
    <3>3. QED BY <1>2, <1>3, <3>1, <3>2
  <2>2. QED BY <1>1, <1>2, <1>3, <1>5, <2>1
<1>6. QED BY <1>4, <1>5

LEMMA SlotHashType ==
  ASSUME NEW t, NEW k \in Keys
  PROVE  SlotHash(t, k) \in Nat /\ SlotHash(t, k) > TOMBSTONE
<1>1. Hash[k] \in Nat /\ Hash[k] > 1 /\ HashKeyMod \in Nat /\ HashKeyMod > 1 /\ FnvPrime \in Nat /\ FnvPrime > 1
  BY TableAssumption
<1>2. hashToHashKey(Hash[k]) \in Nat /\ hashToHashKey(Hash[k]) > 1
  <2> DEFINE h == Hash[k] % HashKeyMod
  <2>1. h \in Nat
    BY <1>1
  <2> HIDE DEF h
  <2>2. (IF h <= 1 THEN FnvPrime ELSE h) \in Nat /\ (IF h <= 1 THEN FnvPrime ELSE h) > 1
    BY <1>1, <2>1
  <2>3. QED BY <2>2 DEF h, hashToHashKey
<1>3. QED BY <1>1, <1>2 DEF SlotHash, TOMBSTONE, OCCUPIED

LEMMA Reducing ==
  ASSUME NEW k \in Keys
  PROVE  hashToHashKey(hashToHashKey(Hash[k])) = hashToHashKey(Hash[k])
<1> DEFINE h == Hash[k] % HashKeyMod
<1>1. HashKeyMod \in Nat /\ HashKeyMod > 1 /\ FnvPrime \in Nat /\ FnvPrime > 1 /\ FnvPrime < HashKeyMod
  BY TableAssumption
<1>2. h \in 0..(HashKeyMod - 1)
  <2>1. Hash[k] \in Nat
    BY TableAssumption
  <2> DEFINE g == Hash[k]
  <2>2. g \in Nat
    BY <2>1
  <2> HIDE DEF g
  <2>3. g % HashKeyMod \in 0..(HashKeyMod - 1)
    BY <1>1, <2>2
  <2>4. QED BY <2>3 DEF g
<1>3. hashToHashKey(Hash[k]) = IF h <= 1 THEN FnvPrime ELSE h
  BY DEF hashToHashKey
<1> HIDE DEF h
<1>4. h % HashKeyMod = h /\ FnvPrime % HashKeyMod = FnvPrime
  BY <1>1, <1>2
<1>5. CASE h <= 1
  <2>1. hashToHashKey(Hash[k]) = FnvPrime
    BY <1>3, <1>5
  <2>2. hashToHashKey(FnvPrime) = FnvPrime
    BY <1>1, <1>4 DEF hashToHashKey
  <2>3. QED BY <2>1, <2>2
<1>6. CASE ~(h <= 1)
  <2>1. hashToHashKey(Hash[k]) = h
    BY <1>3, <1>6
  <2>2. hashToHashKey(h) = h
    BY <1>4, <1>6 DEF hashToHashKey
  <2>3. QED BY <2>1, <2>2
<1>7. QED BY <1>5, <1>6

LEMMA SlotsFinite ==
  ASSUME NEW t, t.capacity \in Nat
  PROVE  IsFiniteSet(Slots(t)) /\ Cardinality(Slots(t)) = t.capacity
<1> DEFINE c == t.capacity
<1>1. c \in Nat
  OBVIOUS
<1> HIDE DEF c
<1>2. IsFiniteSet(0..(c - 1)) /\ Cardinality(0..(c - 1)) = c
  BY <1>1, FS_Interval
<1>3. QED BY <1>2 DEF c, Slots

LEMMA SubsetOfSlots ==
  ASSUME NEW t, t.capacity \in Nat, NEW S \in SUBSET Slots(t)
  PROVE  IsFiniteSet(S) /\ Cardinality(S) \in Nat /\ Cardinality(S) <= t.capacity
         /\ (Cardinality(S) = t.capacity => S = Slots(t))
<1>1. IsFiniteSet(Slots(t)) /\ Cardinality(Slots(t)) = t.capacity
  BY SlotsFinite
<1>2. IsFiniteSet(S) /\ Cardinality(S) <= Cardinality(Slots(t))
      /\ (Cardinality(Slots(t)) = Cardinality(S) => S = Slots(t))
  BY <1>1, FS_Subset
<1>3. Cardinality(S) \in Nat
  BY <1>2, FS_CardinalityType
<1>4. QED BY <1>1, <1>2, <1>3

\* The slots are the live ones, the killed ones and the empty ones.
LEMMA ThreeKinds ==
  ASSUME NEW t, t \in TablesOf(t.capacity)
  PROVE  /\ Slots(t) = Used(t) \cup Killed(t) \cup Empty(t)
         /\ Used(t) \cap Killed(t) = {} /\ Used(t) \cap Empty(t) = {}
         /\ Killed(t) \cap Empty(t) = {}
<1>1. \A i \in Slots(t) : t.hashes[i] \in Nat
  BY Fields
<1>2. QED BY <1>1 DEF Used, Killed, Empty, EMPTY, TOMBSTONE

LEMMA RoomMeansEmpty ==
  ASSUME NEW t, t \in TablesOf(t.capacity), t.capacity \in Nat,
         Cardinality(Used(t)) + Cardinality(Killed(t)) < t.capacity
  PROVE  Empty(t) # {}
<1> SUFFICES ASSUME Empty(t) = {} PROVE FALSE
  OBVIOUS
<1> DEFINE U == Used(t)
           K == Killed(t)
<1>1. U \subseteq Slots(t) /\ K \subseteq Slots(t)
  BY DEF Used, Killed
<1>2. IsFiniteSet(U) /\ IsFiniteSet(K) /\ Cardinality(U) \in Nat /\ Cardinality(K) \in Nat
  BY <1>1, SubsetOfSlots
<1>3. U \cap K = {} /\ Slots(t) = U \cup K
  BY ThreeKinds
<1>4. Cardinality(Slots(t)) = t.capacity
  BY SlotsFinite
<1>5. U \cup K = Slots(t)
  BY <1>3
<1> HIDE DEF U, K
<1>6. Cardinality(U \cup K) = Cardinality(U) + Cardinality(K) - Cardinality(U \cap K)
  BY <1>2, FS_Union
<1>7. Cardinality(U \cap K) = 0
  <2>1. Cardinality({}) = 0
    BY FS_EmptySet
  <2>2. QED BY <1>3, <2>1, Zenon
<1>8. Cardinality(U) + Cardinality(K) = t.capacity
  <2>1. Cardinality(U \cup K) = t.capacity
    BY <1>4, <1>5, Zenon
  <2>2. QED BY <1>2, <1>6, <1>7, <2>1
<1>9. QED BY <1>2, <1>8 DEF U, K

-----------------------------------------------------------------------------
(* Changing one slot.                                                      *)

Changed(t, u, i, h, k, v) ==
  /\ u \in TablesOf(t.capacity) /\ u.capacity = t.capacity /\ u.tableNoHash = t.tableNoHash
  /\ u.hashes[i] = h /\ u.keys[i] = k /\ u.data[i] = v
  /\ \A j \in Slots(t) \ {i} :
       u.hashes[j] = t.hashes[j] /\ u.keys[j] = t.keys[j] /\ u.data[j] = t.data[j]

LEMMA PutOnly ==
  ASSUME NEW t, t \in TablesOf(t.capacity), NEW i \in Slots(t), NEW h \in Nat,
         NEW k \in Keys \cup {NoKey}, NEW v \in Values
  PROVE  LET u == Put(t, i, h, k, v)
         IN  Changed(t, u, i, h, k, v) /\ u.size = t.size /\ u.tombstones = t.tombstones
<1> DEFINE x == [t EXCEPT !.hashes[i] = h]
           y == [x EXCEPT !.keys[i] = k]
           z == [y EXCEPT !.data[i] = v]
<1>1. Put(t, i, h, k, v) = z
  BY Zenon DEF Put
<1>2. /\ t.hashes \in [Slots(t) -> Nat] /\ t.keys \in [Slots(t) -> Keys \cup {NoKey}]
      /\ t.data \in [Slots(t) -> Values]
  BY Fields
<1>3. /\ x \in TablesOf(t.capacity) /\ x.capacity = t.capacity /\ x.size = t.size
      /\ x.tombstones = t.tombstones /\ x.tableNoHash = t.tableNoHash
      /\ x.hashes = [t.hashes EXCEPT ![i] = h] /\ x.keys = t.keys /\ x.data = t.data
  BY DEF TablesOf
<1> HIDE DEF x
<1>4. /\ y \in TablesOf(t.capacity) /\ y.capacity = t.capacity /\ y.size = t.size
      /\ y.tombstones = t.tombstones /\ y.tableNoHash = t.tableNoHash
      /\ y.hashes = x.hashes /\ y.keys = [x.keys EXCEPT ![i] = k] /\ y.data = x.data
  BY <1>3 DEF TablesOf
<1> HIDE DEF y
<1>5. /\ z \in TablesOf(t.capacity) /\ z.capacity = t.capacity /\ z.size = t.size
      /\ z.tombstones = t.tombstones /\ z.tableNoHash = t.tableNoHash
      /\ z.hashes = y.hashes /\ z.keys = y.keys /\ z.data = [y.data EXCEPT ![i] = v]
  BY <1>4 DEF TablesOf
<1> HIDE DEF z
<1>6. /\ z.hashes = [t.hashes EXCEPT ![i] = h] /\ z.keys = [t.keys EXCEPT ![i] = k]
      /\ z.data = [t.data EXCEPT ![i] = v]
  BY <1>3, <1>4, <1>5
<1>7. /\ z.hashes[i] = h /\ z.keys[i] = k /\ z.data[i] = v
      /\ \A j \in Slots(t) \ {i} :
           z.hashes[j] = t.hashes[j] /\ z.keys[j] = t.keys[j] /\ z.data[j] = t.data[j]
  BY <1>2, <1>6
<1>8. QED BY <1>1, <1>5, <1>7 DEF Changed

LEMMA KindsAfter ==
  ASSUME NEW t, t \in TablesOf(t.capacity), NEW u, NEW i \in Slots(t), NEW h \in Nat, NEW k, NEW v,
         Changed(t, u, i, h, k, v)
  PROVE  /\ Slots(u) = Slots(t)
         /\ h > TOMBSTONE => /\ Used(u) = Used(t) \cup {i} /\ Killed(u) = Killed(t) \ {i}
                             /\ Empty(u) = Empty(t) \ {i}
         /\ h = TOMBSTONE => /\ Used(u) = Used(t) \ {i} /\ Killed(u) = Killed(t) \cup {i}
                             /\ Empty(u) = Empty(t) \ {i}
         /\ h = EMPTY     => /\ Used(u) = Used(t) \ {i} /\ Killed(u) = Killed(t) \ {i}
                             /\ Empty(u) = Empty(t) \cup {i}
<1>1. Slots(u) = Slots(t)
  BY DEF Changed, Slots
<1>2. u.hashes[i] = h /\ \A j \in Slots(t) \ {i} : u.hashes[j] = t.hashes[j]
  BY DEF Changed
<1>3. CASE h > TOMBSTONE
  BY <1>1, <1>2, <1>3 DEF Used, Killed, Empty, TOMBSTONE, EMPTY
<1>4. CASE h = TOMBSTONE
  BY <1>1, <1>2, <1>4 DEF Used, Killed, Empty, TOMBSTONE, EMPTY
<1>5. CASE h = EMPTY
  BY <1>1, <1>2, <1>5 DEF Used, Killed, Empty, TOMBSTONE, EMPTY
<1>6. QED BY <1>1, <1>3, <1>4, <1>5 DEF TOMBSTONE, EMPTY

LEMMA SlotHashAfter ==
  ASSUME NEW t, NEW u, u.capacity = t.capacity, NEW k
  PROVE  SlotHash(u, k) = SlotHash(t, k) /\ (Packed(u) <=> Packed(t))
  BY DEF SlotHash, Packed

\* A live slot and its key, or a slot that is not live and holds nothing.
Entry(t, h, k, v) ==
  \/ k \in Keys /\ h = SlotHash(t, k)
  \/ h \in {EMPTY, TOMBSTONE} /\ k = NoKey /\ v = 0

LEMMA FiledAfter ==
  ASSUME NEW t, Formed(t), Filed(t), NEW u, NEW i \in Slots(t), NEW h \in Nat, NEW k, NEW v,
         Entry(t, h, k, v), Changed(t, u, i, h, k, v)
  PROVE  Formed(u) /\ Filed(u)
<1>1. t \in TablesOf(t.capacity)
  BY DEF Formed
<1>2. Formed(u)
  BY DEF Formed, Changed
<1>3. u.capacity = t.capacity
  BY DEF Changed
<1>4. /\ u.hashes[i] = h /\ u.keys[i] = k /\ u.data[i] = v
      /\ \A j \in Slots(t) \ {i} :
           u.hashes[j] = t.hashes[j] /\ u.keys[j] = t.keys[j] /\ u.data[j] = t.data[j]
  BY DEF Changed
<1>5. Slots(u) = Slots(t) /\ Used(u) \subseteq Used(t) \cup {i} /\ Used(t) \ {i} \subseteq Used(u)
  <2>1. Slots(u) = Slots(t)
    BY <1>3 DEF Slots
  <2>2. QED BY <1>4, <2>1 DEF Used
<1>6. i \in Used(u) <=> h > TOMBSTONE
  BY <1>4, <1>5 DEF Used
<1>7. ASSUME NEW j \in Used(u) PROVE u.keys[j] \in Keys /\ u.hashes[j] = SlotHash(u, u.keys[j])
  <2>1. CASE j = i
    <3>1. k \in Keys /\ h = SlotHash(t, k)
      BY <1>6, <2>1 DEF Entry, EMPTY, TOMBSTONE
    <3>2. u.keys[j] = k /\ u.hashes[j] = h
      BY <1>4, <2>1
    <3>3. SlotHash(u, k) = SlotHash(t, k)
      BY <1>3, SlotHashAfter
    <3>4. QED BY <3>1, <3>2, <3>3
  <2>2. CASE j # i
    <3>1. j \in Used(t) /\ u.keys[j] = t.keys[j] /\ u.hashes[j] = t.hashes[j]
      BY <1>4, <1>5, <2>2 DEF Used
    <3>2. t.keys[j] \in Keys /\ t.hashes[j] = SlotHash(t, t.keys[j])
      BY <3>1 DEF Filed
    <3>3. SlotHash(u, t.keys[j]) = SlotHash(t, t.keys[j])
      BY <1>3, SlotHashAfter
    <3>4. QED BY <3>1, <3>2, <3>3
  <2>3. QED BY <2>1, <2>2
<1>8. ASSUME NEW j \in Slots(u) \ Used(u) PROVE u.keys[j] = NoKey /\ u.data[j] = 0
  <2>1. CASE j = i
    <3>1. ~(h > TOMBSTONE)
      BY <1>6, <2>1
    <3>2. k = NoKey /\ v = 0
      BY <3>1, SlotHashType DEF Entry
    <3>3. QED BY <1>4, <2>1, <3>2
  <2>2. CASE j # i
    <3>1. j \in Slots(t) \ Used(t)
      BY <1>5, <2>2
    <3>2. t.keys[j] = NoKey /\ t.data[j] = 0
      BY <3>1 DEF Filed
    <3>3. QED BY <1>4, <2>2, <3>1, <3>2
  <2>3. QED BY <2>1, <2>2
<1>9. QED BY <1>2, <1>7, <1>8 DEF Filed

-----------------------------------------------------------------------------
(* What changing a slot does to the counters.                              *)

LEMMA IntervalCount ==
  ASSUME NEW n \in Nat
  PROVE  Cardinality(0..(n - 1)) = n
  BY FS_Interval

LEMMA CountWith ==
  ASSUME NEW S, IsFiniteSet(S), NEW x, x \notin S
  PROVE  Cardinality(S \cup {x}) = Cardinality(S) + 1
  BY FS_AddElement

LEMMA CountWithout ==
  ASSUME NEW S, IsFiniteSet(S), NEW x, x \in S
  PROVE  Cardinality(S \ {x}) = Cardinality(S) - 1
  BY FS_RemoveElement

LEMMA SoundTypes ==
  ASSUME noHash \in BOOLEAN, NEW t, Sound(t)
  PROVE  /\ t \in TablesOf(t.capacity) /\ t.capacity \in Nat
         /\ IsFiniteSet(Used(t)) /\ IsFiniteSet(Killed(t))
         /\ t.size \in Nat /\ t.tombstones \in Nat /\ t.size <= t.capacity
<1>1. t \in TablesOf(t.capacity) /\ t.capacity \in Nat
  <2>1. t.capacity \in Capacities[noHash] \cup {0}
    BY DEF Sound, Formed
  <2>2. ASSUME t.capacity \in Capacities[noHash] PROVE t.capacity \in Nat
    BY <2>2, CapacityTypes
  <2>3. QED BY <2>1, <2>2 DEF Sound, Formed
<1>2. Used(t) \in SUBSET Slots(t) /\ Killed(t) \in SUBSET Slots(t)
  BY DEF Used, Killed
<1>3. QED BY <1>1, <1>2, SubsetOfSlots DEF Sound, Counts

\* A packed table appends, any other fills a tombstone or an empty slot.
LEMMA SoundAdds ==
  ASSUME noHash \in BOOLEAN, NEW t, Sound(t), Roomy(t), t.capacity # 0,
         NEW i \in Slots(t) \ Used(t), Packed(t) => i = t.size, NEW k \in Keys, NEW v \in Values,
         NEW u, Changed(t, u, i, SlotHash(t, k), k, v), u.size = t.size + 1,
         i \in Killed(t) => u.tombstones = t.tombstones - 1,
         i \notin Killed(t) => u.tombstones = t.tombstones
  PROVE  Sound(u) /\ Used(u) = Used(t) \cup {i} /\ Empty(u) = Empty(t) \ {i}
<1>1. /\ t \in TablesOf(t.capacity) /\ t.capacity \in Nat
      /\ IsFiniteSet(Used(t)) /\ IsFiniteSet(Killed(t)) /\ t.size \in Nat /\ t.tombstones \in Nat
  BY SoundTypes
<1>2. Formed(t) /\ Filed(t) /\ Counts(t)
  BY DEF Sound
<1>3. SlotHash(t, k) \in Nat /\ SlotHash(t, k) > TOMBSTONE
  BY SlotHashType
<1>4. /\ Slots(u) = Slots(t) /\ Used(u) = Used(t) \cup {i} /\ Killed(u) = Killed(t) \ {i}
      /\ Empty(u) = Empty(t) \ {i}
  BY <1>1, <1>3, KindsAfter
<1>5. Formed(u) /\ Filed(u)
  <2>1. Entry(t, SlotHash(t, k), k, v)
    BY DEF Entry
  <2>2. QED BY <1>2, <1>3, <2>1, FiledAfter
<1>6. u.capacity = t.capacity /\ (Packed(u) <=> Packed(t))
  BY SlotHashAfter DEF Changed
<1>7. u.size = Cardinality(Used(u))
  <2>1. Cardinality(Used(t) \cup {i}) = Cardinality(Used(t)) + 1
    BY <1>1, CountWith
  <2>2. QED BY <1>2, <1>4, <2>1 DEF Counts
<1>8. u.tombstones = Cardinality(Killed(u)) /\ u.tombstones <= t.tombstones
  <2>1. CASE i \in Killed(t)
    <3>1. Cardinality(Killed(t) \ {i}) = Cardinality(Killed(t)) - 1
      BY <1>1, <2>1, CountWithout
    <3>2. QED BY <1>1, <1>2, <1>4, <2>1, <3>1 DEF Counts
  <2>2. CASE i \notin Killed(t)
    <3>1. Killed(u) = Killed(t)
      BY <1>4, <2>2
    <3>2. QED BY <1>1, <1>2, <2>2, <3>1 DEF Counts
  <2>3. QED BY <2>1, <2>2
<1>9. Packed(u) => Used(u) = 0..(u.size - 1) /\ Killed(u) = {}
  <2>1. ASSUME Packed(t) PROVE Used(t) \cup {i} = 0..(t.size + 1 - 1) /\ Killed(t) = {}
    <3>1. Used(t) = 0..(t.size - 1) /\ Killed(t) = {} /\ i = t.size
      BY <1>2, <2>1 DEF Counts
    <3>2. 0..(t.size - 1) \cup {t.size} = 0..(t.size + 1 - 1)
      BY <1>1
    <3>3. QED BY <3>1, <3>2
  <2>2. QED BY <1>4, <1>6, <2>1
<1>10. u.capacity # 0 /\ ~Packed(u) => u.size + u.tombstones < u.capacity
  <2>1. ~Packed(t) => t.size + t.tombstones + 1 < t.capacity
    BY DEF Roomy
  <2>2. u.tombstones \in Int
    BY <1>1
  <2>3. QED BY <1>1, <1>6, <1>8, <2>1, <2>2
<1>11. QED BY <1>4, <1>5, <1>7, <1>8, <1>9, <1>10 DEF Sound, Counts

\* An open-addressed table leaves a tombstone.
LEMMA SoundKills ==
  ASSUME noHash \in BOOLEAN, NEW t, Sound(t), ~Packed(t), t.capacity # 0, NEW i \in Used(t),
         NEW u, Changed(t, u, i, TOMBSTONE, NoKey, 0), u.size = t.size - 1,
         u.tombstones = t.tombstones + 1
  PROVE  Sound(u) /\ Used(u) = Used(t) \ {i} /\ Empty(u) = Empty(t)
<1>1. /\ t \in TablesOf(t.capacity) /\ t.capacity \in Nat
      /\ IsFiniteSet(Used(t)) /\ IsFiniteSet(Killed(t)) /\ t.size \in Nat /\ t.tombstones \in Nat
  BY SoundTypes
<1>2. Formed(t) /\ Filed(t) /\ Counts(t)
  BY DEF Sound
<1>3. i \in Slots(t) /\ i \notin Killed(t) /\ i \notin Empty(t)
  BY <1>1, ThreeKinds
<1>4. /\ Slots(u) = Slots(t) /\ Used(u) = Used(t) \ {i} /\ Killed(u) = Killed(t) \cup {i}
      /\ Empty(u) = Empty(t)
  <2>1. TOMBSTONE \in Nat
    BY DEF TOMBSTONE
  <2>2. /\ Slots(u) = Slots(t) /\ Used(u) = Used(t) \ {i} /\ Killed(u) = Killed(t) \cup {i}
        /\ Empty(u) = Empty(t) \ {i}
    BY <1>1, <1>3, <2>1, KindsAfter
  <2>3. QED BY <1>3, <2>2
<1>5. Formed(u) /\ Filed(u)
  <2>1. Entry(t, TOMBSTONE, NoKey, 0) /\ TOMBSTONE \in Nat
    BY DEF Entry, TOMBSTONE
  <2>2. QED BY <1>2, <1>3, <2>1, FiledAfter
<1>6. u.capacity = t.capacity /\ (Packed(u) <=> Packed(t))
  BY SlotHashAfter DEF Changed
<1>7. u.size = Cardinality(Used(u))
  <2>1. Cardinality(Used(t) \ {i}) = Cardinality(Used(t)) - 1
    BY <1>1, CountWithout
  <2>2. QED BY <1>2, <1>4, <2>1 DEF Counts
<1>8. u.tombstones = Cardinality(Killed(u))
  <2>1. Cardinality(Killed(t) \cup {i}) = Cardinality(Killed(t)) + 1
    BY <1>1, <1>3, CountWith
  <2>2. QED BY <1>2, <1>4, <2>1 DEF Counts
<1>9. u.size + u.tombstones < u.capacity
  BY <1>1, <1>2, <1>6 DEF Counts
<1>10. QED BY <1>4, <1>5, <1>6, <1>7, <1>8, <1>9 DEF Sound, Counts

\* A value is written where there is one.
LEMMA SoundWrites ==
  ASSUME noHash \in BOOLEAN, NEW t, Sound(t), NEW i \in Used(t), NEW v \in Values,
         NEW u, Changed(t, u, i, t.hashes[i], t.keys[i], v), u.size = t.size,
         u.tombstones = t.tombstones
  PROVE  /\ Sound(u) /\ Used(u) = Used(t) /\ Empty(u) = Empty(t)
         /\ \A j \in Used(t) : u.keys[j] = t.keys[j]
         /\ u.data[i] = v /\ \A j \in Used(t) \ {i} : u.data[j] = t.data[j]
<1>1. /\ t \in TablesOf(t.capacity) /\ t.capacity \in Nat
      /\ IsFiniteSet(Used(t)) /\ IsFiniteSet(Killed(t)) /\ t.size \in Nat /\ t.tombstones \in Nat
  BY SoundTypes
<1>2. Formed(t) /\ Filed(t) /\ Counts(t)
  BY DEF Sound
<1>3. i \in Slots(t) /\ i \notin Killed(t) /\ i \notin Empty(t)
  BY <1>1, ThreeKinds
<1>4. t.hashes[i] \in Nat /\ t.hashes[i] > TOMBSTONE /\ t.keys[i] \in Keys
      /\ t.hashes[i] = SlotHash(t, t.keys[i])
  BY <1>2, SlotHashType DEF Filed
<1>5. Slots(u) = Slots(t) /\ Used(u) = Used(t) /\ Killed(u) = Killed(t) /\ Empty(u) = Empty(t)
  <2>1. /\ Slots(u) = Slots(t) /\ Used(u) = Used(t) \cup {i} /\ Killed(u) = Killed(t) \ {i}
        /\ Empty(u) = Empty(t) \ {i}
    BY <1>1, <1>3, <1>4, KindsAfter
  <2>2. QED BY <1>3, <2>1
<1>6. Formed(u) /\ Filed(u)
  <2>1. Entry(t, t.hashes[i], t.keys[i], v)
    BY <1>4 DEF Entry
  <2>2. QED BY <1>2, <1>3, <1>4, <2>1, FiledAfter
<1>7. u.capacity = t.capacity /\ (Packed(u) <=> Packed(t))
  BY SlotHashAfter DEF Changed
<1>8. Counts(u)
  BY <1>2, <1>5, <1>7 DEF Counts
<1>9. Used(t) \subseteq Slots(t)
  BY DEF Used
<1>10. QED BY <1>5, <1>6, <1>8, <1>9 DEF Sound, Changed

-----------------------------------------------------------------------------
(* Where the entries are.                                                  *)

\* What a table of strings takes for granted of its keys and of its size: no
\* hash reduces to a sentinel, two keys never have the same full hash (a packed
\* table compares nothing else), and every capacity divides 2^32, so that the
\* reduced hash an entry is refiled by (runtime_table.h:545-547) starts at the
\* slot where a lookup by the full one starts (227-228).
HashesServe ==
  \/ noHash
  \/ /\ \A k \in Keys : Hash[k] % HashKeyMod > 1
     /\ \A k, l \in Keys : Hash[k] = Hash[l] => k = l
     /\ \A c \in Capacities[FALSE] : HashKeyMod % c = 0

Distinct(t) == \A i, j \in Used(t) : t.keys[i] = t.keys[j] => i = j

\* No empty slot is nearer to the start of the probe than the entry is.
Near(t, k, i) == \A j \in Empty(t) : Dist(t.capacity, Hash[k], i) < Dist(t.capacity, Hash[k], j)

Placed(t) ==
  /\ Distinct(t)
  /\ ~Packed(t) => \A i \in Used(t) : Near(t, t.keys[i], i)

LEMMA PlacedAdds ==
  ASSUME NEW t, Placed(t), NEW i \in Slots(t), NEW k,
         \A j \in Used(t) : t.keys[j] # k, NEW u, u.capacity = t.capacity,
         Used(u) = Used(t) \cup {i}, i \notin Used(t), Empty(u) \subseteq Empty(t),
         u.keys[i] = k, \A j \in Slots(t) \ {i} : u.keys[j] = t.keys[j],
         ~Packed(t) => Near(u, k, i)
  PROVE  Placed(u)
<1>1. Used(t) \subseteq Slots(t) /\ \A j \in Used(t) : u.keys[j] = t.keys[j]
  BY DEF Used
<1>2. Distinct(u)
  BY <1>1 DEF Distinct, Placed
<1>3. Packed(u) <=> Packed(t)
  BY DEF Packed
<1>4. ASSUME ~Packed(t), NEW j \in Used(u) PROVE Near(u, u.keys[j], j)
  <2>1. CASE j = i
    BY <1>4, <2>1
  <2>2. CASE j # i
    <3>1. j \in Used(t)
      BY <2>2
    <3>2. Near(t, t.keys[j], j) /\ u.keys[j] = t.keys[j]
      BY <1>1, <1>4, <3>1 DEF Placed
    <3>3. QED BY <3>2 DEF Near
  <2>3. QED BY <2>1, <2>2
<1>5. QED BY <1>2, <1>3, <1>4 DEF Placed

LEMMA PlacedShrinks ==
  ASSUME NEW t, Placed(t), NEW u, u.capacity = t.capacity,
         Used(u) \subseteq Used(t), Empty(u) \subseteq Empty(t),
         \A j \in Used(u) : u.keys[j] = t.keys[j]
  PROVE  Placed(u)
<1>1. Distinct(u)
  BY DEF Distinct, Placed
<1>2. Packed(u) <=> Packed(t)
  BY DEF Packed
<1>3. ASSUME ~Packed(t), NEW j \in Used(u) PROVE Near(u, u.keys[j], j)
  <2>1. Near(t, t.keys[j], j) /\ u.keys[j] = t.keys[j]
    BY <1>3 DEF Placed
  <2>2. QED BY <2>1 DEF Near
<1>4. QED BY <1>1, <1>2, <1>3 DEF Placed

\* The nearest empty slot, or a killed one before it, is near.
LEMMA NearestIsNear ==
  ASSUME NEW t, t.capacity \in Nat \ {0}, NEW k \in Keys, NEW hash \in Nat,
         \A j \in Slots(t) : Dist(t.capacity, hash, j) = Dist(t.capacity, Hash[k], j),
         NEW e \in Slots(t), NEW i \in Slots(t),
         \A j \in Empty(t) : Dist(t.capacity, hash, e) <= Dist(t.capacity, hash, j),
         Dist(t.capacity, hash, i) <= Dist(t.capacity, hash, e),
         NEW u, u.capacity = t.capacity, Empty(u) = Empty(t) \ {i}
  PROVE  Near(u, k, i)
<1> SUFFICES ASSUME NEW j \in Empty(u)
             PROVE  Dist(t.capacity, Hash[k], i) < Dist(t.capacity, Hash[k], j)
  BY DEF Near
<1> DEFINE c == t.capacity
<1>1. c \in Nat \ {0} /\ j \in Empty(t) /\ j # i /\ Slots(t) = 0..(c - 1) /\ j \in Slots(t)
  BY DEF Slots, Empty
<1> HIDE DEF c
<1>2. i \in 0..(c - 1) /\ j \in 0..(c - 1) /\ e \in 0..(c - 1) /\ i \in Int /\ j \in Int /\ e \in Int
      /\ hash \in Int
  BY <1>1
<1>3. Dist(c, hash, i) \in 0..(c - 1) /\ Dist(c, hash, j) \in 0..(c - 1) /\ Dist(c, hash, e) \in 0..(c - 1)
  BY <1>1, <1>2, DistType
<1>4. Dist(c, hash, i) # Dist(c, hash, j)
  BY <1>1, <1>2, DistInjective
<1>5. Dist(c, hash, i) <= Dist(c, hash, e) /\ Dist(c, hash, e) <= Dist(c, hash, j)
  BY <1>1 DEF c
<1>6. Dist(c, hash, i) < Dist(c, hash, j)
  BY <1>1, <1>3, <1>4, <1>5
<1>7. Dist(c, hash, i) = Dist(c, Hash[k], i) /\ Dist(c, hash, j) = Dist(c, Hash[k], j)
  BY <1>1 DEF c
<1>8. QED BY <1>6, <1>7 DEF c

\* The live slots are those with a hash above the tombstone's, whichever way one looks.
LEMMA LiveIsUsed ==
  ASSUME noHash \in BOOLEAN, NEW t, Sound(t)
  PROVE  /\ Live(t) = Used(t)
         /\ \A i \in Slots(t) : tableLiveSlot(t, i) <=> i \in Used(t)
<1>1. t \in TablesOf(t.capacity) /\ t.capacity \in Nat /\ t.size \in Nat
  BY SoundTypes
<1>2. ASSUME NEW i \in Slots(t) PROVE tableLiveSlot(t, i) <=> i \in Used(t)
  <2>1. t.capacity # 0
    BY <1>1 DEF Slots
  <2>2. t.tableNoHash = noHash
    BY <2>1 DEF Sound, Formed
  <2>3. PackedByFlag(t) <=> Packed(t)
    BY <2>2 DEF PackedByFlag, Packed
  <2>4. CASE Packed(t)
    <3>1. Used(t) = 0..(t.size - 1)
      BY <2>4 DEF Sound, Counts
    <3>2. tableLiveSlot(t, i) <=> i < t.size
      BY <2>3, <2>4 DEF tableLiveSlot
    <3>3. i \in Nat
      BY <1>1 DEF Slots
    <3>4. QED BY <1>1, <3>1, <3>2, <3>3
  <2>5. CASE ~Packed(t)
    BY <2>3, <2>5 DEF tableLiveSlot, Used
  <2>6. QED BY <2>4, <2>5
<1>3. Used(t) \subseteq Slots(t)
  BY DEF Used
<1>4. QED BY <1>2, <1>3 DEF Live

-----------------------------------------------------------------------------
(* Growing: the copy of the entries into a fresh table.                    *)

MoveHash(t, i) == IF noHash THEN Hash[t.keys[i]] ELSE t.hashes[i]

Moved(t, i, n) ==
  Put(n, insertNew(n, MoveHash(t, i)),
      IF noHash THEN OCCUPIED ELSE hashToHashKey(MoveHash(t, i)), t.keys[i], t.data[i])

\* The table when i slots have been looked at, from the one when i - 1 have.
Stage(t, c, i, p) ==
  IF i = 0 THEN FreshTable(t, c) ELSE IF tableLiveSlot(t, i - 1) THEN Moved(t, i - 1, p) ELSE p

Copying(t, c, m, f) == f = [i \in 0..m |-> Stage(t, c, i, f[i - 1])]

LEMMA CopyingLonger ==
  ASSUME NEW t, NEW c, NEW m \in Nat, NEW f, Copying(t, c, m, f)
  PROVE  \E g : Copying(t, c, m + 1, g)
<1> DEFINE g == [i \in 0..(m + 1) |-> IF i = m + 1 THEN Stage(t, c, m + 1, f[m]) ELSE f[i]]
<1>1. \A i \in 0..m : f[i] = Stage(t, c, i, f[i - 1])
  <2>1. f = [i \in 0..m |-> Stage(t, c, i, f[i - 1])]
    BY DEF Copying
  <2> DEFINE S(i) == Stage(t, c, i, f[i - 1])
  <2>2. f = [i \in 0..m |-> S(i)]
    BY <2>1
  <2> HIDE DEF S
  <2>3. \A i \in 0..m : f[i] = S(i)
    BY <2>2
  <2>4. QED BY <2>3 DEF S
<1>2. ASSUME NEW i \in 0..(m + 1) PROVE g[i] = Stage(t, c, i, g[i - 1])
  <2>1. CASE i = m + 1
    <3>1. g[i] = Stage(t, c, m + 1, f[m])
      BY <2>1
    <3>2. g[i - 1] = f[m] /\ i - 1 = m
      BY <2>1
    <3>3. QED BY <2>1, <3>1, <3>2
  <2>2. CASE i = 0
    <3>1. g[i] = f[0] /\ f[0] = Stage(t, c, 0, f[0 - 1])
      BY <1>1, <2>2
    <3>2. \A p : Stage(t, c, 0, p) = FreshTable(t, c)
      BY DEF Stage
    <3>3. QED BY <2>2, <3>1, <3>2
  <2>3. CASE i \in 1..m
    <3>1. g[i] = f[i] /\ g[i - 1] = f[i - 1] /\ f[i] = Stage(t, c, i, f[i - 1])
      BY <1>1, <2>3
    <3>2. QED BY <3>1
  <2>4. QED BY <2>1, <2>2, <2>3
<1>3. g = [i \in 0..(m + 1) |-> g[i]]
  OBVIOUS
<1> HIDE DEF g
<1> DEFINE S(i) == Stage(t, c, i, g[i - 1])
<1>4. \A i \in 0..(m + 1) : g[i] = S(i)
  BY <1>2
<1> HIDE DEF S
<1>5. g = [i \in 0..(m + 1) |-> S(i)]
  BY <1>3, <1>4
<1>6. QED BY <1>5 DEF Copying, S

LEMMA CopyingExists ==
  ASSUME NEW t, NEW c, NEW m \in Nat
  PROVE  \E f : Copying(t, c, m, f)
<1> SUFFICES ASSUME ~ \E f : Copying(t, c, m, f) PROVE FALSE
  OBVIOUS
<1> DEFINE B == {n \in Nat : ~ \E f : Copying(t, c, n, f)}
<1>1. B \in SUBSET Nat /\ B # {}
  OBVIOUS
<1> DEFINE n == Min(B)
<1>2. n \in B /\ \A y \in B : n <= y
  BY <1>1, MinExists
<1> HIDE DEF n
<1>3. CASE n = 0
  <2> DEFINE f == [i \in 0..0 |-> FreshTable(t, c)]
             S(i) == Stage(t, c, i, f[i - 1])
  <2>1. \A i \in 0..0 : S(i) = FreshTable(t, c)
    BY DEF Stage
  <2> HIDE DEF S
  <2>2. f = [i \in 0..0 |-> S(i)]
    BY <2>1
  <2>3. Copying(t, c, 0, f)
    BY <2>2 DEF Copying, S
  <2>4. QED BY <1>2, <1>3, <2>3
<1>4. CASE n # 0
  <2>1. n - 1 \in Nat /\ n - 1 \notin B
    BY <1>2, <1>4
  <2>2. PICK f : Copying(t, c, n - 1, f)
    BY <2>1
  <2>3. \E g : Copying(t, c, (n - 1) + 1, g)
    BY <2>1, <2>2, CopyingLonger
  <2>4. (n - 1) + 1 = n
    BY <1>2
  <2>5. QED BY <1>2, <2>3, <2>4
<1>5. QED BY <1>3, <1>4

\* The loop of reserveInternal, one slot after another.
LEMMA CopyLoop ==
  ASSUME NEW t, t.capacity \in Nat, NEW c
  PROVE  \E f : /\ reserveInternal(t, c) = f[t.capacity] /\ f[0] = FreshTable(t, c)
                /\ \A i \in Slots(t) : f[i + 1] = IF tableLiveSlot(t, i) THEN Moved(t, i, f[i]) ELSE f[i]
<1> DEFINE f == CHOOSE f : Copying(t, c, t.capacity, f)
<1>1. reserveInternal(t, c) = f[t.capacity]
  BY DEF reserveInternal, Copying, Stage, Moved, MoveHash
<1>2. Copying(t, c, t.capacity, f)
  BY CopyingExists
<1> HIDE DEF f
<1> DEFINE m == t.capacity
           S(i) == Stage(t, c, i, f[i - 1])
<1>3. f = [i \in 0..m |-> S(i)] /\ m \in Nat
  BY <1>2 DEF Copying
<1> HIDE DEF S, m
<1>4. \A i \in 0..m : f[i] = S(i)
  BY <1>3
<1>5. f[0] = FreshTable(t, c)
  <2>1. f[0] = S(0)
    BY <1>3, <1>4
  <2>2. QED BY <2>1 DEF S, Stage
<1>6. ASSUME NEW i \in Slots(t)
      PROVE  f[i + 1] = IF tableLiveSlot(t, i) THEN Moved(t, i, f[i]) ELSE f[i]
  <2>1. i + 1 \in 0..m /\ i + 1 # 0 /\ (i + 1) - 1 = i
    BY <1>3 DEF Slots, m
  <2>2. f[i + 1] = S(i + 1)
    BY <1>4, <2>1
  <2>3. S(i + 1) = Stage(t, c, i + 1, f[i])
    BY <2>1 DEF S
  <2>4. QED BY <2>1, <2>2, <2>3 DEF Stage
<1>7. QED BY <1>1, <1>5, <1>6

\* The entries of slots below i.
Below(t, i) == {j \in Used(t) : j < i}

Brings(t, i, n) ==
  /\ \A j \in Below(t, i) : \E l \in Used(n) : n.keys[l] = t.keys[j] /\ n.data[l] = t.data[j]
  /\ \A l \in Used(n) : \E j \in Below(t, i) : n.keys[l] = t.keys[j] /\ n.data[l] = t.data[j]

\* What holds of the new table when i slots have been looked at.
Copied(t, c, i, n) ==
  /\ Formed(n) /\ n.capacity = c /\ n.size = t.size /\ n.tombstones = 0
  /\ Filed(n) /\ Killed(n) = {}
  /\ Cardinality(Used(n)) = Cardinality(Below(t, i))
  /\ HashesServe /\ Distinct(t) => Placed(n) /\ Brings(t, i, n)

LEMMA FreshIsEmpty ==
  ASSUME noHash \in BOOLEAN, NEW t, t.size \in Int, NEW c \in Nat,
         c \in Capacities[noHash] \cup {0}
  PROVE  LET n == FreshTable(t, c)
         IN  /\ Formed(n) /\ n.capacity = c /\ n.size = t.size /\ n.tombstones = 0
             /\ n.tableNoHash = noHash
             /\ Filed(n) /\ Killed(n) = {} /\ Used(n) = {} /\ Placed(n)
<1> DEFINE n == FreshTable(t, c)
           I == 0..(c - 1)
           hs == [i \in I |-> EMPTY]
           ks == [i \in I |-> NoKey]
           vs == [i \in I |-> 0]
<1>1. n = [capacity |-> c, size |-> t.size, tombstones |-> 0, tableNoHash |-> noHash,
           hashes |-> hs, keys |-> ks, data |-> vs]
  BY DEF FreshTable
<1>2. hs \in [I -> Nat] /\ ks \in [I -> Keys \cup {NoKey}] /\ vs \in [I -> Values]
  BY TableAssumption DEF EMPTY
<1>3. \A i \in I : hs[i] = EMPTY /\ ks[i] = NoKey /\ vs[i] = 0
  OBVIOUS
<1> HIDE DEF n, hs, ks, vs
<1>4. n \in TablesOf(c) /\ n.capacity = c
  BY <1>1, <1>2 DEF TablesOf
<1>5. Slots(n) = I
  BY <1>4 DEF Slots
<1>6. \A i \in Slots(n) : n.hashes[i] = EMPTY /\ n.keys[i] = NoKey /\ n.data[i] = 0
  BY <1>1, <1>3, <1>5
<1>7. Used(n) = {} /\ Killed(n) = {}
  BY <1>6 DEF Used, Killed, EMPTY, TOMBSTONE
<1>8. Filed(n)
  BY <1>6, <1>7 DEF Filed
<1>9. Placed(n)
  BY <1>7 DEF Placed, Distinct
<1>10. n.size = t.size /\ n.tombstones = 0 /\ n.tableNoHash = noHash
  BY <1>1
<1>11. Formed(n)
  BY <1>4, <1>10 DEF Formed
<1>12. QED BY <1>4, <1>7, <1>8, <1>9, <1>10, <1>11 DEF n

\* The hash an entry is copied by, and where its probe starts in the new table.
LEMMA MovesByHash ==
  ASSUME noHash \in BOOLEAN, NEW t, Sound(t), NEW i \in Used(t), NEW c \in Capacities[noHash],
         NEW n, n.capacity = c, ~Packed(n)
  PROVE  /\ t.keys[i] \in Keys /\ MoveHash(t, i) \in Nat
         /\ (IF noHash THEN OCCUPIED ELSE hashToHashKey(MoveHash(t, i))) = SlotHash(n, t.keys[i])
         /\ HashesServe => \A j \in Int : Dist(c, MoveHash(t, i), j) = Dist(c, Hash[t.keys[i]], j)
<1> DEFINE k == t.keys[i]
           h == Hash[k]
<1>1. k \in Keys /\ t.hashes[i] = SlotHash(t, k)
  BY DEF Sound, Filed
<1>2. h \in Nat /\ SlotHash(t, k) \in Nat
  BY <1>1, TableAssumption, SlotHashType
<1>3. HashKeyMod \in Nat \ {0} /\ c \in Nat \ {0}
  BY CapacityTypes, TableAssumption
<1>4. CASE noHash
  <2>1. MoveHash(t, i) = h
    BY <1>4 DEF MoveHash
  <2>2. SlotHash(n, k) = OCCUPIED
    BY <1>4 DEF SlotHash
  <2>3. QED BY <1>1, <1>2, <1>4, <2>1, <2>2
<1>5. CASE ~noHash /\ Packed(t)
  <2>1. MoveHash(t, i) = h
    BY <1>1, <1>5 DEF MoveHash, SlotHash
  <2>2. SlotHash(n, k) = hashToHashKey(h)
    BY <1>5 DEF SlotHash
  <2>3. QED BY <1>1, <1>2, <1>5, <2>1, <2>2
<1>6. CASE ~noHash /\ ~Packed(t)
  <2>1. MoveHash(t, i) = hashToHashKey(h) /\ MoveHash(t, i) \in Nat
    BY <1>1, <1>2, <1>6 DEF MoveHash, SlotHash
  <2>2. SlotHash(n, k) = hashToHashKey(h)
    BY <1>6 DEF SlotHash
  <2>3. hashToHashKey(hashToHashKey(h)) = hashToHashKey(h)
    BY <1>1, Reducing
  <2>4. ASSUME HashesServe, NEW j \in Int PROVE Dist(c, MoveHash(t, i), j) = Dist(c, h, j)
    <3>1. h % HashKeyMod > 1 /\ HashKeyMod % c = 0
      <4>1. /\ \A l \in Keys : Hash[l] % HashKeyMod > 1
            /\ \A b \in Capacities[FALSE] : HashKeyMod % b = 0
        BY <1>6, <2>4 DEF HashesServe
      <4>2. noHash = FALSE
        BY <1>6
      <4>3. c \in Capacities[FALSE]
        BY <4>2
      <4>4. QED BY <1>1, <4>1, <4>3
    <3>2. hashToHashKey(h) = h % HashKeyMod
      <4> DEFINE r == h % HashKeyMod
      <4>1. r \in Nat
        BY <1>2, <1>3
      <4>2. hashToHashKey(h) = IF r <= 1 THEN FnvPrime ELSE r
        BY DEF hashToHashKey
      <4>3. r > 1
        BY <3>1
      <4> HIDE DEF r
      <4>4. hashToHashKey(h) = r
        BY <4>1, <4>2, <4>3
      <4>5. QED BY <4>4 DEF r
    <3>3. Dist(c, h % HashKeyMod, j) = Dist(c, h, j)
      BY <1>2, <1>3, <3>1, DistReduced
    <3>4. QED BY <2>1, <3>2, <3>3
  <2>5. QED BY <1>1, <1>6, <2>1, <2>2, <2>3, <2>4
<1>7. QED BY <1>4, <1>5, <1>6

LEMMA CopiesOne ==
  ASSUME noHash \in BOOLEAN, NEW t, Sound(t), NEW c \in Capacities[noHash],
         ~(~noHash /\ c <= minCapacity[noHash]), t.size < c,
         NEW i \in Used(t), NEW n, Copied(t, c, i, n)
  PROVE  Copied(t, c, i + 1, Moved(t, i, n))
<1> DEFINE hash == MoveHash(t, i)
           k == t.keys[i]
           e == insertNew(n, hash)
           h == IF noHash THEN OCCUPIED ELSE hashToHashKey(hash)
           u == Moved(t, i, n)
<1>1. /\ Formed(n) /\ n.capacity = c /\ n.size = t.size /\ n.tombstones = 0
      /\ Filed(n) /\ Killed(n) = {} /\ n \in TablesOf(n.capacity)
      /\ Cardinality(Used(n)) = Cardinality(Below(t, i))
  BY DEF Copied, Formed
<1>2. c \in Nat \ {0} /\ ~Packed(n)
  BY <1>1, CapacityTypes DEF Packed
<1>3. /\ t \in TablesOf(t.capacity) /\ t.capacity \in Nat /\ IsFiniteSet(Used(t)) /\ t.size \in Nat
      /\ t.size = Cardinality(Used(t))
  BY SoundTypes DEF Sound, Counts
<1>4. /\ k \in Keys /\ hash \in Nat /\ h = SlotHash(n, k)
      /\ HashesServe => \A j \in Int : Dist(c, hash, j) = Dist(c, Hash[k], j)
  BY <1>1, <1>2, MovesByHash
<1>5. t.data[i] \in Values
  BY <1>3, Fields DEF Used
<1> HIDE DEF k, h, hash
<1>6. Below(t, i) \subseteq Used(t) /\ IsFiniteSet(Below(t, i)) /\ Cardinality(Below(t, i)) <= t.size
  BY <1>3, FS_Subset DEF Below
<1>7. Empty(n) # {}
  <2>1. Cardinality(Used(n)) + Cardinality(Killed(n)) < n.capacity
    <3>1. Cardinality(Killed(n)) = 0
      BY <1>1, FS_EmptySet
    <3>2. Cardinality(Below(t, i)) \in Nat
      BY <1>6, FS_CardinalityType
    <3>3. QED BY <1>1, <1>2, <1>3, <1>6, <3>1, <3>2
  <2>2. QED BY <1>1, <1>2, <2>1, RoomMeansEmpty
<1>8. e \in Empty(n) /\ \A j \in Empty(n) : Dist(c, hash, e) <= Dist(c, hash, j)
  <2>1. Empty(n) \in SUBSET (0..(n.capacity - 1))
    BY DEF Empty, Slots
  <2>2. n.capacity \in Nat \ {0}
    BY <1>1, <1>2
  <2>3. QED BY <1>1, <1>4, <1>7, <2>1, <2>2, FirstIsNearest DEF insertNew
<1> HIDE DEF e
<1>9. e \in Slots(n) /\ e \notin Used(n)
  BY <1>1, <1>8, ThreeKinds
<1>10. h \in Nat /\ h > TOMBSTONE
  BY <1>4, SlotHashType
<1>11. Changed(n, u, e, h, k, t.data[i]) /\ u.size = n.size /\ u.tombstones = n.tombstones
  <2>1. u = Put(n, e, h, k, t.data[i])
    BY DEF Moved, e, h, k, hash
  <2>2. k \in Keys \cup {NoKey}
    BY <1>4
  <2>3. QED BY <1>1, <1>5, <1>9, <1>10, <2>1, <2>2, PutOnly
<1> HIDE DEF u
<1>12. /\ Slots(u) = Slots(n) /\ Used(u) = Used(n) \cup {e} /\ Killed(u) = Killed(n) \ {e}
       /\ Empty(u) = Empty(n) \ {e}
  <2> DEFINE v == t.data[i]
  <2>1. Changed(n, u, e, h, k, v)
    BY <1>11
  <2> HIDE DEF v
  <2>2. n \in TablesOf(n.capacity) /\ e \in Slots(n) /\ h \in Nat /\ h > TOMBSTONE
    BY <1>1, <1>9, <1>10
  <2>3. QED BY <2>1, <2>2, KindsAfter
<1>13. Formed(u) /\ Filed(u)
  <2>1. Entry(n, h, k, t.data[i])
    BY <1>4 DEF Entry
  <2>2. QED BY <1>1, <1>9, <1>10, <1>11, <2>1, FiledAfter
<1>14. u.capacity = c /\ u.size = t.size /\ u.tombstones = 0 /\ Killed(u) = {}
  BY <1>1, <1>11, <1>12 DEF Changed
<1>15. Below(t, i + 1) = Below(t, i) \cup {i} /\ i \notin Below(t, i)
  <2>1. \A j \in Used(t) : j \in Int
    BY <1>3 DEF Used, Slots
  <2>2. QED BY <2>1 DEF Below
<1>16. Cardinality(Used(u)) = Cardinality(Below(t, i + 1))
  <2>1. Cardinality(Below(t, i) \cup {i}) = Cardinality(Below(t, i)) + 1
    BY <1>6, <1>15, CountWith
  <2>2. IsFiniteSet(Used(n))
    BY <1>1, <1>2, SubsetOfSlots DEF Used
  <2>3. Cardinality(Used(n) \cup {e}) = Cardinality(Used(n)) + 1
    BY <1>9, <2>2, CountWith
  <2>4. QED BY <1>1, <1>12, <1>15, <2>1, <2>3
<1>17. ASSUME HashesServe, Distinct(t) PROVE Placed(u) /\ Brings(t, i + 1, u)
  <2>1. Placed(n) /\ Brings(t, i, n)
    BY <1>17 DEF Copied
  <2>2. \A j \in Slots(n) \ {e} :
           u.hashes[j] = n.hashes[j] /\ u.keys[j] = n.keys[j] /\ u.data[j] = n.data[j]
    BY <1>11 DEF Changed
  <2>3. u.keys[e] = k /\ u.data[e] = t.data[i]
    BY <1>11 DEF Changed
  <2>4. Used(n) \subseteq Slots(n) /\ e \notin Used(n)
    BY <1>9 DEF Used
  <2>5. \A j \in Used(n) : n.keys[j] # k
    <3>1. SUFFICES ASSUME NEW j \in Used(n), n.keys[j] = k PROVE FALSE
      OBVIOUS
    <3>2. PICK l \in Below(t, i) : n.keys[j] = t.keys[l]
      BY <2>1 DEF Brings
    <3>3. l \in Used(t) /\ t.keys[l] = t.keys[i]
      BY <3>1, <3>2 DEF Below, k
    <3>4. l = i
      BY <1>17, <3>3 DEF Distinct
    <3>5. QED BY <1>15, <3>2, <3>4
  <2>6. Near(u, k, e)
    <3>1. \A j \in Slots(n) : Dist(c, hash, j) = Dist(c, Hash[k], j)
      BY <1>1, <1>2, <1>4, <1>17 DEF Slots
    <3>2. Dist(c, hash, e) <= Dist(c, hash, e)
      <4>1. Dist(c, hash, e) \in 0..(c - 1)
        <5>1. e \in Int /\ hash \in Int
          BY <1>1, <1>2, <1>4, <1>9 DEF Slots
        <5>2. QED BY <1>2, <5>1, DistType
      <4>2. QED BY <1>2, <4>1
    <3>3. n.capacity \in Nat \ {0} /\ u.capacity = n.capacity
      BY <1>1, <1>2, <1>14
    <3>4. QED BY <1>1, <1>4, <1>8, <1>9, <1>12, <3>1, <3>2, <3>3, NearestIsNear
  <2>7. Placed(u)
    <3>1. u.capacity = n.capacity /\ Empty(u) \subseteq Empty(n)
      BY <1>1, <1>12, <1>14
    <3>2. QED BY <1>9, <1>12, <2>1, <2>2, <2>3, <2>5, <2>6, <3>1, PlacedAdds
  <2>8. Brings(t, i + 1, u)
    <3>1. ASSUME NEW j \in Below(t, i + 1)
          PROVE  \E l \in Used(u) : u.keys[l] = t.keys[j] /\ u.data[l] = t.data[j]
      <4>1. CASE j = i
        BY <1>12, <2>3, <4>1 DEF k
      <4>2. CASE j # i
        <5>1. PICK l \in Used(n) : n.keys[l] = t.keys[j] /\ n.data[l] = t.data[j]
          BY <1>15, <2>1, <4>2 DEF Brings
        <5>2. l \in Used(u) /\ u.keys[l] = n.keys[l] /\ u.data[l] = n.data[l]
          BY <1>12, <2>2, <2>4
        <5>3. QED BY <5>1, <5>2
      <4>3. QED BY <4>1, <4>2
    <3>2. ASSUME NEW l \in Used(u)
          PROVE  \E j \in Below(t, i + 1) : u.keys[l] = t.keys[j] /\ u.data[l] = t.data[j]
      <4>1. CASE l = e
        BY <1>15, <2>3, <4>1 DEF k
      <4>2. CASE l # e
        <5>1. l \in Used(n)
          BY <1>12, <4>2
        <5>2. PICK j \in Below(t, i) : n.keys[l] = t.keys[j] /\ n.data[l] = t.data[j]
          BY <2>1, <5>1 DEF Brings
        <5>3. u.keys[l] = n.keys[l] /\ u.data[l] = n.data[l]
          BY <2>2, <2>4, <5>1
        <5>4. QED BY <1>15, <5>2, <5>3
      <4>3. QED BY <4>1, <4>2
    <3>3. QED BY <3>1, <3>2 DEF Brings
  <2>9. QED BY <2>7, <2>8
<1>18. QED BY <1>13, <1>14, <1>16, <1>17 DEF Copied, u

SameEntries(t, u) ==
  /\ \A j \in Used(t) : \E l \in Used(u) : u.keys[l] = t.keys[j] /\ u.data[l] = t.data[j]
  /\ \A l \in Used(u) : \E j \in Used(t) : u.keys[l] = t.keys[j] /\ u.data[l] = t.data[j]

\* A table is only ever packed again after it was freed.
LEMMA Reallocates ==
  ASSUME noHash \in BOOLEAN, NEW t, Sound(t), NEW c \in Capacities[noHash],
         t.capacity = 0 \/ ~(~noHash /\ c <= minCapacity[noHash]), t.size < c
  PROVE  LET u == reserveInternal(t, c)
         IN  /\ Sound(u) /\ u.capacity = c /\ u.size = t.size /\ u.tombstones = 0
             /\ HashesServe /\ Distinct(t) => Placed(u) /\ SameEntries(t, u)
<1> DEFINE u == reserveInternal(t, c)
           m == t.capacity
<1>1. /\ t \in TablesOf(t.capacity) /\ m \in Nat /\ t.size \in Nat /\ t.size <= m
      /\ IsFiniteSet(Used(t)) /\ t.size = Cardinality(Used(t))
  BY SoundTypes DEF Sound, Counts
<1>2. c \in Nat \ {0}
  BY CapacityTypes
<1>3. PICK f : /\ u = f[m] /\ f[0] = FreshTable(t, c)
               /\ \A i \in Slots(t) :
                    f[i + 1] = IF tableLiveSlot(t, i) THEN Moved(t, i, f[i]) ELSE f[i]
  BY <1>1, CopyLoop
<1> HIDE DEF u
<1>4. \A j \in Used(t) : j \in 0..(m - 1)
  BY DEF Used, Slots
<1>5. Cardinality({}) = 0
  BY FS_EmptySet
<1> DEFINE n == FreshTable(t, c)
<1>6. /\ Formed(n) /\ n.capacity = c /\ n.size = t.size /\ n.tombstones = 0
      /\ Filed(n) /\ Killed(n) = {} /\ Used(n) = {} /\ Placed(n)
  <2>1. t.size \in Int /\ c \in Nat /\ c \in Capacities[noHash] \cup {0}
    BY <1>1, <1>2
  <2>2. QED BY <2>1, FreshIsEmpty
<1> HIDE DEF n
<1>7. Below(t, 0) = {}
  BY <1>1, <1>4 DEF Below
<1>8. Copied(t, c, 0, f[0])
  <2>1. Brings(t, 0, n)
    BY <1>6, <1>7 DEF Brings
  <2>2. Cardinality(Used(n)) = Cardinality(Below(t, 0))
    BY <1>6, <1>7
  <2>3. f[0] = n
    BY <1>3 DEF n
  <2>4. QED BY <1>6, <2>1, <2>2, <2>3 DEF Copied
<1>9. ASSUME NEW i \in 0..(m - 1), Copied(t, c, i, f[i]) PROVE Copied(t, c, i + 1, f[i + 1])
  <2>1. i \in Slots(t) /\ m # 0
    BY <1>1 DEF Slots
  <2>2. f[i + 1] = IF tableLiveSlot(t, i) THEN Moved(t, i, f[i]) ELSE f[i]
    BY <1>3, <2>1
  <2>3. tableLiveSlot(t, i) <=> i \in Used(t)
    BY <2>1, LiveIsUsed
  <2>4. CASE i \in Used(t)
    <3>1. Copied(t, c, i + 1, Moved(t, i, f[i]))
      <4>1. ~(~noHash /\ c <= minCapacity[noHash])
        BY <2>1
      <4>2. QED BY <1>9, <2>4, <4>1, CopiesOne
    <3>2. QED BY <2>2, <2>3, <2>4, <3>1
  <2>5. CASE i \notin Used(t)
    <3>1. f[i + 1] = f[i]
      BY <2>2, <2>3, <2>5
    <3>2. Below(t, i + 1) = Below(t, i)
      BY <1>4, <2>5 DEF Below
    <3>3. Brings(t, i + 1, f[i]) <=> Brings(t, i, f[i])
      BY <3>2 DEF Brings
    <3>4. QED BY <1>9, <3>1, <3>2, <3>3 DEF Copied
  <2>6. QED BY <2>4, <2>5
<1>10. Copied(t, c, m, f[m])
  <2> SUFFICES ASSUME ~Copied(t, c, m, f[m]) PROVE FALSE
    OBVIOUS
  <2> DEFINE B == {i \in 0..m : ~Copied(t, c, i, f[i])}
             i == Min(B)
  <2>1. B \in SUBSET Nat /\ B # {}
    BY <1>1
  <2>2. i \in B /\ \A y \in B : i <= y
    BY <2>1, MinExists
  <2> HIDE DEF i
  <2>3. i # 0
    BY <1>8, <2>2
  <2>4. i - 1 \in 0..(m - 1) /\ i - 1 \notin B /\ i - 1 \in 0..m /\ (i - 1) + 1 = i
    BY <1>1, <2>2, <2>3
  <2>5. Copied(t, c, i - 1, f[i - 1])
    BY <2>4
  <2>6. Copied(t, c, (i - 1) + 1, f[(i - 1) + 1])
    BY <1>9, <2>4, <2>5
  <2>7. QED BY <2>2, <2>4, <2>6
<1>11. Copied(t, c, m, u)
  BY <1>3, <1>10
<1>12. Below(t, m) = Used(t)
  BY <1>1, <1>4 DEF Below
<1>13. Counts(u)
  <2>1. u.size = Cardinality(Used(u)) /\ u.tombstones = Cardinality(Killed(u)) /\ u.capacity = c
        /\ Killed(u) = {} /\ u.size = t.size /\ u.tombstones = 0
    BY <1>1, <1>5, <1>11, <1>12 DEF Copied
  <2>2. u.size + u.tombstones < u.capacity
    BY <1>1, <1>2, <2>1
  <2>3. Packed(u) => Used(u) = 0..(u.size - 1)
    <3>1. SUFFICES ASSUME Packed(u) PROVE Used(u) = 0..(u.size - 1)
      OBVIOUS
    <3>2. m = 0
      BY <2>1, <3>1 DEF Packed
    <3>3. u = n
      BY <1>3, <3>2 DEF n
    <3>4. u.size = 0
      BY <1>1, <2>1, <3>2
    <3>5. 0..(u.size - 1) = {}
      BY <3>4
    <3>6. Used(u) = {}
      BY <1>6, <3>3
    <3>7. QED BY <3>5, <3>6
  <2>4. QED BY <2>1, <2>2, <2>3 DEF Counts
<1>14. Brings(t, m, u) => SameEntries(t, u)
  BY <1>12 DEF Brings, SameEntries
<1>15. QED BY <1>11, <1>13, <1>14 DEF Copied, Sound, u

LEMMA SameEntriesItself ==
  ASSUME NEW t
  PROVE  SameEntries(t, t)
  BY DEF SameEntries

\* After growing there is room for one more entry, and the entries are the same.
LEMMA Growing ==
  ASSUME noHash \in BOOLEAN, NEW t, Sound(t), Fits(t)
  PROVE  /\ Sound(Grown(t)) /\ Roomy(Grown(t)) /\ Grown(t).capacity # 0
         /\ HashesServe /\ Placed(t) => Placed(Grown(t)) /\ SameEntries(t, Grown(t))
<1> DEFINE need == NeededCapacity(t)
           low == minCapacity[noHash]
<1>1. /\ t.capacity \in Nat /\ t.size \in Nat /\ t.tombstones \in Nat /\ t.size <= t.capacity
      /\ Formed(t) /\ Counts(t)
  BY SoundTypes DEF Sound
<1>2. need \in Capacities[noHash] \cup {None}
  BY DEF Fits
<1>3. low \in Nat /\ low >= 2 /\ low \in Capacities[noHash]
  <2>1. PICK c \in Capacities[noHash] : TRUE
    BY TableAssumption
  <2>2. low \in Nat /\ low \in Capacities[noHash]
    BY <2>1, CapacityTypes
  <2>3. QED BY <2>2, CapacityTypes
<1>4. t.capacity # 0 => /\ t.capacity \in Capacities[noHash] /\ t.capacity >= low
                        /\ ~Packed(t) => t.capacity >= 4
  <2>1. SUFFICES ASSUME t.capacity # 0
                 PROVE  /\ t.capacity \in Capacities[noHash] /\ t.capacity >= low
                        /\ ~Packed(t) => t.capacity >= 4
    OBVIOUS
  <2>2. t.capacity \in Capacities[noHash]
    BY <1>1, <2>1 DEF Formed
  <2>3. QED BY <2>2, CapacityTypes DEF Packed
<1>5. CASE need = None
  <2>1. Grown(t) = t
    BY <1>5 DEF Grown
  <2>2. t.capacity # 0
    BY <1>3, <1>5 DEF NeededCapacity, None
  <2>3. CASE Packed(t)
    <3>1. ~(t.size >= t.capacity)
      <4>1. need = IF t.size >= t.capacity THEN 4 * t.capacity ELSE None
        BY <2>2, <2>3 DEF NeededCapacity
      <4>2. QED BY <1>1, <1>5, <4>1 DEF None
    <3>2. QED BY <1>1, <2>1, <2>2, <2>3, <3>1, SameEntriesItself DEF Roomy
  <2>4. CASE ~Packed(t)
    <3>1. need = IF TooFull(t) THEN 2 * t.capacity
                 ELSE IF (t.capacity - t.size) \div 2 < t.tombstones THEN t.capacity ELSE None
      BY <2>2, <2>4 DEF NeededCapacity
    <3>2. ~TooFull(t) /\ ~((t.capacity - t.size) \div 2 < t.tombstones)
      BY <1>1, <1>5, <3>1 DEF None
    <3>3. t.size < t.capacity \div 2
      BY <1>1, <3>2 DEF TooFull
    <3>4. t.size + t.tombstones + 1 < t.capacity
      <4> DEFINE c == t.capacity
                 s == t.size
                 d == t.tombstones
      <4>1. c \in Nat /\ s \in Nat /\ d \in Nat /\ c >= 4 /\ s < c \div 2 /\ ~((c - s) \div 2 < d)
        BY <1>1, <1>4, <2>2, <2>4, <3>2, <3>3
      <4> HIDE DEF c, s, d
      <4>2. 2 * (c \div 2) <= c /\ 2 * ((c - s) \div 2) <= c - s
        BY <4>1
      <4>3. s + d + 1 < c
        BY <4>1, <4>2
      <4>4. QED BY <4>3 DEF c, s, d
    <3>5. QED BY <2>1, <2>2, <2>4, <3>4, SameEntriesItself DEF Roomy
  <2>5. QED BY <2>3, <2>4
<1>6. CASE need # None
  <2> DEFINE g == reserveInternal(t, need)
  <2>1. Grown(t) = g
    BY <1>6 DEF Grown
  <2>2. need \in Capacities[noHash]
    BY <1>2, <1>6
  <2>3. /\ t.capacity = 0 \/ ~(~noHash /\ need <= low)
        /\ need \in Nat /\ t.size < need
        /\ ~(~noHash /\ need <= low) => t.size + 1 < need
    <3>1. need \in Nat /\ (~(~noHash /\ need <= low) => need >= 4)
      BY <2>2, CapacityTypes
    <3>2. CASE t.capacity = 0
      BY <1>1, <1>3, <3>1, <3>2 DEF NeededCapacity
    <3>3. CASE t.capacity # 0 /\ Packed(t)
      <4>1. need = 4 * t.capacity
        BY <1>6, <3>3 DEF NeededCapacity
      <4>2. QED BY <1>1, <1>3, <1>4, <3>1, <3>3, <4>1
    <3>4. CASE t.capacity # 0 /\ ~Packed(t)
      <4>1. need = 2 * t.capacity \/ (need = t.capacity /\ ~TooFull(t))
        BY <1>6, <3>4 DEF NeededCapacity
      <4>2. t.size < t.capacity
        BY <1>1, <3>4 DEF Counts
      <4>3. ~TooFull(t) => t.size + 1 < t.capacity
        <5>1. SUFFICES ASSUME t.size < t.capacity \div 2 PROVE t.size + 1 < t.capacity
          BY <1>1 DEF TooFull
        <5>2. QED BY <1>1, <1>4, <3>4, <5>1
      <4>4. ~(~noHash /\ t.capacity <= low)
        BY <3>4 DEF Packed
      <4>5. QED BY <1>1, <1>3, <1>4, <3>1, <3>4, <4>1, <4>2, <4>3, <4>4
    <3>5. QED BY <3>2, <3>3, <3>4
  <2> HIDE DEF g
  <2>4. /\ Sound(g) /\ g.capacity = need /\ g.size = t.size /\ g.tombstones = 0
        /\ HashesServe /\ Distinct(t) => Placed(g) /\ SameEntries(t, g)
    <3> DEFINE c == need
    <3>1. c \in Capacities[noHash] /\ (t.capacity = 0 \/ ~(~noHash /\ c <= minCapacity[noHash])) /\ t.size < c
      BY <2>2, <2>3
    <3> HIDE DEF c
    <3>2. LET u == reserveInternal(t, c)
          IN  /\ Sound(u) /\ u.capacity = c /\ u.size = t.size /\ u.tombstones = 0
              /\ HashesServe /\ Distinct(t) => Placed(u) /\ SameEntries(t, u)
      BY <3>1, Reallocates
    <3>3. QED BY <3>2 DEF g, c
  <2>5. Roomy(g)
    BY <1>1, <2>3, <2>4 DEF Roomy, Packed
  <2>6. g.capacity # 0
    BY <1>1, <2>3, <2>4
  <2>7. QED BY <2>1, <2>4, <2>5, <2>6 DEF Placed
<1>7. QED BY <1>5, <1>6

-----------------------------------------------------------------------------
(* Finding a key.                                                          *)

LEMMA UsedAreSlots ==
  ASSUME NEW t
  PROVE  Used(t) \subseteq Slots(t) /\ Used(t) \subseteq 0..(t.capacity - 1) /\ None \notin Used(t)
  BY DEF Used, Slots, None

LEMMA Matches ==
  ASSUME noHash \in BOOLEAN, NEW t, Sound(t), NEW k \in Keys
  PROVE  /\ Match(t, k) \subseteq Used(t)
         /\ HashesServe => Match(t, k) = {i \in Used(t) : t.keys[i] = k}
<1>1. SlotHash(t, k) > TOMBSTONE
  BY SlotHashType
<1>2. ASSUME NEW i \in Match(t, k) PROVE i \in Used(t) /\ (HashesServe => t.keys[i] = k)
  <2>1. i \in Slots(t) /\ t.hashes[i] = SlotHash(t, k) /\ (Packed(t) \/ t.keys[i] = k)
    BY DEF Match
  <2>2. i \in Used(t)
    BY <1>1, <2>1 DEF Used
  <2>3. t.keys[i] \in Keys /\ t.hashes[i] = SlotHash(t, t.keys[i])
    BY <2>2 DEF Sound, Filed
  <2>4. CASE Packed(t)
    <3>1. Hash[k] = Hash[t.keys[i]]
      BY <2>1, <2>3, <2>4 DEF SlotHash, Packed
    <3>2. HashesServe => \A l, m \in Keys : Hash[l] = Hash[m] => l = m
      BY <2>4 DEF Packed, HashesServe
    <3>3. QED BY <2>2, <2>3, <3>1, <3>2
  <2>5. QED BY <2>1, <2>2, <2>4
<1>3. ASSUME NEW i \in Used(t), t.keys[i] = k PROVE i \in Match(t, k)
  <2>1. t.hashes[i] = SlotHash(t, k)
    BY <1>3 DEF Sound, Filed
  <2>2. QED BY <1>3, <2>1, UsedAreSlots DEF Match
<1>4. QED BY <1>2, <1>3

LEMMA FindsOnlyKeys ==
  ASSUME noHash \in BOOLEAN, NEW t, Sound(t), NEW k \in Keys, find(t, k) # None
  PROVE  find(t, k) \in Used(t) /\ (HashesServe => t.keys[find(t, k)] = k)
<1> DEFINE match == Match(t, k)
           i == First(t, Hash[k], match \cup LookupStops(t))
<1>1. match \subseteq Used(t) /\ (HashesServe => match = {j \in Used(t) : t.keys[j] = k})
  BY Matches
<1>2. find(t, k) = IF match = {} THEN None ELSE IF Packed(t) THEN Min(match)
                   ELSE IF i \in match THEN i ELSE None
  BY DEF find
<1> HIDE DEF match, i
<1>3. match # {}
  BY <1>2
<1>4. match \in SUBSET Nat
  BY <1>1, UsedAreSlots
<1>5. Min(match) \in match
  BY <1>3, <1>4, MinExists
<1>6. find(t, k) \in match
  BY <1>2, <1>3, <1>5
<1>7. QED BY <1>1, <1>6

LEMMA FindsTheSlot ==
  ASSUME noHash \in BOOLEAN, HashesServe, NEW t, Sound(t), Placed(t), NEW i \in Used(t)
  PROVE  find(t, t.keys[i]) = i
<1> DEFINE k == t.keys[i]
           match == Match(t, k)
           S == match \cup LookupStops(t)
           c == t.capacity
<1>1. k \in Keys
  BY DEF Sound, Filed
<1>2. t \in TablesOf(c) /\ c \in Nat
  BY SoundTypes
<1>3. match = {j \in Used(t) : t.keys[j] = k}
  BY <1>1, Matches
<1>4. match = {i}
  BY <1>3 DEF Placed, Distinct
<1>5. find(t, k) = IF match = {} THEN None ELSE IF Packed(t) THEN Min(match)
                   ELSE IF First(t, Hash[k], S) \in match THEN First(t, Hash[k], S) ELSE None
  BY DEF find
<1> HIDE DEF match, k
<1>6. i \in 0..(c - 1)
  BY UsedAreSlots
<1>7. CASE Packed(t)
  <2>1. match \in SUBSET Nat /\ match # {}
    BY <1>4, <1>6
  <2>2. Min(match) \in match
    BY <2>1, MinExists
  <2>3. QED BY <1>4, <1>5, <1>7, <2>2 DEF k
<1>8. CASE ~Packed(t)
  <2>1. S \in SUBSET (0..(c - 1)) /\ i \in S
    BY <1>4, <1>6 DEF LookupStops, Empty, Slots
  <2>2. S = {i} \cup Empty(t)
    BY <1>4 DEF LookupStops
  <2> HIDE DEF S
  <2>3. c \in Nat \ {0} /\ Hash[k] \in Nat
    BY <1>1, <1>2, <1>6, TableAssumption
  <2> DEFINE e == First(t, Hash[k], S)
  <2>4. e \in S /\ \A j \in S : Dist(c, Hash[k], e) <= Dist(c, Hash[k], j)
    BY <2>1, <2>3, FirstIsNearest
  <2> HIDE DEF e
  <2>5. e = i
    <3>1. SUFFICES ASSUME e \in Empty(t) PROVE FALSE
      BY <2>2, <2>4
    <3>2. Dist(c, Hash[k], i) < Dist(c, Hash[k], e)
      BY <1>8, <3>1 DEF Placed, Near, k
    <3>3. Dist(c, Hash[k], e) <= Dist(c, Hash[k], i)
      BY <2>1, <2>4
    <3>4. Dist(c, Hash[k], i) \in 0..(c - 1) /\ Dist(c, Hash[k], e) \in 0..(c - 1)
      <4>1. i \in Int /\ e \in Int /\ Hash[k] \in Int
        BY <1>6, <2>1, <2>3, <2>4
      <4>2. QED BY <2>3, <4>1, DistType
    <3>5. QED BY <2>3, <3>2, <3>3, <3>4
  <2>6. QED BY <1>4, <1>5, <1>8, <2>5 DEF e, k
<1>9. QED BY <1>7, <1>8

-----------------------------------------------------------------------------
(* Inserting, erasing and clearing.                                        *)

\* The slot a new key is given.
InsertAt(t, k) ==
  LET end == First(t, Hash[k], Empty(t))
      passed == {i \in Killed(t) : (i - Hash[k]) % t.capacity < (end - Hash[k]) % t.capacity}
  IN  IF Packed(t) THEN t.size ELSE IF passed = {} THEN end ELSE First(t, Hash[k], passed)

LEMMA InsertSlot ==
  ASSUME noHash \in BOOLEAN, NEW t, Sound(t), Roomy(t), t.capacity # 0, NEW k \in Keys
  PROVE  /\ InsertAt(t, k) \in Slots(t) \ Used(t)
         /\ Packed(t) => InsertAt(t, k) = t.size
         /\ ~Packed(t) => \A u : /\ u.capacity = t.capacity
                                 /\ Empty(u) = Empty(t) \ {InsertAt(t, k)}
                                 => Near(u, k, InsertAt(t, k))
<1> DEFINE c == t.capacity
           end == First(t, Hash[k], Empty(t))
           passed == {i \in Killed(t) : (i - Hash[k]) % c < (end - Hash[k]) % c}
           i == InsertAt(t, k)
<1>1. /\ t \in TablesOf(c) /\ c \in Nat \ {0} /\ t.size \in Nat /\ t.tombstones \in Nat
      /\ Counts(t)
  BY SoundTypes DEF Sound
<1>2. i = IF Packed(t) THEN t.size ELSE IF passed = {} THEN end ELSE First(t, Hash[k], passed)
  BY DEF InsertAt
<1> HIDE DEF i
<1>3. CASE Packed(t)
  <2>1. i = t.size /\ t.size < t.capacity /\ Used(t) = 0..(t.size - 1)
    BY <1>1, <1>2, <1>3 DEF Roomy, Counts
  <2>2. QED BY <1>1, <1>3, <2>1 DEF Slots, i
<1>4. CASE ~Packed(t)
  <2>1. Hash[k] \in Nat /\ Hash[k] \in Int
    BY TableAssumption
  <2>2. Empty(t) # {} /\ Empty(t) \in SUBSET (0..(c - 1)) /\ Killed(t) \in SUBSET (0..(c - 1))
    <3>1. Cardinality(Used(t)) + Cardinality(Killed(t)) < c
      BY <1>1, <1>4 DEF Counts
    <3>2. Empty(t) # {}
      BY <1>1, <3>1, RoomMeansEmpty
    <3>3. QED BY <3>2 DEF Empty, Killed, Slots
  <2>3. end \in Empty(t) /\ \A j \in Empty(t) : Dist(c, Hash[k], end) <= Dist(c, Hash[k], j)
    BY <1>1, <2>1, <2>2, FirstIsNearest
  <2> HIDE DEF end
  <2>4. Dist(c, Hash[k], end) \in 0..(c - 1)
    <3>1. end \in Int
      BY <2>2, <2>3
    <3>2. QED BY <1>1, <2>1, <3>1, DistType
  <2>5. i \in Empty(t) \cup Killed(t) /\ Dist(c, Hash[k], i) <= Dist(c, Hash[k], end)
    <3>1. CASE passed = {}
      BY <1>1, <1>2, <1>4, <2>3, <2>4, <3>1
    <3>2. CASE passed # {}
      <4>1. passed \in SUBSET (0..(c - 1)) /\ passed \subseteq Killed(t)
            /\ \A j \in passed : Dist(c, Hash[k], j) < Dist(c, Hash[k], end)
        BY <2>2 DEF Dist
      <4> HIDE DEF passed
      <4>2. First(t, Hash[k], passed) \in passed
        BY <1>1, <2>1, <3>2, <4>1, FirstIsNearest
      <4>3. i \in passed
        BY <1>2, <1>4, <3>2, <4>2
      <4>4. Dist(c, Hash[k], i) \in 0..(c - 1)
        <5>1. i \in Int
          BY <4>1, <4>3
        <5>2. QED BY <1>1, <2>1, <5>1, DistType
      <4>5. QED BY <1>1, <2>4, <4>1, <4>3, <4>4
    <3>3. QED BY <3>1, <3>2
  <2>6. i \in Slots(t) \ Used(t) /\ end \in Slots(t)
    BY <1>1, <2>3, <2>5, ThreeKinds
  <2>7. ASSUME NEW u, u.capacity = c, Empty(u) = Empty(t) \ {i} PROVE Near(u, k, i)
    <3>1. \A j \in Slots(t) : Dist(c, Hash[k], j) = Dist(c, Hash[k], j)
      OBVIOUS
    <3>2. QED BY <1>1, <2>1, <2>3, <2>5, <2>6, <2>7, <3>1, NearestIsNear
  <2>8. QED BY <1>4, <2>6, <2>7 DEF i
<1>5. QED BY <1>3, <1>4

\* A new entry under key k, with the value of a slot that holds none.
EntryAdded(t, u, k) ==
  /\ u.capacity = t.capacity
  /\ \E i \in Slots(t) \ Used(t) :
       /\ Used(u) = Used(t) \cup {i} /\ u.keys[i] = k /\ u.data[i] = 0
       /\ \A j \in Used(t) : u.keys[j] = t.keys[j] /\ u.data[j] = t.data[j]

LEMMA Inserts ==
  ASSUME noHash \in BOOLEAN, NEW t, Sound(t), Roomy(t), t.capacity # 0, NEW k \in Keys
  PROVE  LET u == InsertAbsent(t, k)
         IN  /\ Sound(u) /\ EntryAdded(t, u, k)
             /\ Placed(t) /\ (\A j \in Used(t) : t.keys[j] # k) => Placed(u)
<1> DEFINE i == InsertAt(t, k)
           h == SlotHash(t, k)
           v == t.data[i]
           x == Put(t, i, h, k, v)
           z == [x EXCEPT !.size = @ + 1, !.tombstones = IF i \in Killed(t) THEN @ - 1 ELSE @]
<1>1. InsertAbsent(t, k) = z
  BY Zenon DEF InsertAbsent, InsertAt
<1>2. /\ i \in Slots(t) \ Used(t) /\ (Packed(t) => i = t.size)
      /\ ~Packed(t) => \A u : u.capacity = t.capacity /\ Empty(u) = Empty(t) \ {i} => Near(u, k, i)
  BY InsertSlot
<1> HIDE DEF i
<1>3. /\ t \in TablesOf(t.capacity) /\ t.capacity \in Nat /\ t.size \in Nat /\ t.tombstones \in Nat
      /\ Filed(t)
  BY SoundTypes DEF Sound
<1>4. v = 0 /\ v \in Values
  BY <1>2, TableAssumption, <1>3 DEF Filed
<1>5. h \in Nat
  BY SlotHashType
<1> HIDE DEF h, v
<1>6. Changed(t, x, i, h, k, v) /\ x.size = t.size /\ x.tombstones = t.tombstones
  BY <1>2, <1>3, <1>4, <1>5, PutOnly
<1> HIDE DEF x
<1>7. x \in TablesOf(t.capacity)
  BY <1>6 DEF Changed
<1> DEFINE s == t.size + 1
           n == IF i \in Killed(t) THEN t.tombstones - 1 ELSE t.tombstones
           y == [x EXCEPT !.size = s]
<1>8. /\ y \in TablesOf(t.capacity) /\ y.size = s /\ y.tombstones = x.tombstones
      /\ y.capacity = x.capacity /\ y.tableNoHash = x.tableNoHash
      /\ y.hashes = x.hashes /\ y.keys = x.keys /\ y.data = x.data
  <2>1. s \in Int
    BY <1>3
  <2> HIDE DEF s
  <2>2. QED BY <1>7, <2>1 DEF TablesOf
<1>9. /\ z \in TablesOf(t.capacity) /\ z.size = t.size + 1
      /\ z.capacity = x.capacity /\ z.tableNoHash = x.tableNoHash
      /\ z.hashes = x.hashes /\ z.keys = x.keys /\ z.data = x.data
      /\ i \in Killed(t) => z.tombstones = t.tombstones - 1
      /\ i \notin Killed(t) => z.tombstones = t.tombstones
  <2> DEFINE w == [y EXCEPT !.tombstones = n]
  <2>1. z = w
    BY <1>6, <1>8
  <2>2. n \in Int
    BY <1>3
  <2> HIDE DEF z, y, n
  <2>3. /\ w \in TablesOf(t.capacity) /\ w.size = s /\ w.tombstones = n
        /\ w.capacity = x.capacity /\ w.tableNoHash = x.tableNoHash
        /\ w.hashes = x.hashes /\ w.keys = x.keys /\ w.data = x.data
    BY <1>8, <2>2 DEF TablesOf
  <2> HIDE DEF w
  <2>4. QED BY <2>1, <2>3 DEF n
<1> HIDE DEF s, n, y, z
<1>10. Changed(t, z, i, h, k, v)
  BY <1>6, <1>9 DEF Changed
<1>11. Sound(z) /\ Used(z) = Used(t) \cup {i} /\ Empty(z) = Empty(t) \ {i}
  BY <1>2, <1>4, <1>9, <1>10, SoundAdds DEF h
<1>12. z.capacity = t.capacity /\ z.keys[i] = k /\ z.data[i] = 0
       /\ \A j \in Slots(t) \ {i} : z.keys[j] = t.keys[j] /\ z.data[j] = t.data[j]
  BY <1>4, <1>10 DEF Changed
<1>13. EntryAdded(t, z, k)
  <2>1. \A j \in Used(t) : z.keys[j] = t.keys[j] /\ z.data[j] = t.data[j]
    BY <1>2, <1>12, UsedAreSlots
  <2>2. QED BY <1>2, <1>11, <1>12, <2>1 DEF EntryAdded
<1>14. ASSUME Placed(t), \A j \in Used(t) : t.keys[j] # k PROVE Placed(z)
  <2>1. ~Packed(t) => Near(z, k, i)
    BY <1>2, <1>11, <1>12
  <2>2. QED BY <1>2, <1>11, <1>12, <1>14, <2>1, PlacedAdds
<1>15. QED BY <1>1, <1>11, <1>13, <1>14

\* The table holds value v under key k.
Holds(t, k, v) == \E i \in Used(t) : t.keys[i] = k /\ t.data[i] = v

LEMMA SameHolds ==
  ASSUME NEW t, NEW u, SameEntries(t, u)
  PROVE  \A k, v : Holds(u, k, v) <=> Holds(t, k, v)
<1>1. ASSUME NEW k, NEW v, Holds(u, k, v) PROVE Holds(t, k, v)
  <2>1. PICK i \in Used(u) : u.keys[i] = k /\ u.data[i] = v
    BY <1>1 DEF Holds
  <2>2. PICK j \in Used(t) : u.keys[i] = t.keys[j] /\ u.data[i] = t.data[j]
    BY DEF SameEntries
  <2>3. QED BY <2>1, <2>2 DEF Holds
<1>2. ASSUME NEW k, NEW v, Holds(t, k, v) PROVE Holds(u, k, v)
  <2>1. PICK i \in Used(t) : t.keys[i] = k /\ t.data[i] = v
    BY <1>2 DEF Holds
  <2>2. PICK j \in Used(u) : u.keys[j] = t.keys[i] /\ u.data[j] = t.data[i]
    BY DEF SameEntries
  <2>3. QED BY <2>1, <2>2 DEF Holds
<1>3. QED BY <1>1, <1>2

\* Key k is given a slot, with the cleared value when it had none.
KeyMade(t, u, k) ==
  /\ find(u, k) \in Used(u) /\ u.keys[find(u, k)] = k
  /\ \A x, v : Holds(u, x, v) <=> Holds(t, x, v) \/ (x = k /\ v = 0 /\ ~ \E w : Holds(t, k, w))

LEMMA Reserves ==
  ASSUME noHash \in BOOLEAN, NEW t, Sound(t), Fits(t), NEW k \in Keys
  PROVE  LET u == reserve(t, k)
         IN  /\ Sound(u)
             /\ HashesServe /\ Placed(t) => Placed(u) /\ KeyMade(t, u, k)
<1> DEFINE g == BeforeInsert(t, k)
           u == reserve(t, k)
           w == InsertAbsent(g, k)
<1>1. u = IF find(g, k) # None THEN g ELSE w
  BY DEF reserve
<1>2. g = IF Packed(t) /\ find(t, k) # None THEN t ELSE Grown(t)
  BY DEF BeforeInsert
<1> HIDE DEF g, u
<1>3. Sound(g) /\ (HashesServe /\ Placed(t) => Placed(g) /\ SameEntries(t, g))
  BY <1>2, Growing, SameEntriesItself
<1>4. CASE find(g, k) # None
  <2>1. u = g
    BY <1>1, <1>4
  <2>2. find(g, k) \in Used(g) /\ (HashesServe => g.keys[find(g, k)] = k)
    BY <1>3, <1>4, FindsOnlyKeys
  <2>3. ASSUME HashesServe, Placed(t) PROVE KeyMade(t, g, k)
    <3>1. \A x, v : Holds(g, x, v) <=> Holds(t, x, v)
      BY <1>3, <2>3, SameHolds
    <3>2. Holds(g, k, g.data[find(g, k)])
      BY <2>2, <2>3 DEF Holds
    <3>3. \E e : Holds(t, k, e)
      BY <3>1, <3>2
    <3>4. QED BY <2>2, <2>3, <3>1, <3>3 DEF KeyMade
  <2>4. QED BY <1>3, <2>1, <2>3 DEF u
<1>5. CASE find(g, k) = None
  <2>1. u = w
    BY <1>1, <1>5
  <2>2. g = Grown(t)
    BY <1>2, <1>5
  <2>3. Roomy(g) /\ g.capacity # 0
    BY <2>2, Growing
  <2>4. /\ Sound(w) /\ EntryAdded(g, w, k)
        /\ Placed(g) /\ (\A j \in Used(g) : g.keys[j] # k) => Placed(w)
    BY <1>3, <2>3, Inserts
  <2> HIDE DEF w
  <2>5. ASSUME HashesServe, Placed(t) PROVE Placed(w) /\ KeyMade(t, w, k)
    <3>1. Placed(g) /\ \A x, v : Holds(g, x, v) <=> Holds(t, x, v)
      BY <1>3, <2>5, SameHolds
    <3>2. ASSUME NEW j \in Used(g) PROVE g.keys[j] # k
      <4>1. SUFFICES ASSUME g.keys[j] = k PROVE FALSE
        OBVIOUS
      <4>2. find(g, k) = j
        BY <1>3, <2>5, <3>1, <4>1, FindsTheSlot
      <4>3. QED BY <1>5, <4>2, UsedAreSlots
    <3>3. Placed(w)
      BY <2>4, <3>1, <3>2
    <3>4. PICK i \in Slots(g) \ Used(g) :
            /\ Used(w) = Used(g) \cup {i} /\ w.keys[i] = k /\ w.data[i] = 0
            /\ \A j \in Used(g) : w.keys[j] = g.keys[j] /\ w.data[j] = g.data[j]
      BY <2>4 DEF EntryAdded
    <3>5. find(w, k) = i /\ i \in Used(w)
      BY <2>4, <2>5, <3>3, <3>4, FindsTheSlot
    <3>6. ~ \E e : Holds(t, k, e)
      BY <3>1, <3>2 DEF Holds
    <3>7. \A x, v : Holds(w, x, v) <=> Holds(g, x, v) \/ (x = k /\ v = 0)
      BY <3>4 DEF Holds
    <3>8. \A x, v : Holds(w, x, v) <=> Holds(t, x, v) \/ (x = k /\ v = 0 /\ ~ \E e : Holds(t, k, e))
      BY <3>1, <3>6, <3>7
    <3>9. QED BY <3>3, <3>4, <3>5, <3>8 DEF KeyMade
  <2>6. QED BY <2>1, <2>4, <2>5 DEF u
<1>6. QED BY <1>4, <1>5

-----------------------------------------------------------------------------
(* Erasing.                                                                *)

\* The entry at slot i is gone, whatever has moved.
EntryGone(t, u, i) ==
  \A x, v : Holds(u, x, v) <=> \E j \in Used(t) \ {i} : t.keys[j] = x /\ t.data[j] = v

LEMMA ErasesInPlace ==
  ASSUME noHash \in BOOLEAN, NEW t, Sound(t), ~Packed(t), NEW i \in Used(t)
  PROVE  LET u == [Put(t, i, TOMBSTONE, NoKey, 0) EXCEPT !.size = @ - 1, !.tombstones = @ + 1]
         IN  Sound(u) /\ u.capacity = t.capacity /\ EntryGone(t, u, i) /\ (Placed(t) => Placed(u))
<1> DEFINE x == Put(t, i, TOMBSTONE, NoKey, 0)
           s == t.size - 1
           n == t.tombstones + 1
           u == [x EXCEPT !.size = s, !.tombstones = n]
<1>1. /\ t \in TablesOf(t.capacity) /\ t.capacity \in Nat /\ t.size \in Nat /\ t.tombstones \in Nat
  BY SoundTypes
<1>2. i \in Slots(t) /\ t.capacity # 0 /\ TOMBSTONE \in Nat /\ NoKey \in Keys \cup {NoKey} /\ 0 \in Values
  BY <1>1, UsedAreSlots, TableAssumption DEF Slots, TOMBSTONE
<1>3. s \in Int /\ n \in Int
  BY <1>1
<1>4. Changed(t, x, i, TOMBSTONE, NoKey, 0) /\ x.size = t.size /\ x.tombstones = t.tombstones
  BY <1>1, <1>2, PutOnly
<1> HIDE DEF x
<1> DEFINE y == [x EXCEPT !.size = s]
<1>5. [x EXCEPT !.size = @ - 1, !.tombstones = @ + 1] = u
  BY <1>4
<1> HIDE DEF s, n
<1>6. Changed(t, u, i, TOMBSTONE, NoKey, 0) /\ u.size = s /\ u.tombstones = n
  <2> DEFINE w == [y EXCEPT !.tombstones = n]
  <2>1. x \in TablesOf(t.capacity)
    BY <1>4 DEF Changed
  <2>2. u = w
    BY Zenon
  <2>3. /\ y \in TablesOf(t.capacity) /\ y.size = s /\ y.capacity = x.capacity
        /\ y.tableNoHash = x.tableNoHash
        /\ y.hashes = x.hashes /\ y.keys = x.keys /\ y.data = x.data
    BY <1>3, <2>1 DEF TablesOf
  <2> HIDE DEF y, u
  <2>4. /\ w \in TablesOf(t.capacity) /\ w.size = s /\ w.tombstones = n
        /\ w.capacity = x.capacity /\ w.tableNoHash = x.tableNoHash
        /\ w.hashes = x.hashes /\ w.keys = x.keys /\ w.data = x.data
    BY <1>3, <2>3 DEF TablesOf
  <2> HIDE DEF w
  <2>5. QED BY <1>4, <2>2, <2>4 DEF Changed
<1> HIDE DEF u
<1>7. Sound(u) /\ Used(u) = Used(t) \ {i} /\ Empty(u) = Empty(t)
  BY <1>2, <1>6, SoundKills DEF s, n
<1>8. u.capacity = t.capacity /\ \A j \in Used(u) : u.keys[j] = t.keys[j] /\ u.data[j] = t.data[j]
  BY <1>6, <1>7, UsedAreSlots DEF Changed
<1>9. EntryGone(t, u, i)
  BY <1>7, <1>8 DEF EntryGone, Holds
<1>10. Placed(t) => Placed(u)
  BY <1>7, <1>8, PlacedShrinks
<1>11. QED BY <1>5, <1>7, <1>8, <1>9, <1>10 DEF x

\* A packed table moves its last entry into the gap.
LEMMA ErasesByMoving ==
  ASSUME noHash \in BOOLEAN, NEW t, Sound(t), Packed(t), NEW i \in Used(t)
  PROVE  LET last == t.size - 1
             moved == Put(t, i, t.hashes[last], t.keys[last], t.data[last])
             u == [Put(moved, last, EMPTY, NoKey, 0) EXCEPT !.size = @ - 1]
         IN  Sound(u) /\ u.capacity = t.capacity /\ EntryGone(t, u, i) /\ (Placed(t) => Placed(u))
<1> DEFINE last == t.size - 1
           h == t.hashes[last]
           k == t.keys[last]
           v == t.data[last]
           moved == Put(t, i, h, k, v)
           x == Put(moved, last, EMPTY, NoKey, 0)
           u == [x EXCEPT !.size = @ - 1]
<1>1. /\ t \in TablesOf(t.capacity) /\ t.capacity \in Nat /\ t.size \in Nat /\ t.tombstones \in Nat
      /\ Formed(t) /\ Filed(t) /\ Counts(t)
  BY SoundTypes DEF Sound
<1>2. Used(t) = 0..(t.size - 1) /\ Killed(t) = {}
  BY <1>1 DEF Counts
<1>3. last \in Used(t) /\ last \in Slots(t) /\ i \in Slots(t) /\ last \in Nat /\ i \in Nat
      /\ EMPTY \in Nat /\ NoKey \in Keys \cup {NoKey} /\ 0 \in Values
  <2>1. last \in Used(t)
    BY <1>1, <1>2
  <2>2. QED BY <1>1, <1>2, <2>1, UsedAreSlots, TableAssumption DEF EMPTY
<1> HIDE DEF last
<1>4. k \in Keys /\ h = SlotHash(t, k) /\ h \in Nat /\ h > TOMBSTONE /\ v \in Values
  BY <1>1, <1>3, Fields, SlotHashType DEF Filed
<1> HIDE DEF h, k, v
<1>5. Changed(t, moved, i, h, k, v) /\ moved.size = t.size /\ moved.tombstones = t.tombstones
  BY <1>1, <1>3, <1>4, PutOnly
<1> HIDE DEF moved
<1>6. Slots(moved) = Slots(t) /\ Used(moved) = Used(t) /\ Killed(moved) = {}
      /\ moved.capacity = t.capacity /\ moved \in TablesOf(moved.capacity)
  <2>1. /\ Slots(moved) = Slots(t) /\ Used(moved) = Used(t) \cup {i} /\ Killed(moved) = Killed(t) \ {i}
        /\ Empty(moved) = Empty(t) \ {i}
    BY <1>1, <1>3, <1>4, <1>5, KindsAfter
  <2>2. moved.capacity = t.capacity /\ moved \in TablesOf(moved.capacity)
    BY <1>5 DEF Changed
  <2>3. QED BY <1>2, <2>1, <2>2
<1>7. Formed(moved) /\ Filed(moved)
  <2>1. Entry(t, h, k, v)
    BY <1>4 DEF Entry
  <2>2. QED BY <1>1, <1>3, <1>4, <1>5, <2>1, FiledAfter
<1>8. Changed(moved, x, last, EMPTY, NoKey, 0) /\ x.size = t.size /\ x.tombstones = t.tombstones
  BY <1>3, <1>5, <1>6, PutOnly
<1> HIDE DEF x
<1>9. /\ Changed(moved, u, last, EMPTY, NoKey, 0) /\ u.size = t.size - 1
      /\ u.tombstones = t.tombstones
  <2> DEFINE s == t.size - 1
             y == [x EXCEPT !.size = s]
  <2>1. u = y
    BY <1>8
  <2>2. s \in Int /\ x \in TablesOf(moved.capacity)
    BY <1>1, <1>8 DEF Changed
  <2> HIDE DEF s, u
  <2>3. /\ y \in TablesOf(moved.capacity) /\ y.size = s /\ y.capacity = x.capacity
        /\ y.tableNoHash = x.tableNoHash /\ y.tombstones = x.tombstones
        /\ y.hashes = x.hashes /\ y.keys = x.keys /\ y.data = x.data
    BY <2>2 DEF TablesOf
  <2> HIDE DEF y
  <2>4. QED BY <1>8, <2>1, <2>3 DEF Changed, s
<1> HIDE DEF u
<1>10. Slots(u) = Slots(t) /\ Used(u) = Used(t) \ {last} /\ Killed(u) = {}
  <2>1. /\ Slots(u) = Slots(moved) /\ Used(u) = Used(moved) \ {last} /\ Killed(u) = Killed(moved) \ {last}
    BY <1>3, <1>6, <1>9, KindsAfter DEF EMPTY
  <2>2. QED BY <1>6, <2>1
<1>11. Formed(u) /\ Filed(u)
  <2>1. Entry(moved, EMPTY, NoKey, 0)
    BY DEF Entry
  <2>2. QED BY <1>3, <1>6, <1>7, <1>9, <2>1, FiledAfter
<1>12. u.capacity = t.capacity /\ (Packed(u) <=> Packed(t))
  <2>1. u.capacity = t.capacity
    BY <1>6, <1>9 DEF Changed
  <2>2. QED BY <2>1, SlotHashAfter
<1>13. Used(u) = 0..(u.size - 1)
  <2>1. Used(u) = (0..(t.size - 1)) \ {t.size - 1}
    BY <1>2, <1>10 DEF last
  <2>2. (0..(t.size - 1)) \ {t.size - 1} = 0..((t.size - 1) - 1)
    BY <1>1
  <2>3. QED BY <1>9, <2>1, <2>2
<1>14. Counts(u)
  <2>1. u.size \in Nat
    BY <1>1, <1>3, <1>9 DEF last
  <2>2. Cardinality(0..(u.size - 1)) = u.size
    BY <2>1, IntervalCount
  <2>3. Cardinality({}) = 0 /\ t.tombstones = Cardinality(Killed(t))
    BY <1>1, FS_EmptySet DEF Counts
  <2>4. u.size = Cardinality(Used(u))
    BY <1>13, <2>2
  <2>5. u.tombstones = Cardinality(Killed(u))
    BY <1>2, <1>9, <1>10, <2>3
  <2>6. QED BY <1>10, <1>12, <1>13, <2>4, <2>5 DEF Counts
<1>15. /\ \A j \in Used(u) : j # i => u.keys[j] = t.keys[j] /\ u.data[j] = t.data[j]
       /\ i # last => u.keys[i] = t.keys[last] /\ u.data[i] = t.data[last]
  <2>1. \A j \in Slots(t) \ {i} : moved.keys[j] = t.keys[j] /\ moved.data[j] = t.data[j]
    BY <1>5 DEF Changed
  <2>2. moved.keys[i] = t.keys[last] /\ moved.data[i] = t.data[last]
    BY <1>5 DEF Changed, k, v
  <2>3. \A j \in Slots(t) \ {last} : u.keys[j] = moved.keys[j] /\ u.data[j] = moved.data[j]
    BY <1>6, <1>9 DEF Changed
  <2>4. \A j \in Used(u) : j \in Slots(t) /\ j # last
    BY <1>10, UsedAreSlots
  <2>5. QED BY <1>3, <2>1, <2>2, <2>3, <2>4
<1>16. Placed(t) => Placed(u)
  <2>1. SUFFICES ASSUME Placed(t), NEW a \in Used(u), NEW b \in Used(u), u.keys[a] = u.keys[b]
                 PROVE  a = b
    BY <1>12 DEF Placed, Distinct
  <2>2. Distinct(t)
    BY <2>1 DEF Placed
  <2>3. a \in Used(t) /\ b \in Used(t) /\ a # last /\ b # last
    BY <1>10
  <2>4. CASE a = i /\ b # i
    BY <1>3, <1>15, <2>1, <2>2, <2>3, <2>4 DEF Distinct
  <2>5. CASE a # i /\ b = i
    BY <1>3, <1>15, <2>1, <2>2, <2>3, <2>5 DEF Distinct
  <2>6. CASE a # i /\ b # i
    BY <1>15, <2>1, <2>2, <2>3, <2>6 DEF Distinct
  <2>7. QED BY <2>4, <2>5, <2>6
<1>17. EntryGone(t, u, i)
  <2> SUFFICES ASSUME NEW a, NEW b
               PROVE  Holds(u, a, b) <=> \E j \in Used(t) \ {i} : t.keys[j] = a /\ t.data[j] = b
    BY DEF EntryGone
  <2>1. ASSUME Holds(u, a, b) PROVE \E j \in Used(t) \ {i} : t.keys[j] = a /\ t.data[j] = b
    <3>1. PICK j \in Used(u) : u.keys[j] = a /\ u.data[j] = b
      BY <2>1 DEF Holds
    <3>2. CASE j = i
      BY <1>3, <1>10, <1>15, <3>1, <3>2
    <3>3. CASE j # i
      BY <1>10, <1>15, <3>1, <3>3
    <3>4. QED BY <3>2, <3>3
  <2>2. ASSUME NEW j \in Used(t) \ {i}, t.keys[j] = a, t.data[j] = b PROVE Holds(u, a, b)
    <3>1. CASE j = last
      <4>1. i \in Used(u) /\ i # last
        BY <1>10, <2>2, <3>1
      <4>2. QED BY <1>15, <2>2, <3>1, <4>1 DEF Holds
    <3>2. CASE j # last
      <4>1. j \in Used(u)
        BY <1>10, <2>2, <3>2
      <4>2. QED BY <1>15, <2>2, <4>1 DEF Holds
    <3>3. QED BY <3>1, <3>2
  <2>3. QED BY <2>1, <2>2
<1>18. QED BY <1>11, <1>12, <1>14, <1>16, <1>17 DEF Sound, u, x, moved, h, k, v, last

LEMMA Erases ==
  ASSUME noHash \in BOOLEAN, NEW t, Sound(t), NEW k \in Keys, find(t, k) # None
  PROVE  LET u == eraseFound(t, k)
         IN  Sound(u) /\ u.capacity = t.capacity /\ EntryGone(t, u, find(t, k))
             /\ (Placed(t) => Placed(u))
<1> DEFINE i == find(t, k)
           u == eraseFound(t, k)
<1>1. i \in Used(t)
  BY FindsOnlyKeys
<1>2. CASE Packed(t)
  <2>1. u = LET last == t.size - 1
                moved == Put(t, i, t.hashes[last], t.keys[last], t.data[last])
            IN  [Put(moved, last, EMPTY, NoKey, 0) EXCEPT !.size = @ - 1]
    BY <1>2, Zenon DEF eraseFound
  <2> HIDE DEF u, i
  <2>2. LET last == t.size - 1
            moved == Put(t, i, t.hashes[last], t.keys[last], t.data[last])
            w == [Put(moved, last, EMPTY, NoKey, 0) EXCEPT !.size = @ - 1]
        IN  Sound(w) /\ w.capacity = t.capacity /\ EntryGone(t, w, i) /\ (Placed(t) => Placed(w))
    BY <1>1, <1>2, ErasesByMoving
  <2>3. Sound(u) /\ u.capacity = t.capacity /\ EntryGone(t, u, i) /\ (Placed(t) => Placed(u))
    BY <2>1, <2>2, Zenon
  <2>4. QED BY <2>3 DEF u, i
<1>3. CASE ~Packed(t)
  <2>1. u = [Put(t, i, TOMBSTONE, NoKey, 0) EXCEPT !.size = @ - 1, !.tombstones = @ + 1]
    BY <1>3, Zenon DEF eraseFound
  <2> HIDE DEF u, i
  <2>2. LET w == [Put(t, i, TOMBSTONE, NoKey, 0) EXCEPT !.size = @ - 1, !.tombstones = @ + 1]
        IN  Sound(w) /\ w.capacity = t.capacity /\ EntryGone(t, w, i) /\ (Placed(t) => Placed(w))
    BY <1>1, <1>3, ErasesInPlace
  <2>3. Sound(u) /\ u.capacity = t.capacity /\ EntryGone(t, u, i) /\ (Placed(t) => Placed(u))
    BY <2>1, <2>2, Zenon
  <2>4. QED BY <2>3 DEF u, i
<1>4. QED BY <1>2, <1>3

\* A table with no entry at all.
Bare(t) == Sound(t) /\ Placed(t) /\ Used(t) = {}

LEMMA BareWhenEmpty ==
  ASSUME noHash \in BOOLEAN, NEW t, Formed(t), Filed(t), Used(t) = {}, Killed(t) = {},
         t.size = 0, t.tombstones = 0, Placed(t)
  PROVE  Bare(t)
<1>1. Cardinality({}) = 0
  BY FS_EmptySet
<1>2. t.capacity \in Nat
  BY CapacityTypes DEF Formed
<1>3. 0..(t.size - 1) = {}
  OBVIOUS
<1>4. Counts(t)
  BY <1>1, <1>2, <1>3 DEF Counts
<1>5. QED BY <1>4 DEF Bare, Sound

LEMMA NoTableIsBare ==
  ASSUME noHash \in BOOLEAN
  PROVE  Bare(NoTable) /\ NoTable.capacity = 0
<1> DEFINE t == NoTable
<1>1. /\ t.capacity = 0 /\ t.size = 0 /\ t.tombstones = 0 /\ t.tableNoHash = FALSE
      /\ t.hashes = <<>> /\ t.keys = <<>> /\ t.data = <<>>
  BY DEF NoTable
<1>2. t \in TablesOf(0)
  BY DEF TablesOf, NoTable
<1> HIDE DEF t
<1>3. Slots(t) = {}
  BY <1>1 DEF Slots
<1>4. Used(t) = {} /\ Killed(t) = {}
  BY <1>3 DEF Used, Killed
<1>5. Formed(t) /\ Filed(t) /\ Placed(t)
  BY <1>1, <1>2, <1>3, <1>4 DEF Formed, Filed, Placed, Distinct
<1>6. Bare(t)
  BY <1>1, <1>4, <1>5, BareWhenEmpty
<1>7. QED BY <1>1, <1>6 DEF t

Cleared(t) == [FreshTable(t, t.capacity) EXCEPT !.size = 0, !.tableNoHash = t.tableNoHash]

LEMMA ClearedIsBare ==
  ASSUME noHash \in BOOLEAN, NEW t, Sound(t)
  PROVE  Bare(Cleared(t)) /\ Cleared(t).capacity = t.capacity
<1> DEFINE c == t.capacity
           n == FreshTable(t, c)
           x == [n EXCEPT !.size = 0]
           f == t.tableNoHash
           u == [x EXCEPT !.tableNoHash = f]
<1>1. /\ c \in Nat /\ c \in Capacities[noHash] \cup {0} /\ t.size \in Int
      /\ f \in BOOLEAN /\ (c # 0 => f = noHash)
  BY SoundTypes, Fields DEF Sound, Formed
<1>2. Cleared(t) = u
  BY Zenon DEF Cleared
<1>3. /\ Formed(n) /\ n.capacity = c /\ n.tombstones = 0 /\ n.tableNoHash = noHash
      /\ Filed(n) /\ Killed(n) = {} /\ Used(n) = {} /\ Placed(n)
  BY <1>1, FreshIsEmpty
<1> HIDE DEF n, f, c
<1>4. n \in TablesOf(c)
  BY <1>3 DEF Formed
<1>5. /\ x \in TablesOf(c) /\ x.size = 0 /\ x.tombstones = n.tombstones /\ x.capacity = n.capacity
      /\ x.hashes = n.hashes /\ x.keys = n.keys /\ x.data = n.data
  BY <1>4 DEF TablesOf
<1> HIDE DEF x
<1>6. /\ u \in TablesOf(c) /\ u.size = 0 /\ u.tombstones = 0 /\ u.capacity = c
      /\ u.tableNoHash = f /\ u.hashes = n.hashes /\ u.keys = n.keys /\ u.data = n.data
  BY <1>1, <1>3, <1>5 DEF TablesOf
<1> HIDE DEF u
<1>7. Slots(u) = Slots(n) /\ Used(u) = {} /\ Killed(u) = {}
  BY <1>3, <1>6 DEF Used, Killed, Slots
<1>8. Formed(u)
  BY <1>1, <1>6 DEF Formed
<1>9. Filed(u) /\ Placed(u)
  BY <1>3, <1>6, <1>7 DEF Filed, Placed, Distinct
<1>10. Bare(u)
  BY <1>6, <1>7, <1>8, <1>9, BareWhenEmpty
<1>11. QED BY <1>2, <1>6, <1>10 DEF c

LEMMA Writes ==
  ASSUME noHash \in BOOLEAN, NEW t, Sound(t), NEW i \in Used(t), NEW v \in Values
  PROVE  LET u == [t EXCEPT !.data[i] = v]
         IN  /\ Sound(u) /\ u.capacity = t.capacity /\ Used(u) = Used(t)
             /\ \A j \in Used(t) : u.keys[j] = t.keys[j]
             /\ u.data[i] = v /\ \A j \in Used(t) \ {i} : u.data[j] = t.data[j]
             /\ Placed(t) => Placed(u)
<1> DEFINE u == [t EXCEPT !.data[i] = v]
<1>1. t \in TablesOf(t.capacity) /\ i \in Slots(t) /\ t.data \in [Slots(t) -> Values]
  BY SoundTypes, UsedAreSlots, Fields
<1>2. /\ u \in TablesOf(t.capacity) /\ u.capacity = t.capacity /\ u.tableNoHash = t.tableNoHash
      /\ u.size = t.size /\ u.tombstones = t.tombstones
      /\ u.hashes = t.hashes /\ u.keys = t.keys /\ u.data = [t.data EXCEPT ![i] = v]
  BY <1>1 DEF TablesOf
<1> HIDE DEF u
<1>3. Changed(t, u, i, t.hashes[i], t.keys[i], v)
  BY <1>1, <1>2 DEF Changed
<1>4. /\ Sound(u) /\ Used(u) = Used(t) /\ Empty(u) = Empty(t)
      /\ \A j \in Used(t) : u.keys[j] = t.keys[j]
      /\ u.data[i] = v /\ \A j \in Used(t) \ {i} : u.data[j] = t.data[j]
  <2>1. u.size = t.size /\ u.tombstones = t.tombstones
    BY <1>2
  <2>2. QED BY <1>3, <2>1, SoundWrites
<1>5. Placed(t) => Placed(u)
  BY <1>2, <1>4, PlacedShrinks
<1>6. QED BY <1>2, <1>4, <1>5 DEF u

\* A write outside the table changes nothing.
LEMMA WritesNowhere ==
  ASSUME noHash \in BOOLEAN, NEW t, Sound(t), NEW v
  PROVE  [t EXCEPT !.data[None] = v] = t
<1>1. t \in TablesOf(t.capacity) /\ t.data \in [Slots(t) -> Values] /\ None \notin Slots(t)
  BY SoundTypes, Fields DEF Slots, None
<1>2. [t.data EXCEPT ![None] = v] = t.data
  BY <1>1
<1>3. [t EXCEPT !.data[None] = v] = [t EXCEPT !.data = [t.data EXCEPT ![None] = v]]
  BY Zenon
<1>4. [t EXCEPT !.data = t.data] = t
  BY <1>1 DEF TablesOf
<1>5. QED BY <1>2, <1>3, <1>4, Zenon

-----------------------------------------------------------------------------
(* The invariant.                                                          *)

\* What holds of a table between two operations.
Good(t) == Sound(t) /\ (HashesServe => Placed(t))

Holding == {b \in Borrowers : cursor[b].mode # "idle"}

Cursors == [mode : {"idle", "ended", "loop", "get"}, at : Int]

\* The lock counts the borrowers, and what they hold is live.
Borrowing ==
  /\ cursor \in [Borrowers -> Cursors]
  /\ IsFiniteSet(Holding) /\ lock = Cardinality(Holding)
  /\ \A b \in Borrowers :
       /\ cursor[b].mode = "idle" => cursor[b] = Idle
       /\ cursor[b].mode = "ended" => cursor[b].at = None
       /\ cursor[b].mode \in {"loop", "get"} => cursor[b].at \in Used(tab)

IInv ==
  /\ noHash \in BOOLEAN
  /\ Good(tab)
  /\ block = BlockBytes(tab.capacity)
  /\ Borrowing

LEMMA Carries ==
  ASSUME noHash \in BOOLEAN, noHash' = noHash, Good(tab'), NEW c, c = tab'.capacity,
         block' = BlockBytes(c)
  PROVE  noHash' \in BOOLEAN /\ Good(tab)' /\ block' = BlockBytes(tab.capacity)'
<1>1. Packed(tab)' <=> Packed(tab')
  BY DEF Packed
<1>2. \A k : SlotHash(tab, k)' = SlotHash(tab', k)
  BY <1>1 DEF SlotHash, hashToHashKey
<1>3. Used(tab)' = Used(tab') /\ Killed(tab)' = Killed(tab') /\ Slots(tab)' = Slots(tab')
      /\ Empty(tab)' = Empty(tab')
  BY DEF Used, Killed, Slots, Empty
<1>4. Formed(tab)' <=> Formed(tab')
  BY DEF Formed
<1>5. Filed(tab)' <=> Filed(tab')
  BY <1>2, <1>3 DEF Filed
<1>6. Counts(tab)' <=> Counts(tab')
  BY <1>1, <1>3 DEF Counts
<1>7. Placed(tab)' <=> Placed(tab')
  BY <1>1, <1>3 DEF Placed, Distinct, Near
<1>8. HashesServe' <=> HashesServe
  BY DEF HashesServe
<1>9. Good(tab)'
  BY <1>4, <1>5, <1>6, <1>7, <1>8 DEF Good, Sound
<1>10. block' = BlockBytes(tab.capacity)'
  BY DEF BlockBytes
<1>11. QED BY <1>9, <1>10

LEMMA Unlocked ==
  ASSUME Borrowing, lock = 0
  PROVE  \A b \in Borrowers : cursor[b] = Idle
<1>1. Holding = {}
  BY FS_EmptySet DEF Borrowing
<1>2. QED BY <1>1 DEF Holding, Borrowing

LEMMA BorrowingKept ==
  ASSUME Borrowing, cursor' = cursor, lock' = lock, lock = 0 \/ Used(tab') = Used(tab)
  PROVE  Borrowing'
<1>1. Holding' = Holding
  BY DEF Holding
<1>2. Used(tab)' = Used(tab')
  BY DEF Used, Slots
<1>3. ASSUME NEW b \in Borrowers, cursor[b].mode \in {"loop", "get"}
      PROVE  cursor[b].at \in Used(tab')
  <2>1. lock # 0
    BY <1>3, Unlocked DEF Idle
  <2>2. QED BY <1>3, <2>1 DEF Borrowing
<1> DEFINE n == Cardinality(Holding)
<1>4. lock = n /\ n' = n
  BY <1>1 DEF Borrowing
<1>5. QED BY <1>1, <1>2, <1>3, <1>4 DEF Borrowing

LEMMA BareIsGood ==
  ASSUME NEW t, Bare(t)
  PROVE  Good(t)
  BY DEF Bare, Good

LEMMA InitIInv == Init => IInv
<1> SUFFICES ASSUME Init PROVE IInv
  OBVIOUS
<1>1. noHash \in BOOLEAN /\ tab = NoTable /\ lock = 0 /\ block = 0
      /\ cursor = [b \in Borrowers |-> Idle]
  BY DEF Init
<1>2. Bare(tab) /\ tab.capacity = 0
  BY <1>1, NoTableIsBare
<1>3. block = BlockBytes(tab.capacity)
  <2>1. BlockBytes(0) = 0
    <3> DEFINE w == IF noHash THEN Width.control
                    ELSE IF 0 <= minCapacity[noHash] THEN Width.packed ELSE Width.large
    <3>1. w \in Nat /\ KeyValueBytes \in Nat
      BY DEF Width, KeyValueBytes
    <3>2. BlockBytes(0) = 0 * (KeyValueBytes + w)
      BY DEF BlockBytes
    <3> HIDE DEF w
    <3>3. QED BY <3>1, <3>2
  <2>2. QED BY <1>1, <1>2, <2>1
<1>4. \A b \in Borrowers : cursor[b] = Idle
  BY <1>1
<1>5. Idle \in Cursors /\ Idle.mode = "idle"
  BY DEF Idle, Cursors, None
<1>6. Holding = {}
  BY <1>4, <1>5 DEF Holding
<1>7. IsFiniteSet(Holding) /\ Cardinality(Holding) = 0
  BY <1>6, FS_EmptySet
<1>8. cursor \in [Borrowers -> Cursors]
  BY <1>1, <1>5
<1>9. Borrowing
  BY <1>1, <1>4, <1>5, <1>7, <1>8 DEF Borrowing
<1>10. QED BY <1>1, <1>2, <1>3, <1>9, BareIsGood DEF IInv

-----------------------------------------------------------------------------
(* Every operation keeps it.                                               *)

LEMMA ReplaceKeeps ==
  ASSUME IInv, noHash' = noHash, cursor' = cursor, lock' = lock,
         NEW t, Good(t), Replace(t), lock = 0 \/ Used(t) = Used(tab)
  PROVE  IInv'
<1>1. tab' = t /\ block' = IF t.capacity = tab.capacity THEN block ELSE BlockBytes(t.capacity)
  BY DEF Replace
<1>2. noHash \in BOOLEAN /\ block = BlockBytes(tab.capacity) /\ Borrowing
  BY DEF IInv
<1> DEFINE c == tab'.capacity
<1>3. block' = BlockBytes(c)
  <2>1. CASE t.capacity = tab.capacity
    BY <1>1, <1>2, <2>1
  <2>2. CASE t.capacity # tab.capacity
    BY <1>1, <2>2
  <2>3. QED BY <2>1, <2>2
<1>4. c = tab'.capacity
  OBVIOUS
<1> HIDE DEF c
<1>5. Good(tab')
  BY <1>1
<1>6. noHash' \in BOOLEAN /\ Good(tab)' /\ block' = BlockBytes(tab.capacity)'
  BY <1>2, <1>3, <1>4, <1>5, Carries
<1>7. Borrowing'
  BY <1>1, <1>2, BorrowingKept
<1>8. QED BY <1>6, <1>7 DEF IInv

LEMMA SameTableKeeps ==
  ASSUME IInv, noHash' = noHash, tab' = tab, block' = block
  PROVE  noHash' \in BOOLEAN /\ Good(tab)' /\ block' = BlockBytes(tab.capacity)' /\ Used(tab)' = Used(tab)
<1> DEFINE c == tab'.capacity
<1>1. noHash \in BOOLEAN /\ Good(tab') /\ block' = BlockBytes(c)
  BY DEF IInv
<1>2. c = tab'.capacity
  OBVIOUS
<1> HIDE DEF c
<1>3. noHash' \in BOOLEAN /\ Good(tab)' /\ block' = BlockBytes(tab.capacity)'
  BY <1>1, <1>2, Carries
<1>4. Used(tab)' = Used(tab)
  BY DEF Used, Slots
<1>5. QED BY <1>3, <1>4

LEMMA SameKeeps ==
  ASSUME IInv, UNCHANGED <<noHash, tab, lock, block, cursor>>
  PROVE  IInv'
<1>1. noHash' \in BOOLEAN /\ Good(tab)' /\ block' = BlockBytes(tab.capacity)'
  BY SameTableKeeps
<1>2. Borrowing'
  BY BorrowingKept DEF IInv
<1>3. QED BY <1>1, <1>2 DEF IInv

\* What tab[k] = v makes of a table.
Indexed(t, k, v) == [reserve(t, k) EXCEPT !.data[find(reserve(t, k), k)] = v]

LEMMA IndexedIsGood ==
  ASSUME noHash \in BOOLEAN, NEW t, Good(t), Fits(t), NEW k \in Keys, NEW v \in Values
  PROVE  Good(Indexed(t, k, v))
<1> DEFINE r == reserve(t, k)
           i == find(r, k)
<1>1. Good(r)
  BY Reserves DEF Good
<1>2. Indexed(t, k, v) = [r EXCEPT !.data[i] = v]
  BY DEF Indexed
<1>3. i \in Used(r) \/ i = None
  BY <1>1, FindsOnlyKeys DEF Good
<1> HIDE DEF r, i
<1>4. CASE i \in Used(r)
  <2>1. LET u == [r EXCEPT !.data[i] = v] IN Sound(u) /\ (Placed(r) => Placed(u))
    BY <1>1, <1>4, Writes DEF Good
  <2>2. QED BY <1>1, <1>2, <2>1 DEF Good
<1>5. CASE i = None
  <2>1. [r EXCEPT !.data[None] = v] = r
    BY <1>1, WritesNowhere DEF Good
  <2>2. Indexed(t, k, v) = r
    BY <1>2, <1>5, <2>1, Zenon
  <2>3. QED BY <1>1, <2>2
<1>6. QED BY <1>3, <1>4, <1>5

LEMMA IndexKeeps ==
  ASSUME IInv, NEW k \in Keys, NEW v \in Values, Index(k, v)
  PROVE  IInv'
<1>1. noHash \in BOOLEAN /\ Good(tab) /\ Sound(tab)
  BY DEF IInv, Good
<1>2. CASE Panic
  BY <1>2, SameKeeps DEF Panic
<1>3. CASE IndexUnlocked(k, v) /\ (lock = 0 \/ (find(tab, k) # None /\ BeforeInsert(tab, k) = tab))
  <2> DEFINE u == Indexed(tab, k, v)
  <2>1. Fits(tab) /\ noHash' = noHash /\ cursor' = cursor /\ lock' = lock /\ Replace(u)
    BY <1>3, Zenon DEF IndexUnlocked, Done, Indexed
  <2>2. Good(u)
    BY <1>1, <2>1, IndexedIsGood
  <2>3. ASSUME find(tab, k) # None, BeforeInsert(tab, k) = tab PROVE Used(u) = Used(tab)
    <3> DEFINE i == find(tab, k)
    <3>1. reserve(tab, k) = tab
      BY <2>3 DEF reserve
    <3>2. u = [tab EXCEPT !.data[i] = v]
      BY <3>1, Zenon DEF Indexed
    <3>3. i \in Used(tab)
      BY <1>1, <2>3, FindsOnlyKeys
    <3> HIDE DEF i, u
    <3>4. LET w == [tab EXCEPT !.data[i] = v] IN Used(w) = Used(tab)
      BY <1>1, <3>3, Writes
    <3>5. QED BY <3>2, <3>4, Zenon
  <2> HIDE DEF u
  <2>4. QED BY <1>3, <2>1, <2>2, <2>3, ReplaceKeeps
<1>4. QED BY <1>2, <1>3 DEF Index

LEMMA EraseKeeps ==
  ASSUME IInv, NEW k \in Keys, SimNode_TableErase(k)
  PROVE  IInv'
<1>1. noHash \in BOOLEAN /\ Good(tab) /\ Sound(tab)
  BY DEF IInv, Good
<1>2. CASE Panic
  BY <1>2, SameKeeps DEF Panic
<1>3. CASE Done("false", 0) /\ UNCHANGED <<tab, block>>
  BY <1>3, SameKeeps DEF Done
<1>4. CASE lock = 0 /\ find(tab, k) # None /\ Done("true", 0) /\ Replace(eraseFound(tab, k))
  <2> DEFINE u == eraseFound(tab, k)
  <2>1. Good(u)
    BY <1>1, <1>4, Erases DEF Good
  <2>2. noHash' = noHash /\ cursor' = cursor /\ lock' = lock /\ Replace(u) /\ lock = 0
    BY <1>4 DEF Done
  <2> HIDE DEF u
  <2>3. QED BY <2>1, <2>2, ReplaceKeeps
<1>5. QED BY <1>2, <1>3, <1>4 DEF SimNode_TableErase

LEMMA ClearKeeps ==
  ASSUME IInv, table_clear
  PROVE  IInv'
<1>1. noHash \in BOOLEAN /\ Good(tab) /\ Sound(tab)
  BY DEF IInv, Good
<1>2. CASE lock # 0
  BY <1>2, SameKeeps DEF table_clear, Panic
<1>3. CASE lock = 0
  <2> DEFINE u == Cleared(tab)
  <2>1. Good(u)
    BY <1>1, ClearedIsBare, BareIsGood
  <2>2. Done("void", 0) /\ Replace(u)
    BY <1>3 DEF table_clear, Cleared
  <2>3. noHash' = noHash /\ cursor' = cursor /\ lock' = lock
    BY <2>2 DEF Done
  <2> HIDE DEF u
  <2>4. QED BY <1>3, <2>1, <2>2, <2>3, ReplaceKeeps
<1>4. QED BY <1>2, <1>3

LEMMA ReserveMore ==
  ASSUME noHash \in BOOLEAN, NEW t, Sound(t), NEW n \in Nat, n > t.capacity,
         {c \in Capacities[noHash] : c >= n} # {}
  PROVE  LET u == reserveInternal(t, Min({c \in Capacities[noHash] : c >= n}))
         IN  /\ Sound(u)
             /\ HashesServe /\ Distinct(t) => Placed(u) /\ SameEntries(t, u)
<1> DEFINE large == {c \in Capacities[noHash] : c >= n}
           c == Min(large)
<1>1. large \in SUBSET Nat
  BY CapacityTypes
<1>2. c \in large
  BY <1>1, MinExists
<1>3. c \in Capacities[noHash] /\ c \in Nat /\ c >= n
  BY <1>1, <1>2
<1> HIDE DEF c
<1>4. t.capacity \in Nat /\ t.size \in Nat /\ t.size <= t.capacity
  BY SoundTypes
<1>5. t.capacity = 0 \/ ~(~noHash /\ c <= minCapacity[noHash])
  <2>1. SUFFICES ASSUME t.capacity # 0 PROVE ~(c <= minCapacity[noHash])
    OBVIOUS
  <2>2. t.capacity \in Capacities[noHash]
    BY <2>1 DEF Sound, Formed
  <2>3. t.capacity >= minCapacity[noHash] /\ minCapacity[noHash] \in Nat
    BY <2>2, CapacityTypes
  <2>4. QED BY <1>3, <1>4, <2>3
<1>6. t.size < c
  BY <1>3, <1>4
<1>7. LET u == reserveInternal(t, c)
      IN  Sound(u) /\ (HashesServe /\ Distinct(t) => Placed(u) /\ SameEntries(t, u))
  BY <1>3, <1>5, <1>6, Reallocates
<1>8. QED BY <1>7 DEF c

LEMMA ReserveKeeps ==
  ASSUME IInv, NEW n \in Sizes, table_reserve(n)
  PROVE  IInv'
<1>1. noHash \in BOOLEAN /\ Good(tab) /\ Sound(tab) /\ n \in Nat
  BY TableAssumption DEF IInv, Good
<1>2. CASE Panic
  BY <1>2, SameKeeps DEF Panic
<1>3. CASE Done("void", 0) /\ UNCHANGED <<tab, block>>
  BY <1>3, SameKeeps DEF Done
<1> DEFINE large == {c \in Capacities[noHash] : c >= n}
           u == reserveInternal(tab, Min(large))
<1>4. CASE lock = 0 /\ n > tab.capacity /\ large # {} /\ Done("void", 0) /\ Replace(u)
  <2>1. Good(u)
    BY <1>1, <1>4, ReserveMore DEF Good, Placed
  <2>2. noHash' = noHash /\ cursor' = cursor /\ lock' = lock
    BY <1>4 DEF Done
  <2> HIDE DEF u
  <2>3. QED BY <1>4, <2>1, <2>2, ReplaceKeeps
<1>5. QED BY <1>2, <1>3, <1>4 DEF table_reserve

LEMMA FreeKeeps ==
  ASSUME IInv, builtin_table_free
  PROVE  IInv'
<1>1. noHash \in BOOLEAN /\ Good(tab) /\ block = BlockBytes(tab.capacity) /\ Borrowing
  BY DEF IInv
<1>2. CASE tab.capacity # 0 /\ lock # 0
  BY <1>2, SameKeeps DEF builtin_table_free, Panic
<1>3. CASE ~(tab.capacity # 0 /\ lock # 0)
  <2> DEFINE u == IF tab.capacity = 0 THEN tab ELSE NoTable
  <2>1. Done("void", 0) /\ tab' = u /\ block' = 0
    BY <1>3 DEF builtin_table_free
  <2>2. Good(u) /\ u.capacity = 0
    BY <1>1, NoTableIsBare, BareIsGood
  <2>3. lock = 0 \/ Used(u) = Used(tab)
    BY <1>3
  <2> HIDE DEF u
  <2>4. BlockBytes(0) = 0
    <3> DEFINE w == IF noHash THEN Width.control
                    ELSE IF 0 <= minCapacity[noHash] THEN Width.packed ELSE Width.large
    <3>1. w \in Nat /\ KeyValueBytes \in Nat
      BY DEF Width, KeyValueBytes
    <3>2. BlockBytes(0) = 0 * (KeyValueBytes + w)
      BY DEF BlockBytes
    <3> HIDE DEF w
    <3>3. QED BY <3>1, <3>2
  <2>5. Replace(u)
    <3>1. CASE tab.capacity = 0
      BY <1>1, <2>1, <2>2, <2>4, <3>1 DEF Replace
    <3>2. CASE tab.capacity # 0
      BY <2>1, <2>2, <2>4, <3>2 DEF Replace
    <3>3. QED BY <3>1, <3>2
  <2>6. QED BY <2>1, <2>2, <2>3, <2>5, ReplaceKeeps DEF Done
<1>4. QED BY <1>2, <1>3

-----------------------------------------------------------------------------
(* Borrowers.                                                              *)

LEMMA NextValid ==
  ASSUME IInv, NEW index \in Int
  PROVE  \/ nextValid(index) = tab.capacity /\ \A j \in Used(tab) : j < index
         \/ /\ nextValid(index) \in Used(tab) /\ nextValid(index) # tab.capacity
            /\ nextValid(index) >= index
            /\ \A j \in Used(tab) : j >= index => nextValid(index) <= j
<1> DEFINE c == tab.capacity
           U == Used(tab)
           A == {i \in U : i >= index} \cup {c}
           n == Min(A)
<1>1. Live(tab) = U /\ c \in Nat
  BY LiveIsUsed, SoundTypes DEF IInv, Good
<1>2. nextValid(index) = n
  BY <1>1 DEF nextValid
<1>3. U \subseteq 0..(c - 1)
  BY UsedAreSlots
<1> HIDE DEF U, c
<1>4. A \in SUBSET Nat /\ A # {}
  <2>1. \A i \in U : i \in Nat
    BY <1>3
  <2>2. QED BY <1>1, <2>1
<1>5. n \in A /\ \A y \in A : n <= y
  BY <1>4, MinExists
<1> HIDE DEF n
<1>6. CASE n = c
  <2>1. ASSUME NEW j \in U PROVE j < index
    <3>1. j < c /\ j \in Nat
      BY <1>1, <1>3
    <3>2. j \notin A
      BY <1>1, <1>5, <1>6, <3>1
    <3>3. QED BY <3>1, <3>2
  <2>2. QED BY <1>2, <1>6, <2>1 DEF U, c
<1>7. CASE n # c
  <2>1. n \in U /\ n >= index /\ \A j \in U : j >= index => n <= j
    BY <1>5, <1>7
  <2>2. QED BY <1>2, <1>7, <2>1 DEF U, c
<1>8. QED BY <1>6, <1>7

\* One cursor changes, and the table does not.
CursorStep(b, mode, at) ==
  /\ cursor' = [cursor EXCEPT ![b] = [mode |-> mode, at |-> at]]
  /\ UNCHANGED <<noHash, tab, block>>

LEMMA CursorKeeps ==
  ASSUME IInv, NEW b \in Borrowers, NEW mode, NEW at, CursorStep(b, mode, at),
         \/ mode = "idle" /\ at = None
         \/ mode = "ended" /\ at = None
         \/ mode \in {"loop", "get"} /\ at \in Used(tab),
         \/ cursor[b].mode = "idle" /\ mode # "idle" /\ lock' = lock + 1
         \/ cursor[b].mode # "idle" /\ mode # "idle" /\ lock' = lock
         \/ cursor[b].mode # "idle" /\ mode = "idle" /\ lock' = lock - 1
  PROVE  IInv'
<1>1. Borrowing
  BY DEF IInv
<1>2. noHash' \in BOOLEAN /\ Good(tab)' /\ block' = BlockBytes(tab.capacity)' /\ Used(tab)' = Used(tab)
  BY SameTableKeeps DEF CursorStep
<1> DEFINE e == [mode |-> mode, at |-> at]
<1>3. e.mode = mode /\ e.at = at
  OBVIOUS
<1>4. at \in Int
  <2>1. tab.capacity \in Nat
    BY SoundTypes DEF IInv, Good
  <2>2. QED BY <2>1, UsedAreSlots DEF None
<1>5. e \in Cursors
  BY <1>4 DEF Cursors
<1>6. mode = "idle" => e = Idle
  BY DEF Idle
<1>7. cursor' = [cursor EXCEPT ![b] = e]
  BY DEF CursorStep
<1> HIDE DEF e
<1>8. cursor \in [Borrowers -> Cursors]
  BY <1>1 DEF Borrowing
<1>9. cursor' \in [Borrowers -> Cursors] /\ cursor'[b] = e
      /\ \A a \in Borrowers \ {b} : cursor'[a] = cursor[a]
  BY <1>5, <1>7, <1>8
<1>10. Holding' = {a \in Borrowers : cursor'[a].mode # "idle"}
  BY DEF Holding
<1>11. IsFiniteSet(Holding) /\ lock = Cardinality(Holding)
  BY <1>1 DEF Borrowing
<1>12. IsFiniteSet(Holding') /\ lock' = Cardinality(Holding')
  <2>1. CASE cursor[b].mode = "idle" /\ mode # "idle" /\ lock' = lock + 1
    <3>1. Holding' = Holding \cup {b} /\ b \notin Holding
      BY <1>3, <1>9, <1>10, <2>1 DEF Holding
    <3>2. IsFiniteSet(Holding \cup {b}) /\ Cardinality(Holding \cup {b}) = Cardinality(Holding) + 1
      BY <1>11, <3>1, FS_AddElement
    <3>3. QED BY <1>11, <2>1, <3>1, <3>2
  <2>2. CASE cursor[b].mode # "idle" /\ mode # "idle" /\ lock' = lock
    <3>1. Holding' = Holding
      BY <1>3, <1>9, <1>10, <2>2 DEF Holding
    <3>2. QED BY <1>11, <2>2, <3>1
  <2>3. CASE cursor[b].mode # "idle" /\ mode = "idle" /\ lock' = lock - 1
    <3>1. Holding' = Holding \ {b} /\ b \in Holding
      BY <1>3, <1>9, <1>10, <2>3 DEF Holding
    <3>2. IsFiniteSet(Holding \ {b}) /\ Cardinality(Holding \ {b}) = Cardinality(Holding) - 1
      BY <1>11, <3>1, FS_RemoveElement
    <3>3. QED BY <1>11, <2>3, <3>1, <3>2
  <2>4. QED BY <2>1, <2>2, <2>3
<1>13. ASSUME NEW a \in Borrowers
       PROVE  /\ cursor'[a].mode = "idle" => cursor'[a] = Idle
              /\ cursor'[a].mode = "ended" => cursor'[a].at = None
              /\ cursor'[a].mode \in {"loop", "get"} => cursor'[a].at \in Used(tab)
  <2>1. CASE a = b
    BY <1>3, <1>6, <1>9, <2>1
  <2>2. CASE a # b
    BY <1>1, <1>9, <2>2 DEF Borrowing
  <2>3. QED BY <2>1, <2>2
<1>14. Borrowing'
  <2> DEFINE n == Cardinality(Holding)
  <2>1. lock' = n'
    BY <1>12
  <2> HIDE DEF n
  <2>2. QED BY <1>2, <1>9, <1>12, <1>13 DEF Borrowing
<1>15. QED BY <1>2, <1>14 DEF IInv

LEMMA IdleOrHolding ==
  ASSUME IInv, NEW b \in Borrowers
  PROVE  (cursor[b] = Idle <=> cursor[b].mode = "idle")
  BY DEF IInv, Borrowing, Idle

LEMMA FirstKeeps ==
  ASSUME IInv, NEW b \in Borrowers, TableIterator_first(b)
  PROVE  IInv'
<1>1. cursor[b].mode = "idle" /\ lock' = lock + 1
  BY IdleOrHolding DEF TableIterator_first
<1>2. CASE tab.size # 0
  <2> DEFINE at == nextValid(0)
  <2>1. CursorStep(b, "loop", at)
    BY <1>2 DEF TableIterator_first, CursorStep, Borrow
  <2>2. Used(tab) # {}
    <3>1. tab.size = Cardinality(Used(tab))
      BY DEF IInv, Good, Sound, Counts
    <3>2. QED BY <1>2, <3>1, FS_EmptySet
  <2>3. \A j \in Used(tab) : ~(j < 0)
    <3>1. tab.capacity \in Nat
      BY SoundTypes DEF IInv, Good
    <3>2. QED BY <3>1, UsedAreSlots
  <2>4. at \in Used(tab)
    BY <2>2, <2>3, NextValid
  <2> HIDE DEF at
  <2>5. QED BY <1>1, <2>1, <2>4, CursorKeeps
<1>3. CASE tab.size = 0
  <2>1. CursorStep(b, "ended", None)
    BY <1>3 DEF TableIterator_first, CursorStep, Borrow
  <2>2. QED BY <1>1, <2>1, CursorKeeps
<1>4. QED BY <1>2, <1>3

LEMMA NextKeeps ==
  ASSUME IInv, NEW b \in Borrowers, TableIterator_next(b)
  PROVE  IInv'
<1> DEFINE at == nextValid(cursor[b].at + 1)
<1>1. cursor[b].mode = "loop" /\ lock' = lock
  BY DEF TableIterator_next
<1>2. cursor[b].at + 1 \in Int
  BY DEF IInv, Borrowing, Cursors
<1>3. \/ at = tab.capacity
      \/ at \in Used(tab) /\ at # tab.capacity
  BY <1>2, NextValid
<1>4. CASE at # tab.capacity
  <2>1. CursorStep(b, "loop", at)
    BY <1>4 DEF TableIterator_next, CursorStep, Borrow
  <2> HIDE DEF at
  <2>2. QED BY <1>1, <1>3, <1>4, <2>1, CursorKeeps
<1>5. CASE at = tab.capacity
  <2>1. CursorStep(b, "ended", None)
    BY <1>5 DEF TableIterator_next, CursorStep, Borrow
  <2>2. QED BY <1>1, <2>1, CursorKeeps
<1>6. QED BY <1>4, <1>5

LEMMA GetKeeps ==
  ASSUME IInv, NEW b \in Borrowers, NEW k \in Keys, get(b, k)
  PROVE  IInv'
<1> DEFINE i == find(tab, k)
<1>1. CASE i = None
  BY <1>1, SameKeeps DEF get, Done
<1>2. CASE i # None
  <2>1. CursorStep(b, "get", i) /\ lock' = lock + 1 /\ cursor[b] = Idle
    BY <1>2 DEF get, CursorStep, Borrow
  <2>2. i \in Used(tab)
    BY <1>2, FindsOnlyKeys DEF IInv, Good
  <2>3. cursor[b].mode = "idle"
    BY <2>1, IdleOrHolding
  <2> HIDE DEF i
  <2>4. QED BY <2>1, <2>2, <2>3, CursorKeeps
<1>3. QED BY <1>1, <1>2

LEMMA WriteKeeps ==
  ASSUME IInv, NEW b \in Borrowers, NEW v \in Values, WriteThrough(b, v)
  PROVE  IInv'
<1> DEFINE i == cursor[b].at
           u == [tab EXCEPT !.data[i] = v]
<1>1. tab' = u /\ cursor[b].mode \in {"loop", "get"} /\ Done("void", 0) /\ block' = block
  BY DEF WriteThrough
<1>2. noHash \in BOOLEAN /\ Good(tab) /\ i \in Used(tab)
  BY <1>1 DEF IInv, Borrowing
<1> HIDE DEF i
<1>3. Good(u) /\ u.capacity = tab.capacity /\ Used(u) = Used(tab)
  BY <1>2, Writes DEF Good
<1> HIDE DEF u
<1>4. Replace(u)
  BY <1>1, <1>3 DEF Replace
<1>5. noHash' = noHash /\ cursor' = cursor /\ lock' = lock
  BY <1>1 DEF Done
<1>6. QED BY <1>3, <1>4, <1>5, ReplaceKeeps

LEMMA ReleaseKeeps ==
  ASSUME IInv, NEW b \in Borrowers, Release(b)
  PROVE  IInv'
<1>1. cursor[b].mode # "idle" /\ lock' = lock - 1
  BY IdleOrHolding DEF Release
<1>2. CursorStep(b, "idle", None)
  BY DEF Release, CursorStep, Borrow
<1>3. QED BY <1>1, <1>2, CursorKeeps

LEMMA NextIInv == IInv /\ [Next]_vars => IInv'
<1> SUFFICES ASSUME IInv, [Next]_vars PROVE IInv'
  OBVIOUS
<1>1. ASSUME NEW k \in Keys, NEW v \in Stores[k], Index(k, v) PROVE IInv'
  <2>1. v \in Values
    BY TableAssumption
  <2>2. QED BY <1>1, <2>1, IndexKeeps
<1>2. ASSUME NEW k \in Keys, SimNode_TableFind(k) PROVE IInv'
  <2>1. UNCHANGED <<noHash, tab, lock, block, cursor>>
    BY <1>2 DEF SimNode_TableFind, Done
  <2>2. QED BY <2>1, SameKeeps
<1>3. ASSUME NEW k \in Keys, SimNode_TableErase(k) PROVE IInv'
  BY <1>3, EraseKeeps
<1>4. CASE table_clear
  BY <1>4, ClearKeeps
<1>5. ASSUME NEW n \in Sizes, table_reserve(n) PROVE IInv'
  BY <1>5, ReserveKeeps
<1>6. CASE builtin_table_free
  BY <1>6, FreeKeeps
<1>7. ASSUME NEW b \in Borrowers, TableIterator_first(b) PROVE IInv'
  BY <1>7, FirstKeeps
<1>8. ASSUME NEW b \in Borrowers, TableIterator_next(b) PROVE IInv'
  BY <1>8, NextKeeps
<1>9. ASSUME NEW b \in Borrowers, Release(b) PROVE IInv'
  BY <1>9, ReleaseKeeps
<1>10. ASSUME NEW b \in Borrowers, NEW k \in Keys, get(b, k) PROVE IInv'
  BY <1>10, GetKeeps
<1>11. ASSUME NEW b \in Borrowers, NEW v \in Values, WriteThrough(b, v) PROVE IInv'
  BY <1>11, WriteKeeps
<1>12. CASE UNCHANGED vars
  BY <1>12, SameKeeps DEF vars
<1>13. QED BY <1>1, <1>2, <1>3, <1>4, <1>5, <1>6, <1>7, <1>8, <1>9, <1>10, <1>11, <1>12 DEF Next

-----------------------------------------------------------------------------
(* The properties.                                                         *)

LEMMA Invariant == Spec => []IInv
  BY InitIInv, NextIInv, PTL DEF Spec

LEMMA GoodProbes == IInv => ProbeEnds
<1> SUFFICES ASSUME IInv PROVE ProbeEnds
  OBVIOUS
<1>1. noHash \in BOOLEAN /\ Sound(tab) /\ Counts(tab)
  BY DEF IInv, Good, Sound
<1>2. Live(tab) = Used(tab) /\ tab \in TablesOf(tab.capacity) /\ tab.capacity \in Nat
  BY <1>1, LiveIsUsed, SoundTypes
<1>3. ASSUME ~Packed(tab), tab.capacity # 0 PROVE Empty(tab) # {}
  <2>1. Cardinality(Used(tab)) + Cardinality(Killed(tab)) < tab.capacity
    BY <1>1, <1>3 DEF Counts
  <2>2. QED BY <1>2, <2>1, RoomMeansEmpty
<1>4. QED BY <1>1, <1>2, <1>3 DEF ProbeEnds, Counts

\* TableHash probes without a bound: while (true) over the slots of
\* find, reserve and insertNew ends at an empty one, and there is always one.
THEOREM EveryProbeEnds == Spec => []ProbeEnds
  BY Invariant, GoodProbes, PTL

LEMMA GoodBlock == IInv => FreedAsAllocated
<1> SUFFICES ASSUME IInv PROVE FreedAsAllocated
  OBVIOUS
<1>1. noHash \in BOOLEAN /\ Sound(tab) /\ block = BlockBytes(tab.capacity)
  BY DEF IInv, Good
<1> DEFINE w == IF noHash THEN Width.control
                ELSE IF tab.capacity <= minCapacity[noHash] THEN Width.packed ELSE Width.large
           x == tableHashSlotBytes(tab)
           c == tab.capacity
<1>2. block = c * (KeyValueBytes + w)
  BY <1>1 DEF BlockBytes
<1>3. w \in Nat /\ x \in Nat /\ KeyValueBytes \in Nat
  BY DEF Width, KeyValueBytes, tableHashSlotBytes
<1>4. CASE c = 0
  <2>1. block = 0 * (KeyValueBytes + w) /\ c * (KeyValueBytes + x) = 0 * (KeyValueBytes + x)
    BY <1>2, <1>4
  <2> HIDE DEF w, x
  <2>2. 0 * (KeyValueBytes + w) = 0 /\ 0 * (KeyValueBytes + x) = 0
    BY <1>3
  <2>3. QED BY <2>1, <2>2 DEF FreedAsAllocated, x, c
<1>5. CASE c # 0
  <2>1. tab.tableNoHash = noHash
    BY <1>1, <1>5 DEF Sound, Formed
  <2>2. x = w
    BY <1>1, <2>1 DEF tableHashSlotBytes, PackedByFlag
  <2> HIDE DEF w, x
  <2>3. QED BY <1>2, <2>2 DEF FreedAsAllocated, x, c
<1>6. QED BY <1>4, <1>5

\* builtin_table_free computes the size of the block from the flag and the
\* capacity: it is the size reserveInternal asked the heap for.
THEOREM BlockIsFreedWhole == Spec => []FreedAsAllocated
  BY Invariant, GoodBlock, PTL

LEMMA GoodFinds == IInv /\ HashesServe => EveryKeyFound
<1> SUFFICES ASSUME IInv, HashesServe, NEW i \in Live(tab) PROVE find(tab, KeyAt(i)) = i
  BY DEF EveryKeyFound
<1>1. noHash \in BOOLEAN /\ Sound(tab) /\ Placed(tab)
  BY DEF IInv, Good
<1>2. i \in Used(tab)
  BY <1>1, LiveIsUsed
<1>3. QED BY <1>1, <1>2, FindsTheSlot DEF KeyAt

LEMMA HashesStillServe == HashesServe /\ [Next]_vars => HashesServe'
<1> SUFFICES ASSUME HashesServe, [Next]_vars PROVE HashesServe'
  OBVIOUS
<1>1. noHash' = noHash
  BY DEF Next, vars, Index, IndexUnlocked, SimNode_TableFind, SimNode_TableErase, table_clear,
     table_reserve, builtin_table_free, TableIterator_first, TableIterator_next, Release, get,
     WriteThrough, Borrow, Done, Panic
<1>2. QED BY <1>1 DEF HashesServe

\* TableHash::find looks a string up by its full hash, and reserveInternal files
\* it by the hash its old slot kept: a key that was inserted is found again, in
\* the slot that holds it.  Keys other than strings need nothing of their hashes;
\* strings need HashesServe.
THEOREM KeysAreFound == Spec /\ HashesServe => []EveryKeyFound
<1>1. Spec /\ HashesServe => []HashesServe
  BY HashesStillServe, PTL DEF Spec
<1>2. QED BY <1>1, Invariant, GoodFinds, PTL

-----------------------------------------------------------------------------
(* The table as a map.                                                     *)

KeysOf(t) == {t.keys[i] : i \in Used(t)}

MapOf(t) == [k \in KeysOf(t) |-> t.data[CHOOSE i \in Used(t) : t.keys[i] = k]]

Handle(t, c) ==
  [mode |-> c.mode,
   key  |-> IF c.at = None THEN NoKey ELSE t.keys[c.at],
   rest |-> IF c.mode = "loop" THEN {t.keys[i] : i \in {j \in Used(t) : j > c.at}} ELSE {}]

Handles(t, f) == [b \in Borrowers |-> Handle(t, f[b])]

\* The invariant, and the refinement mapping read off the used slots.
Linked ==
  /\ IInv /\ Placed(tab)
  /\ Contents = MapOf(tab) /\ Borrowed = Handles(tab, cursor)

LEMMA InvLinks == IInv /\ HashesServe => Linked
<1> SUFFICES ASSUME IInv, HashesServe PROVE Linked
  OBVIOUS
<1>1. noHash \in BOOLEAN /\ Sound(tab) /\ Placed(tab)
  BY DEF IInv, Good
<1>2. Live(tab) = Used(tab)
  BY <1>1, LiveIsUsed
<1>3. Contents = MapOf(tab)
  BY <1>2 DEF Contents, MapOf, KeysOf, KeyAt
<1>4. Borrowed = Handles(tab, cursor)
  BY <1>2 DEF Borrowed, Handles, Handle, KeyAt
<1>5. QED BY <1>1, <1>3, <1>4 DEF Linked

\* The map of a table has the pairs its used slots hold, and only those.
LEMMA MapHolds ==
  ASSUME NEW t, Distinct(t)
  PROVE  /\ DOMAIN MapOf(t) = KeysOf(t)
         /\ \A i \in Used(t) : t.keys[i] \in KeysOf(t) /\ MapOf(t)[t.keys[i]] = t.data[i]
         /\ \A k, v : Holds(t, k, v) <=> k \in KeysOf(t) /\ MapOf(t)[k] = v
<1>1. DOMAIN MapOf(t) = KeysOf(t)
  BY DEF MapOf
<1>2. ASSUME NEW i \in Used(t) PROVE t.keys[i] \in KeysOf(t) /\ MapOf(t)[t.keys[i]] = t.data[i]
  <2> DEFINE k == t.keys[i]
             j == CHOOSE j \in Used(t) : t.keys[j] = k
  <2>1. k \in KeysOf(t)
    BY DEF KeysOf
  <2>2. MapOf(t)[k] = t.data[j]
    BY <2>1 DEF MapOf
  <2>3. j \in Used(t) /\ t.keys[j] = k
    OBVIOUS
  <2>4. j = i
    BY <2>3 DEF Distinct
  <2>5. QED BY <2>1, <2>2, <2>4
<1>3. ASSUME NEW k, NEW v, Holds(t, k, v) PROVE k \in KeysOf(t) /\ MapOf(t)[k] = v
  BY <1>2, <1>3 DEF Holds
<1>4. ASSUME NEW k \in KeysOf(t) PROVE Holds(t, k, MapOf(t)[k])
  <2>1. PICK i \in Used(t) : t.keys[i] = k
    BY DEF KeysOf
  <2>2. QED BY <1>2, <2>1 DEF Holds
<1>5. QED BY <1>1, <1>2, <1>3, <1>4

\* A function with the pairs of a table is its map.
LEMMA MapIs ==
  ASSUME NEW t, Distinct(t), NEW D, NEW f, f = [x \in D |-> f[x]],
         \A k, v : Holds(t, k, v) <=> k \in D /\ f[k] = v
  PROVE  MapOf(t) = f
<1> DEFINE m == MapOf(t)
<1>1. DOMAIN m = KeysOf(t) /\ \A k, v : Holds(t, k, v) <=> k \in KeysOf(t) /\ m[k] = v
  BY MapHolds
<1>2. m = [x \in KeysOf(t) |-> m[x]]
  BY DEF MapOf
<1> HIDE DEF m
<1>3. \A k : k \in D <=> k \in KeysOf(t)
  BY <1>1
<1>4. D = KeysOf(t)
  BY <1>3
<1>5. \A k \in D : f[k] = m[k]
  BY <1>1, <1>4
<1>6. QED BY <1>2, <1>4, <1>5 DEF m

LEMMA SameMap ==
  ASSUME NEW t, NEW u, Distinct(t), Distinct(u), \A k, v : Holds(u, k, v) <=> Holds(t, k, v)
  PROVE  MapOf(u) = MapOf(t)
<1> DEFINE m == MapOf(t)
           D == KeysOf(t)
<1>1. m = [x \in D |-> m[x]]
  BY DEF MapOf
<1>2. \A k, v : Holds(u, k, v) <=> k \in D /\ m[k] = v
  BY MapHolds
<1> HIDE DEF m, D
<1>3. MapOf(u) = m
  BY <1>1, <1>2, MapIs
<1>4. QED BY <1>3 DEF m

LEMMA MapIndexed ==
  ASSUME noHash \in BOOLEAN, HashesServe, NEW t, Sound(t), Placed(t), Fits(t),
         NEW k \in Keys, NEW v \in Values
  PROVE  LET m == MapOf(t)
             r == reserve(t, k)
         IN  /\ Distinct(Indexed(t, k, v))
             /\ MapOf(Indexed(t, k, v)) =
                  [x \in KeysOf(t) \cup {k} |-> IF x = k THEN v ELSE m[x]]
             /\ k \in KeysOf(t) => r.data[find(r, k)] = m[k]
             /\ k \notin KeysOf(t) => r.data[find(r, k)] = 0
<1> DEFINE m == MapOf(t)
           r == reserve(t, k)
           i == find(r, k)
           u == [r EXCEPT !.data[i] = v]
           D == KeysOf(t) \cup {k}
           f == [x \in D |-> IF x = k THEN v ELSE m[x]]
<1>1. Sound(r) /\ Placed(r) /\ KeyMade(t, r, k)
  BY Reserves
<1> HIDE DEF r
<1>2. i \in Used(r) /\ r.keys[i] = k
      /\ \A x, w : Holds(r, x, w) <=> Holds(t, x, w) \/ (x = k /\ w = 0 /\ ~ \E e : Holds(t, k, e))
  BY <1>1 DEF KeyMade
<1>3. \A x, w : Holds(t, x, w) <=> x \in KeysOf(t) /\ m[x] = w
  BY MapHolds DEF Placed
<1> HIDE DEF i, m
<1>4. /\ Used(u) = Used(r) /\ \A j \in Used(r) : u.keys[j] = r.keys[j]
      /\ u.data[i] = v /\ \A j \in Used(r) \ {i} : u.data[j] = r.data[j]
      /\ Placed(u)
  BY <1>1, <1>2, Writes
<1> HIDE DEF u
<1>5. Distinct(r) /\ Distinct(u)
  BY <1>1, <1>4 DEF Placed
<1>6. \A x, w : Holds(u, x, w) <=> (x = k /\ w = v) \/ (x # k /\ Holds(r, x, w))
  <2>1. ASSUME NEW x, NEW w, Holds(u, x, w) PROVE (x = k /\ w = v) \/ (x # k /\ Holds(r, x, w))
    <3>1. PICK j \in Used(u) : u.keys[j] = x /\ u.data[j] = w
      BY <2>1 DEF Holds
    <3>2. CASE j = i
      BY <1>2, <1>4, <3>1, <3>2
    <3>3. CASE j # i
      <4>1. j \in Used(r) /\ r.keys[j] = x /\ r.data[j] = w
        BY <1>4, <3>1, <3>3
      <4>2. x # k
        BY <1>2, <1>5, <3>3, <4>1 DEF Distinct
      <4>3. QED BY <4>1, <4>2 DEF Holds
    <3>4. QED BY <3>2, <3>3
  <2>2. Holds(u, k, v)
    BY <1>2, <1>4 DEF Holds
  <2>3. ASSUME NEW x, NEW w, x # k, Holds(r, x, w) PROVE Holds(u, x, w)
    <3>1. PICK j \in Used(r) : r.keys[j] = x /\ r.data[j] = w
      BY <2>3 DEF Holds
    <3>2. j # i
      BY <1>2, <2>3, <3>1
    <3>3. QED BY <1>4, <3>1, <3>2 DEF Holds
  <2>4. QED BY <2>1, <2>2, <2>3
<1>7. \A x, w : Holds(u, x, w) <=> x \in D /\ f[x] = w
  BY <1>2, <1>3, <1>6
<1>8. f = [x \in D |-> f[x]]
  OBVIOUS
<1>9. MapOf(u) = f
  <2> HIDE DEF f, D
  <2>1. QED BY <1>5, <1>7, <1>8, MapIs
<1>10. /\ k \in KeysOf(t) => r.data[i] = m[k]
       /\ k \notin KeysOf(t) => r.data[i] = 0
  <2>1. Holds(r, k, r.data[i])
    BY <1>2 DEF Holds
  <2>2. QED BY <1>2, <1>3, <2>1
<1>11. Indexed(t, k, v) = u
  BY DEF Indexed, u, r, i
<1>12. QED BY <1>5, <1>9, <1>10, <1>11 DEF r, i, m

\* What find, and the read of the slot it found, return.
LEMMA MapFinds ==
  ASSUME noHash \in BOOLEAN, HashesServe, NEW t, Sound(t), Placed(t), NEW k \in Keys
  PROVE  /\ k \in KeysOf(t) <=> find(t, k) # None
         /\ find(t, k) # None =>
              /\ find(t, k) \in Used(t) /\ t.keys[find(t, k)] = k
              /\ MapOf(t)[k] = t.data[find(t, k)]
<1>1. ASSUME find(t, k) # None
      PROVE  /\ find(t, k) \in Used(t) /\ t.keys[find(t, k)] = k
             /\ k \in KeysOf(t) /\ MapOf(t)[k] = t.data[find(t, k)]
  <2>1. find(t, k) \in Used(t) /\ t.keys[find(t, k)] = k
    BY <1>1, FindsOnlyKeys
  <2>2. QED BY <2>1, MapHolds DEF Placed
<1>2. ASSUME k \in KeysOf(t) PROVE find(t, k) # None
  <2>1. PICK i \in Used(t) : t.keys[i] = k
    BY <1>2 DEF KeysOf
  <2>2. find(t, k) = i
    BY <2>1, FindsTheSlot
  <2>3. QED BY <2>2, UsedAreSlots
<1>3. QED BY <1>1, <1>2

LEMMA MapErased ==
  ASSUME noHash \in BOOLEAN, HashesServe, NEW t, Sound(t), Placed(t), NEW k \in Keys, find(t, k) # None
  PROVE  MapOf(eraseFound(t, k)) = [x \in KeysOf(t) \ {k} |-> MapOf(t)[x]]
<1> DEFINE m == MapOf(t)
           u == eraseFound(t, k)
           i == find(t, k)
           D == KeysOf(t) \ {k}
           f == [x \in D |-> m[x]]
<1>1. EntryGone(t, u, i) /\ Distinct(u)
  BY Erases DEF Placed
<1>2. i \in Used(t) /\ t.keys[i] = k /\ Distinct(t)
  BY MapFinds DEF Placed
<1>3. \A x, w : Holds(t, x, w) <=> x \in KeysOf(t) /\ m[x] = w
  BY <1>2, MapHolds
<1> HIDE DEF u, i, m
<1>4. \A x, w : Holds(u, x, w) <=> x # k /\ Holds(t, x, w)
  <2>1. ASSUME NEW x, NEW w, Holds(u, x, w) PROVE x # k /\ Holds(t, x, w)
    <3>1. PICK j \in Used(t) \ {i} : t.keys[j] = x /\ t.data[j] = w
      BY <1>1, <2>1 DEF EntryGone
    <3>2. x # k
      BY <1>2, <3>1 DEF Distinct
    <3>3. QED BY <3>1, <3>2 DEF Holds
  <2>2. ASSUME NEW x, NEW w, x # k, Holds(t, x, w) PROVE Holds(u, x, w)
    <3>1. PICK j \in Used(t) : t.keys[j] = x /\ t.data[j] = w
      BY <2>2 DEF Holds
    <3>2. j # i
      BY <1>2, <2>2, <3>1
    <3>3. QED BY <1>1, <3>1, <3>2 DEF EntryGone
  <2>3. QED BY <2>1, <2>2
<1>5. \A x, w : Holds(u, x, w) <=> x \in D /\ f[x] = w
  BY <1>3, <1>4
<1>6. f = [x \in D |-> f[x]]
  OBVIOUS
<1>7. MapOf(u) = f
  <2> HIDE DEF f, D
  <2>1. QED BY <1>1, <1>5, <1>6, MapIs
<1>8. QED BY <1>7 DEF u, m

LEMMA MapBare ==
  ASSUME NEW t, Used(t) = {}
  PROVE  KeysOf(t) = {} /\ MapOf(t) = [k \in {} |-> 0]
<1>1. KeysOf(t) = {}
  BY DEF KeysOf
<1>2. QED BY <1>1 DEF MapOf

LEMMA MapWritten ==
  ASSUME noHash \in BOOLEAN, NEW t, Sound(t), Placed(t), NEW i \in Used(t), NEW v \in Values
  PROVE  MapOf([t EXCEPT !.data[i] = v]) = [MapOf(t) EXCEPT ![t.keys[i]] = v]
<1> DEFINE m == MapOf(t)
           u == [t EXCEPT !.data[i] = v]
           D == KeysOf(t)
           k == t.keys[i]
           f == [m EXCEPT ![k] = v]
<1>1. /\ Used(u) = Used(t) /\ \A j \in Used(t) : u.keys[j] = t.keys[j]
      /\ u.data[i] = v /\ \A j \in Used(t) \ {i} : u.data[j] = t.data[j]
  BY Writes
<1>2. Distinct(t)
  BY DEF Placed
<1>3. m = [x \in D |-> m[x]] /\ k \in D
  BY DEF MapOf, KeysOf
<1>4. \A x, w : Holds(t, x, w) <=> x \in D /\ m[x] = w
  BY <1>2, MapHolds
<1> HIDE DEF u, m, D
<1>5. Distinct(u)
  BY <1>1, <1>2 DEF Distinct
<1>6. f = [x \in D |-> IF x = k THEN v ELSE m[x]]
  BY <1>3
<1>7. \A x, w : Holds(u, x, w) <=> (x = k /\ w = v) \/ (x # k /\ Holds(t, x, w))
  <2>1. ASSUME NEW x, NEW w, Holds(u, x, w) PROVE (x = k /\ w = v) \/ (x # k /\ Holds(t, x, w))
    <3>1. PICK j \in Used(t) : u.keys[j] = x /\ u.data[j] = w
      BY <1>1, <2>1 DEF Holds
    <3>2. CASE j = i
      BY <1>1, <3>1, <3>2
    <3>3. CASE j # i
      <4>1. t.keys[j] = x /\ t.data[j] = w /\ x # k
        BY <1>1, <1>2, <3>1, <3>3 DEF Distinct
      <4>2. QED BY <4>1 DEF Holds
    <3>4. QED BY <3>2, <3>3
  <2>2. Holds(u, k, v)
    BY <1>1 DEF Holds
  <2>3. ASSUME NEW x, NEW w, x # k, Holds(t, x, w) PROVE Holds(u, x, w)
    <3>1. PICK j \in Used(t) : t.keys[j] = x /\ t.data[j] = w
      BY <2>3 DEF Holds
    <3>2. QED BY <1>1, <2>3, <3>1 DEF Holds
  <2>4. QED BY <2>1, <2>2, <2>3
<1> HIDE DEF k, f
<1>8. \A x, w : Holds(u, x, w) <=> x \in D /\ f[x] = w
  BY <1>3, <1>4, <1>6, <1>7
<1>9. f = [x \in D |-> f[x]]
  BY <1>6
<1>10. MapOf(u) = f
  BY <1>5, <1>8, <1>9, MapIs
<1>11. QED BY <1>10 DEF u, f, m, k

-----------------------------------------------------------------------------
(* What the mapping shows.                                                 *)

LEMMA Shown ==
  ASSUME Linked
  PROVE  /\ noHash \in BOOLEAN /\ Sound(tab) /\ Placed(tab) /\ Borrowing
         /\ Contents = MapOf(tab) /\ DOMAIN Contents = KeysOf(tab)
         /\ Borrowed = [b \in Borrowers |-> Handle(tab, cursor[b])]
         /\ lock = 0 => \A b \in Borrowers : cursor[b] = Idle
         /\ Map!Held <=> lock # 0
<1>1. noHash \in BOOLEAN /\ Sound(tab) /\ Placed(tab) /\ Borrowing
  BY DEF Linked, IInv, Good
<1>2. Contents = MapOf(tab) /\ DOMAIN Contents = KeysOf(tab)
  BY <1>1, MapHolds DEF Linked, Placed
<1>3. Borrowed = [b \in Borrowers |-> Handle(tab, cursor[b])]
  BY DEF Linked, Handles
<1>4. lock = 0 => \A b \in Borrowers : cursor[b] = Idle
  BY <1>1, Unlocked
<1>5. ASSUME NEW b \in Borrowers
      PROVE  (Borrowed[b] = Map!Idle) <=> cursor[b].mode = "idle"
  <2>1. Borrowed[b] = Handle(tab, cursor[b]) /\ Borrowed[b].mode = cursor[b].mode
    BY <1>3 DEF Handle
  <2>2. CASE cursor[b].mode # "idle"
    BY <2>1, <2>2 DEF Map!Idle
  <2>3. CASE cursor[b].mode = "idle"
    <3>1. cursor[b] = Idle
      BY <1>1, <2>3 DEF Borrowing
    <3>2. QED BY <2>1, <3>1 DEF Handle, Idle, Map!Idle
  <2>4. QED BY <2>2, <2>3
<1>6. lock = 0 <=> Holding = {}
  <2>1. IsFiniteSet(Holding) /\ lock = Cardinality(Holding)
    BY <1>1 DEF Borrowing
  <2>2. QED BY <2>1, FS_EmptySet
<1>7. Map!Held <=> lock # 0
  BY <1>5, <1>6 DEF Map!Held, Holding
<1>8. QED BY <1>1, <1>2, <1>3, <1>4, <1>7

LEMMA ShownNext ==
  ASSUME Linked'
  PROVE  /\ Contents' = MapOf(tab')
         /\ Borrowed' = [b \in Borrowers |-> Handle(tab', cursor'[b])]
<1>1. Contents' = MapOf(tab)' /\ Borrowed' = Handles(tab, cursor)'
  BY DEF Linked
<1>2. MapOf(tab)' = MapOf(tab')
  BY DEF MapOf, KeysOf, Used, Slots
<1>3. Handles(tab, cursor)' = [b \in Borrowers |-> Handle(tab', cursor'[b])]
  BY DEF Handles, Handle, Used, Slots
<1>4. QED BY <1>1, <1>2, <1>3

\* The borrowers see the same of a table whose entries are in the same slots.
LEMMA HandleKept ==
  ASSUME NEW t, NEW u, Used(u) = Used(t), \A j \in Used(t) : u.keys[j] = t.keys[j],
         NEW c, c.at = None \/ c.at \in Used(t)
  PROVE  Handle(u, c) = Handle(t, c)
<1>1. {u.keys[i] : i \in {j \in Used(u) : j > c.at}} = {t.keys[i] : i \in {j \in Used(t) : j > c.at}}
  OBVIOUS
<1>2. c.at # None => u.keys[c.at] = t.keys[c.at]
  OBVIOUS
<1>3. QED BY <1>1, <1>2, Zenon DEF Handle

\* So they do while nobody borrows, or when only values change.
LEMMA BorrowedKept ==
  ASSUME Linked, Linked', cursor' = cursor,
         \/ lock = 0
         \/ Used(tab') = Used(tab) /\ \A j \in Used(tab) : tab'.keys[j] = tab.keys[j]
  PROVE  Borrowed' = Borrowed
<1>1. /\ Borrowed = [b \in Borrowers |-> Handle(tab, cursor[b])]
      /\ Borrowed' = [b \in Borrowers |-> Handle(tab', cursor'[b])]
  BY Shown, ShownNext
<1>2. ASSUME NEW b \in Borrowers PROVE Handle(tab', cursor[b]) = Handle(tab, cursor[b])
  <2>1. CASE lock = 0
    <3>1. cursor[b] = Idle
      BY <2>1, Shown
    <3>2. QED BY <3>1 DEF Handle, Idle
  <2>2. CASE Used(tab') = Used(tab) /\ \A j \in Used(tab) : tab'.keys[j] = tab.keys[j]
    <3>1. cursor[b].at = None \/ cursor[b].at \in Used(tab)
      <4>1. Borrowing
        BY Shown
      <4>2. QED BY <4>1 DEF Borrowing, Cursors, Idle
    <3>2. QED BY <2>2, <3>1, HandleKept
  <2>3. QED BY <2>1, <2>2
<1>3. QED BY <1>1, <1>2

\* A step that leaves table and cursors alone.
LEMMA SameShown ==
  ASSUME Linked, Linked', tab' = tab, cursor' = cursor
  PROVE  Contents' = Contents /\ Borrowed' = Borrowed
<1>1. Contents' = Contents
  BY Shown, ShownNext
<1>2. QED BY <1>1, BorrowedKept

LEMMA PanicMaps ==
  ASSUME Linked, Linked', Panic, lock # 0
  PROVE  Map!Panic
<1>1. Contents' = Contents /\ Borrowed' = Borrowed
  BY SameShown DEF Panic
<1>2. ret'[1] = "panic" /\ ret'[2] = 0
  BY DEF Panic
<1>3. QED BY <1>1, <1>2, Shown DEF Map!Panic, Map!Returns

-----------------------------------------------------------------------------
(* Every operation is one of the map's.                                    *)

LEMMA IndexMaps ==
  ASSUME Linked, Linked', HashesServe, NEW k \in Keys, NEW v \in Values, Index(k, v)
  PROVE  Map!Index(k, v)
<1>1. noHash \in BOOLEAN /\ Sound(tab) /\ Placed(tab)
  BY Shown
<1>2. CASE lock # 0 /\ Panic
  BY <1>2, PanicMaps DEF Map!Index
<1>3. CASE IndexUnlocked(k, v) /\ (lock = 0 \/ (find(tab, k) # None /\ BeforeInsert(tab, k) = tab))
  <2> DEFINE r == reserve(tab, k)
             i == find(r, k)
             u == Indexed(tab, k, v)
             m == MapOf(tab)
             D == KeysOf(tab)
  <2>1. Fits(tab) /\ cursor' = cursor /\ tab' = u /\ ret' = <<"value", r.data[i]>>
    BY <1>3, Zenon DEF IndexUnlocked, Done, Indexed, Replace
  <2>2. /\ MapOf(u) = [x \in D \cup {k} |-> IF x = k THEN v ELSE m[x]]
        /\ k \in D => r.data[i] = m[k]
        /\ k \notin D => r.data[i] = 0
    <3>1. Fits(tab)
      BY <2>1
    <3> HIDE DEF r, i, u, m, D
    <3>2. LET m_1 == MapOf(tab)
              r_1 == reserve(tab, k)
          IN  /\ Distinct(Indexed(tab, k, v))
              /\ MapOf(Indexed(tab, k, v)) =
                   [x \in KeysOf(tab) \cup {k} |-> IF x = k THEN v ELSE m_1[x]]
              /\ k \in KeysOf(tab) => r_1.data[find(r_1, k)] = m_1[k]
              /\ k \notin KeysOf(tab) => r_1.data[find(r_1, k)] = 0
      BY <1>1, <3>1, MapIndexed
    <3>3. QED BY <3>2, Zenon DEF r, i, u, m, D
  <2>3. lock = 0 \/ (k \in D /\ Used(u) = Used(tab) /\ \A j \in Used(tab) : u.keys[j] = tab.keys[j])
    <3>1. SUFFICES ASSUME find(tab, k) # None, BeforeInsert(tab, k) = tab
                   PROVE  k \in D /\ Used(u) = Used(tab) /\ \A j \in Used(tab) : u.keys[j] = tab.keys[j]
      BY <1>3
    <3> DEFINE e == find(tab, k)
               w == [tab EXCEPT !.data[e] = v]
    <3>2. reserve(tab, k) = tab
      BY <3>1 DEF reserve
    <3>3. u = w
      BY <3>2, Zenon DEF Indexed
    <3>4. e \in Used(tab) /\ k \in D
      BY <1>1, <3>1, MapFinds
    <3> HIDE DEF e
    <3>5. Used(w) = Used(tab) /\ \A j \in Used(tab) : w.keys[j] = tab.keys[j]
      BY <1>1, <3>4, Writes
    <3> HIDE DEF u, w
    <3>6. QED BY <3>3, <3>4, <3>5
  <2> HIDE DEF u, r, i
  <2>4. Borrowed' = Borrowed
    BY <2>1, <2>3, BorrowedKept
  <2>5. Contents = m /\ DOMAIN Contents = D /\ Contents' = MapOf(u) /\ (Map!Held <=> lock # 0)
    BY <2>1, Shown, ShownNext
  <2> HIDE DEF D, m
  <2>6. Contents' = [x \in DOMAIN Contents \cup {k} |-> IF x = k THEN v ELSE Contents[x]]
    BY <2>2, <2>5
  <2>7. ret'[1] = "value" /\ ret'[2] = IF k \in DOMAIN Contents THEN Contents[k] ELSE 0
    BY <2>1, <2>2, <2>5
  <2>8. Map!Held => k \in DOMAIN Contents
    BY <2>3, <2>5
  <2>9. QED BY <2>4, <2>6, <2>7, <2>8 DEF Map!Index, Map!Returns
<1>4. QED BY <1>2, <1>3 DEF Index

LEMMA FindMaps ==
  ASSUME Linked, Linked', HashesServe, NEW k \in Keys, SimNode_TableFind(k)
  PROVE  Map!Find(k)
<1>1. tab' = tab /\ cursor' = cursor
  BY DEF SimNode_TableFind, Done
<1>2. Contents' = Contents /\ Borrowed' = Borrowed
  BY <1>1, SameShown
<1>3. /\ k \in DOMAIN Contents <=> find(tab, k) # None
      /\ find(tab, k) # None => Contents[k] = tab.data[find(tab, k)]
  BY Shown, MapFinds
<1>4. ret' = IF find(tab, k) = None THEN <<"null", 0>> ELSE <<"value", tab.data[find(tab, k)]>>
  BY DEF SimNode_TableFind, Done
<1>5. IF k \in DOMAIN Contents THEN ret' = <<"value", Contents[k]>> ELSE ret' = <<"null", 0>>
  BY <1>3, <1>4
<1>6. QED BY <1>2, <1>5 DEF Map!Find, Map!Returns

LEMMA EraseMaps ==
  ASSUME Linked, Linked', HashesServe, NEW k \in Keys, SimNode_TableErase(k)
  PROVE  Map!Erase(k)
<1>1. /\ noHash \in BOOLEAN /\ Sound(tab) /\ Placed(tab)
      /\ Contents = MapOf(tab) /\ DOMAIN Contents = KeysOf(tab)
      /\ Map!Held <=> lock # 0
  BY Shown
<1>2. k \in DOMAIN Contents <=> find(tab, k) # None
  BY <1>1, MapFinds
<1>3. CASE lock # 0 /\ Panic
  BY <1>3, PanicMaps DEF Map!Erase
<1>4. CASE lock = 0 /\ find(tab, k) = None /\ Done("false", 0) /\ UNCHANGED <<tab, block>>
  <2>1. ret' = <<"false", 0>> /\ cursor' = cursor /\ tab' = tab
    BY <1>4 DEF Done
  <2>2. Contents' = Contents /\ Borrowed' = Borrowed
    BY <2>1, SameShown
  <2>3. Contents = [x \in DOMAIN Contents \ {k} |-> Contents[x]]
    <3>1. Contents = [x \in DOMAIN Contents |-> Contents[x]]
      BY <1>1 DEF MapOf
    <3>2. DOMAIN Contents \ {k} = DOMAIN Contents
      BY <1>2, <1>4
    <3>3. QED BY <3>1, <3>2
  <2>4. QED BY <1>1, <1>2, <1>4, <2>1, <2>2, <2>3 DEF Map!Erase, Map!Returns
<1>5. CASE lock = 0 /\ find(tab, k) # None /\ Done("true", 0) /\ Replace(eraseFound(tab, k))
  <2>1. ret' = <<"true", 0>> /\ cursor' = cursor /\ tab' = eraseFound(tab, k)
    BY <1>5 DEF Done, Replace
  <2>2. Borrowed' = Borrowed
    BY <1>5, <2>1, BorrowedKept
  <2>3. MapOf(eraseFound(tab, k)) = [x \in KeysOf(tab) \ {k} |-> MapOf(tab)[x]]
    BY <1>1, <1>5, MapErased
  <2>4. Contents' = [x \in DOMAIN Contents \ {k} |-> Contents[x]]
    BY <1>1, <2>1, <2>3, ShownNext
  <2>5. QED BY <1>1, <1>2, <1>5, <2>1, <2>2, <2>4 DEF Map!Erase, Map!Returns
<1>6. QED BY <1>3, <1>4, <1>5 DEF SimNode_TableErase

\* The steps that leave an empty table.
LEMMA BareMaps ==
  ASSUME Linked, Linked', Done("void", 0), Used(tab') = {}, lock = 0 \/ Used(tab) = {}
  PROVE  Map!Clear
<1>1. ret' = <<"void", 0>> /\ cursor' = cursor
  BY DEF Done
<1>2. Borrowed' = Borrowed
  BY <1>1, BorrowedKept
<1>3. Contents' = [k \in {} |-> 0]
  BY ShownNext, MapBare
<1>4. Map!Held => DOMAIN Contents = {}
  <2>1. (Map!Held => lock # 0) /\ DOMAIN Contents = KeysOf(tab)
    BY Shown
  <2>2. QED BY <2>1, MapBare
<1>5. QED BY <1>1, <1>2, <1>3, <1>4 DEF Map!Clear, Map!Returns

LEMMA ClearMaps ==
  ASSUME Linked, Linked', table_clear
  PROVE  Map!Clear
<1>1. CASE lock # 0
  BY <1>1, PanicMaps DEF table_clear, Map!Clear
<1>2. CASE lock = 0
  <2>1. Done("void", 0) /\ tab' = Cleared(tab)
    BY <1>2 DEF table_clear, Cleared, Replace
  <2>2. Used(Cleared(tab)) = {}
    BY Shown, ClearedIsBare DEF Bare
  <2>3. QED BY <1>2, <2>1, <2>2, BareMaps
<1>3. QED BY <1>1, <1>2

LEMMA FreeMaps ==
  ASSUME Linked, Linked', builtin_table_free
  PROVE  Map!Clear
<1>1. CASE tab.capacity # 0 /\ lock # 0
  BY <1>1, PanicMaps DEF builtin_table_free, Map!Clear
<1>2. CASE ~(tab.capacity # 0 /\ lock # 0)
  <2>1. Done("void", 0) /\ tab' = IF tab.capacity = 0 THEN tab ELSE NoTable
    BY <1>2 DEF builtin_table_free
  <2>2. tab.capacity = 0 => Used(tab) = {}
    BY UsedAreSlots
  <2>3. Used(NoTable) = {}
    BY Shown, NoTableIsBare DEF Bare
  <2>4. QED BY <1>2, <2>1, <2>2, <2>3, BareMaps
<1>3. QED BY <1>1, <1>2

LEMMA ReserveMaps ==
  ASSUME Linked, Linked', HashesServe, NEW n \in Sizes, table_reserve(n)
  PROVE  Map!Reserve
<1>1. noHash \in BOOLEAN /\ Sound(tab) /\ Placed(tab) /\ n \in Nat
  BY Shown, TableAssumption
<1>2. CASE lock # 0 /\ Panic
  BY <1>2, PanicMaps DEF Map!Reserve
<1>3. CASE Done("void", 0) /\ UNCHANGED <<tab, block>>
  <2>1. ret' = <<"void", 0>> /\ cursor' = cursor /\ tab' = tab
    BY <1>3 DEF Done
  <2>2. QED BY <2>1, SameShown DEF Map!Reserve, Map!Returns
<1> DEFINE large == {c \in Capacities[noHash] : c >= n}
           u == reserveInternal(tab, Min(large))
<1>4. CASE lock = 0 /\ n > tab.capacity /\ large # {} /\ Done("void", 0) /\ Replace(u)
  <2>1. Placed(u) /\ SameEntries(tab, u)
    BY <1>1, <1>4, ReserveMore DEF Placed
  <2>2. ret' = <<"void", 0>> /\ cursor' = cursor /\ tab' = u
    BY <1>4 DEF Done, Replace
  <2> HIDE DEF u, large
  <2>3. Distinct(u) /\ Distinct(tab)
    BY <1>1, <2>1 DEF Placed
  <2>4. MapOf(u) = MapOf(tab)
    BY <2>1, <2>3, SameHolds, SameMap
  <2>5. Contents' = Contents
    BY <2>2, <2>4, Shown, ShownNext
  <2>6. Borrowed' = Borrowed
    BY <1>4, <2>2, BorrowedKept
  <2>7. QED BY <2>2, <2>5, <2>6 DEF Map!Reserve, Map!Returns
<1>5. QED BY <1>2, <1>3, <1>4 DEF table_reserve

\* A step of one borrower.
LEMMA CursorMaps ==
  ASSUME Linked, Linked', NEW b \in Borrowers, NEW mode, NEW at, CursorStep(b, mode, at)
  PROVE  /\ Contents' = Contents
         /\ Borrowed' = [Borrowed EXCEPT ![b] = Handle(tab, [mode |-> mode, at |-> at])]
<1> DEFINE e == [mode |-> mode, at |-> at]
           h == Handle(tab, e)
<1>1. tab' = tab /\ cursor' = [cursor EXCEPT ![b] = e]
  BY DEF CursorStep
<1>2. Contents' = Contents
  BY <1>1, Shown, ShownNext
<1>3. cursor \in [Borrowers -> Cursors]
  BY Shown DEF Borrowing
<1> HIDE DEF e
<1>4. cursor'[b] = e /\ \A a \in Borrowers \ {b} : cursor'[a] = cursor[a]
  BY <1>1, <1>3
<1>5. /\ Borrowed = [a \in Borrowers |-> Handle(tab, cursor[a])]
      /\ Borrowed' = [a \in Borrowers |-> Handle(tab, cursor'[a])]
  BY <1>1, Shown, ShownNext
<1>6. Borrowed' = [Borrowed EXCEPT ![b] = h]
  <2>1. Handle(tab, cursor'[b]) = h
    BY <1>4
  <2> HIDE DEF h
  <2>2. QED BY <1>4, <1>5, <2>1
<1>7. QED BY <1>2, <1>6 DEF h, e

\* A loop that goes on from a slot takes one of the keys that are left there.
LEMMA WalkMaps ==
  ASSUME Linked, Linked', NEW b \in Borrowers, NEW index \in Int, NEW mode, NEW at,
         CursorStep(b, mode, at), ret' = <<"void", 0>>,
         \/ mode = "ended" /\ at = None /\ \A j \in Used(tab) : j < index
         \/ /\ mode = "loop" /\ at \in Used(tab) /\ at >= index
            /\ \A j \in Used(tab) : j >= index => at <= j
  PROVE  Map!Walk(b, {tab.keys[i] : i \in {j \in Used(tab) : j >= index}})
<1> DEFINE U == Used(tab)
           ahead == {j \in U : j >= index}
           from == {tab.keys[i] : i \in ahead}
           h == Handle(tab, [mode |-> mode, at |-> at])
<1>1. Contents' = Contents /\ Borrowed' = [Borrowed EXCEPT ![b] = h]
  BY CursorMaps
<1>2. ret'[1] = "void" /\ ret'[2] = 0
  OBVIOUS
<1>3. \A j \in U : j \in Int
  <2>1. tab.capacity \in Nat
    BY Shown, SoundTypes
  <2>2. QED BY <2>1, UsedAreSlots
<1>4. CASE mode = "ended" /\ at = None /\ \A j \in U : j < index
  <2>1. ahead = {}
    BY <1>3, <1>4
  <2>2. from = {}
    BY <2>1
  <2>3. h = [mode |-> "ended", key |-> NoKey, rest |-> {}]
    BY <1>4 DEF Handle
  <2> HIDE DEF h, from
  <2>4. QED BY <1>1, <1>2, <2>2, <2>3 DEF Map!Walk, Map!Returns, from, ahead, U
<1>5. CASE mode = "loop" /\ at \in U /\ at >= index /\ \A j \in U : j >= index => at <= j
  <2> DEFINE k == tab.keys[at]
             left == {tab.keys[i] : i \in {j \in U : j > at}}
  <2>1. k \in from
    BY <1>5
  <2>2. at # None
    BY <1>5, UsedAreSlots
  <2>3. h = [mode |-> "loop", key |-> k, rest |-> left]
    BY <1>5, <2>2 DEF Handle
  <2>4. left = from \ {k}
    <3>1. Distinct(tab)
      BY Shown DEF Placed
    <3>2. ASSUME NEW i \in U, i > at PROVE tab.keys[i] \in from \ {k}
      <4>1. i \in ahead /\ i # at
        BY <1>3, <1>5, <3>2
      <4>2. tab.keys[i] # k
        BY <1>5, <3>1, <4>1 DEF Distinct
      <4>3. QED BY <4>1, <4>2
    <3>3. ASSUME NEW i \in ahead, tab.keys[i] # k PROVE i > at
      <4>1. i # at /\ at <= i /\ i \in Int /\ at \in Int
        BY <1>3, <1>5, <3>3
      <4>2. QED BY <4>1
    <3>4. left \subseteq from \ {k}
      BY <3>2
    <3>5. from \ {k} \subseteq left
      BY <3>3
    <3>6. QED BY <3>4, <3>5
  <2> HIDE DEF h, from, k, left
  <2>5. Borrowed' = [Borrowed EXCEPT ![b] = [mode |-> "loop", key |-> k, rest |-> from \ {k}]]
    BY <1>1, <2>3, <2>4
  <2>6. Map!Walk(b, from)
    BY <1>1, <1>2, <2>1, <2>5 DEF Map!Walk, Map!Returns
  <2>7. QED BY <2>6 DEF from, ahead, U
<1>6. QED BY <1>4, <1>5

LEMMA IdleMaps ==
  ASSUME Linked, NEW b \in Borrowers
  PROVE  /\ cursor[b] = Idle <=> Borrowed[b] = Map!Idle
         /\ Borrowed[b].mode = cursor[b].mode
         /\ cursor[b] = Idle <=> cursor[b].mode = "idle"
<1>1. Borrowed[b] = Handle(tab, cursor[b]) /\ Borrowed[b].mode = cursor[b].mode
  BY Shown DEF Handle
<1>2. cursor[b] = Idle <=> cursor[b].mode = "idle"
  BY IdleOrHolding DEF Linked
<1>3. CASE cursor[b] = Idle
  BY <1>1, <1>2, <1>3 DEF Handle, Idle, Map!Idle
<1>4. CASE cursor[b] # Idle
  BY <1>1, <1>2, <1>4 DEF Map!Idle
<1>5. QED BY <1>1, <1>2, <1>3, <1>4

LEMMA FirstMaps ==
  ASSUME Linked, Linked', NEW b \in Borrowers, TableIterator_first(b)
  PROVE  Map!First(b)
<1> DEFINE ahead == {j \in Used(tab) : j >= 0}
           from == {tab.keys[i] : i \in ahead}
<1>1. Borrowed[b] = Map!Idle /\ ret' = <<"void", 0>>
  BY IdleMaps DEF TableIterator_first
<1>2. \A j \in Used(tab) : j >= 0 /\ ~(j < 0)
  <2>1. tab.capacity \in Nat
    BY Shown, SoundTypes
  <2>2. QED BY <2>1, UsedAreSlots
<1>3. from = DOMAIN Contents
  <2>1. ahead = Used(tab)
    BY <1>2
  <2>2. QED BY <2>1, Shown DEF KeysOf
<1>4. IInv /\ Sound(tab)
  BY Shown DEF Linked
<1>5. Map!Walk(b, from)
  <2>1. CASE tab.size # 0
    <3> DEFINE at == nextValid(0)
    <3>1. CursorStep(b, "loop", at)
      BY <2>1 DEF TableIterator_first, CursorStep, Borrow
    <3>2. Used(tab) # {}
      <4>1. tab.size = Cardinality(Used(tab))
        BY <1>4 DEF Sound, Counts
      <4>2. QED BY <2>1, <4>1, FS_EmptySet
    <3>3. at \in Used(tab) /\ at >= 0 /\ \A j \in Used(tab) : j >= 0 => at <= j
      BY <1>2, <1>4, <3>2, NextValid
    <3> HIDE DEF at
    <3>4. QED BY <1>1, <3>1, <3>3, WalkMaps
  <2>2. CASE tab.size = 0
    <3>1. CursorStep(b, "ended", None)
      BY <2>2 DEF TableIterator_first, CursorStep, Borrow
    <3>2. Used(tab) = {}
      <4>1. tab \in TablesOf(tab.capacity) /\ tab.capacity \in Nat
        BY <1>4, Shown, SoundTypes
      <4>2. IsFiniteSet(Used(tab))
        BY <4>1, UsedAreSlots, SlotsFinite, FS_Subset
      <4>3. Cardinality(Used(tab)) = 0
        BY <1>4, <2>2 DEF Sound, Counts
      <4>4. QED BY <4>2, <4>3, FS_EmptySet
    <3>3. QED BY <1>1, <3>1, <3>2, WalkMaps
  <2>3. QED BY <2>1, <2>2
<1> HIDE DEF from
<1>6. QED BY <1>1, <1>3, <1>5 DEF Map!First

LEMMA StepMaps ==
  ASSUME Linked, Linked', NEW b \in Borrowers, TableIterator_next(b)
  PROVE  Map!Step(b)
<1> DEFINE index == cursor[b].at + 1
           at == nextValid(index)
           ahead == {j \in Used(tab) : j >= index}
           from == {tab.keys[i] : i \in ahead}
<1>1. cursor[b].mode = "loop" /\ Borrowed[b].mode = "loop" /\ ret' = <<"void", 0>>
  BY IdleMaps DEF TableIterator_next
<1>2. cursor[b].at \in Used(tab) /\ cursor[b].at \in Int /\ index \in Int
  BY <1>1, Shown DEF Borrowing, Cursors
<1>3. \A j \in Used(tab) : j \in Int
  <2>1. tab.capacity \in Nat
    BY Shown, SoundTypes
  <2>2. QED BY <2>1, UsedAreSlots
<1>4. from = Borrowed[b].rest
  <2>1. ahead = {j \in Used(tab) : j > cursor[b].at}
    BY <1>2, <1>3
  <2>2. Borrowed[b] = Handle(tab, cursor[b])
    BY Shown
  <2>3. QED BY <1>1, <2>1, <2>2 DEF Handle
<1>5. \/ at = tab.capacity /\ \A j \in Used(tab) : j < index
      \/ /\ at \in Used(tab) /\ at # tab.capacity /\ at >= index
         /\ \A j \in Used(tab) : j >= index => at <= j
  BY <1>2, NextValid DEF Linked
<1>6. IF at # tab.capacity THEN CursorStep(b, "loop", at) ELSE CursorStep(b, "ended", None)
  BY DEF TableIterator_next, CursorStep, Borrow
<1>7. Map!Walk(b, from)
  <2> HIDE DEF at
  <2>1. CASE at # tab.capacity
    BY <1>1, <1>2, <1>5, <1>6, <2>1, WalkMaps
  <2>2. CASE at = tab.capacity
    <3>1. \A j \in Used(tab) : j < index
      BY <1>5, <2>2, UsedAreSlots
    <3>2. CursorStep(b, "ended", None)
      BY <1>6, <2>2
    <3> HIDE DEF index
    <3>3. QED BY <1>1, <1>2, <3>1, <3>2, WalkMaps
  <2>3. QED BY <2>1, <2>2
<1> HIDE DEF from
<1>8. QED BY <1>1, <1>4, <1>7 DEF Map!Step

LEMMA GetMaps ==
  ASSUME Linked, Linked', HashesServe, NEW b \in Borrowers, NEW k \in Keys, get(b, k)
  PROVE  Map!Get(b, k)
<1> DEFINE i == find(tab, k)
<1>1. Borrowed[b] = Map!Idle
  BY IdleMaps DEF get
<1>2. /\ k \in DOMAIN Contents <=> i # None
      /\ i # None => i \in Used(tab) /\ tab.keys[i] = k /\ Contents[k] = tab.data[i]
  BY Shown, MapFinds
<1>3. CASE i = None
  <2>1. ret' = <<"false", 0>> /\ tab' = tab /\ cursor' = cursor
    BY <1>3 DEF get, Done
  <2>2. Contents' = Contents /\ Borrowed' = Borrowed
    BY <2>1, SameShown
  <2>3. QED BY <1>1, <1>2, <1>3, <2>1, <2>2 DEF Map!Get, Map!Returns
<1>4. CASE i # None
  <2>1. CursorStep(b, "get", i) /\ ret' = <<"value", tab.data[i]>>
    BY <1>4 DEF get, CursorStep, Borrow
  <2> DEFINE h == Handle(tab, [mode |-> "get", at |-> i])
  <2>2. h = [mode |-> "get", key |-> k, rest |-> {}]
    BY <1>2, <1>4 DEF Handle
  <2>3. Contents' = Contents /\ Borrowed' = [Borrowed EXCEPT ![b] = h]
    BY <2>1, CursorMaps
  <2> HIDE DEF h, i
  <2>4. Borrowed' = [Borrowed EXCEPT ![b] = [mode |-> "get", key |-> k, rest |-> {}]]
    BY <2>2, <2>3
  <2>5. ret'[1] = "value" /\ ret'[2] = Contents[k] /\ k \in DOMAIN Contents
    BY <1>2, <1>4, <2>1
  <2>6. QED BY <1>1, <2>3, <2>4, <2>5 DEF Map!Get, Map!Returns
<1>5. QED BY <1>3, <1>4

LEMMA WriteMaps ==
  ASSUME Linked, Linked', NEW b \in Borrowers, NEW v \in Values, WriteThrough(b, v)
  PROVE  Map!Write(b, v)
<1> DEFINE i == cursor[b].at
           u == [tab EXCEPT !.data[i] = v]
           k == tab.keys[i]
<1>1. tab' = u /\ cursor[b].mode \in {"loop", "get"} /\ cursor' = cursor /\ ret' = <<"void", 0>>
  BY DEF WriteThrough, Done
<1>2. i \in Used(tab) /\ i # None
  BY <1>1, Shown, UsedAreSlots DEF Borrowing
<1>3. Borrowed[b].mode \in {"loop", "get"}
  BY <1>1, IdleMaps
<1>4. Borrowed[b].key = k
  BY <1>2, Shown DEF Handle
<1> HIDE DEF i
<1>5. MapOf(u) = [MapOf(tab) EXCEPT ![k] = v]
  <2>1. noHash \in BOOLEAN /\ Sound(tab) /\ Placed(tab)
    BY Shown
  <2>2. MapOf([tab EXCEPT !.data[i] = v]) = [MapOf(tab) EXCEPT ![tab.keys[i]] = v]
    BY <1>2, <2>1, MapWritten
  <2>3. QED BY <2>2
<1>6. Used(u) = Used(tab) /\ \A j \in Used(tab) : u.keys[j] = tab.keys[j]
  BY <1>2, Shown, Writes
<1> HIDE DEF u, k
<1>7. Borrowed' = Borrowed
  BY <1>1, <1>6, BorrowedKept
<1>8. Contents' = [Contents EXCEPT ![Borrowed[b].key] = v]
  BY <1>1, <1>4, <1>5, Shown, ShownNext
<1>9. QED BY <1>1, <1>3, <1>7, <1>8 DEF Map!Write, Map!Returns

LEMMA ReleaseMaps ==
  ASSUME Linked, Linked', NEW b \in Borrowers, Release(b)
  PROVE  Map!Release(b)
<1> DEFINE h == Handle(tab, [mode |-> "idle", at |-> None])
<1>1. Borrowed[b] # Map!Idle /\ ret' = <<"void", 0>>
  BY IdleMaps DEF Release
<1>2. CursorStep(b, "idle", None)
  BY DEF Release, CursorStep, Borrow
<1>3. Contents' = Contents /\ Borrowed' = [Borrowed EXCEPT ![b] = h]
  BY <1>2, CursorMaps
<1>4. h = Map!Idle
  BY DEF Handle, Map!Idle
<1> HIDE DEF h
<1>5. QED BY <1>1, <1>3, <1>4 DEF Map!Release, Map!Returns

LEMMA InitMaps ==
  ASSUME Init, Linked
  PROVE  Map!Init
<1>1. tab = NoTable /\ noHash \in BOOLEAN /\ ret = <<"void", 0>>
      /\ cursor = [b \in Borrowers |-> Idle]
  BY DEF Init
<1>2. Contents = [k \in {} |-> 0]
  BY <1>1, NoTableIsBare, MapBare, Shown DEF Bare
<1>3. \A b \in Borrowers : Borrowed[b] = Map!Idle
  BY <1>1, IdleMaps
<1>4. Borrowed = [b \in Borrowers |-> Map!Idle]
  BY <1>3, Shown
<1>5. QED BY <1>1, <1>2, <1>4 DEF Map!Init

LEMMA NextMaps ==
  ASSUME Linked, Linked', HashesServe, [Next]_vars
  PROVE  [Map!Next]_Map!vars
<1>1. ASSUME NEW k \in Keys, NEW v \in Stores[k], Index(k, v) PROVE Map!Next
  <2>1. v \in Values
    BY TableAssumption
  <2>2. QED BY <1>1, <2>1, IndexMaps DEF Map!Next
<1>2. ASSUME NEW k \in Keys, SimNode_TableFind(k) PROVE Map!Next
  BY <1>2, FindMaps DEF Map!Next
<1>3. ASSUME NEW k \in Keys, SimNode_TableErase(k) PROVE Map!Next
  BY <1>3, EraseMaps DEF Map!Next
<1>4. CASE table_clear
  BY <1>4, ClearMaps DEF Map!Next
<1>5. ASSUME NEW n \in Sizes, table_reserve(n) PROVE Map!Next
  BY <1>5, ReserveMaps DEF Map!Next
<1>6. CASE builtin_table_free
  BY <1>6, FreeMaps DEF Map!Next
<1>7. ASSUME NEW b \in Borrowers, TableIterator_first(b) PROVE Map!Next
  BY <1>7, FirstMaps DEF Map!Next
<1>8. ASSUME NEW b \in Borrowers, TableIterator_next(b) PROVE Map!Next
  BY <1>8, StepMaps DEF Map!Next
<1>9. ASSUME NEW b \in Borrowers, Release(b) PROVE Map!Next
  BY <1>9, ReleaseMaps DEF Map!Next
<1>10. ASSUME NEW b \in Borrowers, NEW k \in Keys, get(b, k) PROVE Map!Next
  BY <1>10, GetMaps DEF Map!Next
<1>11. ASSUME NEW b \in Borrowers, NEW v \in Values, WriteThrough(b, v) PROVE Map!Next
  BY <1>11, WriteMaps DEF Map!Next
<1>12. CASE UNCHANGED vars
  <2>1. Contents' = Contents /\ Borrowed' = Borrowed
    BY <1>12, SameShown DEF vars
  <2>2. QED BY <1>12, <2>1 DEF vars, Map!vars
<1>13. QED BY <1>1, <1>2, <1>3, <1>4, <1>5, <1>6, <1>7, <1>8, <1>9, <1>10, <1>11, <1>12 DEF Next

\* Through tab[k] = v, erase, clear, reserve, delete, the loops of
\* TableIterator and the blocks of get, a TableHash shows a script exactly a
\* map: growth, rehashing, tombstones and the move of the last packed entry
\* are never seen, and an element that is borrowed keeps its key.  Strings need
\* HashesServe: two of them with one hash share a slot of a packed table, and
\* past 2^32 slots an entry is refiled where no lookup starts.
THEOREM TableIsAMap == Spec /\ HashesServe => TableImplementsMap
<1>1. Spec /\ HashesServe => []HashesServe
  BY HashesStillServe, PTL DEF Spec
<1>2. Spec /\ HashesServe => []Linked
  BY <1>1, Invariant, InvLinks, PTL
<1>3. Init /\ Linked => Map!Init
  BY InitMaps
<1>4. Linked /\ Linked' /\ HashesServe /\ [Next]_vars => [Map!Next]_Map!vars
  BY NextMaps
<1>5. QED BY <1>1, <1>2, <1>3, <1>4, PTL DEF Spec, TableImplementsMap, Map!Spec

=============================================================================
