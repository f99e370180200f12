------------------------------- MODULE Table --------------------------------
(***************************************************************************)
(* The hash table behind table<K;V>: class TableHash of                    *)
(* simulate/runtime_table.h, the table nodes of the interpreter, the       *)
(* iterators and the locks of simulate/runtime_table.cpp.                  *)
(*                                                                         *)
(* A string table of at most minCapacity slots is packed: dense in         *)
(* [0,size), found by its full hash.  Every other table is open-addressed  *)
(* with linear probing: a string table keeps a reduced hash per slot, any  *)
(* other a control byte.  In both EMPTY is 0, a tombstone is 1, and what   *)
(* is larger is live.  A table belongs to one context, so every operation  *)
(* is atomic; what is hard is their sequence, and the references that a    *)
(* loop or the block of get holds into the table while it runs other code. *)
(*                                                                         *)
(* Widths are scaled: HashKeyMod stands for 2^32 (TableHashKey) and        *)
(* minCapacity for 8.  It may differ for the two key types, which are two  *)
(* instances of the template.                                              *)
(***************************************************************************)
EXTENDS Integers, FiniteSets, FiniteSetsExt

CONSTANTS
  Keys,         \* the keys a script uses
  Hash,         \* [Keys -> Nat]  hash_function: 64 bits, never 0 or 1
  HashKeyMod,   \* 2^32
  FnvPrime,     \* 16777619
  minCapacity,  \* [BOOLEAN -> Nat] indexed by "the key is not a string"
  Capacities,   \* [BOOLEAN -> SUBSET Nat] minCapacity and its doublings; bound of
                \* the model: no table is grown past the largest of them
  Values,       \* the values there are; 0 is a cleared one
  Stores,       \* [Keys -> SUBSET Values] the values a script stores under each key
  Sizes,        \* the sizes a script reserves
  Borrowers,    \* for loops and get blocks that may be open at the same time
  NoKey         \* the key of a slot that is not live

ASSUME TableAssumption ==
  /\ NoKey \notin Keys
  /\ 0 \in Values /\ Stores \in [Keys -> SUBSET Values]
  /\ \A k \in Keys : Hash[k] \in Nat /\ Hash[k] > 1
  /\ FnvPrime \in Nat /\ HashKeyMod \in Nat /\ 1 < FnvPrime /\ FnvPrime < HashKeyMod
  /\ minCapacity \in [BOOLEAN -> Nat] /\ minCapacity[TRUE] >= 4 /\ minCapacity[FALSE] >= 2
  /\ \A n \in BOOLEAN : minCapacity[n] \in Capacities[n]
  /\ \A n \in BOOLEAN : \A c \in Capacities[n] :
       /\ c \in Nat /\ c >= minCapacity[n]
       /\ c = minCapacity[n] \/ \E b \in Capacities[n] : c = 2 * b
  /\ \A n \in Sizes : n \in Nat

VARIABLES
  noHash,   \* the KeyType of the template: TRUE unless it is a string
  tab,      \* struct Table; tableNoHash is its flag
  lock,     \* Table::lock
  block,    \* size of the heap block the table owns, 0 when there is none
  cursor,   \* what each borrower holds: mode and slot
  ret       \* what the last operation returned

vars == <<noHash, tab, lock, block, cursor, ret>>

EMPTY     == 0   \* HASH_EMPTY64, CTRL_EMPTY
TOMBSTONE == 1   \* HASH_KILLED64, CTRL_TOMBSTONE
OCCUPIED  == 2   \* CTRL_OCCUPIED
None      == -1

\* sizeof(key) + sizeof(value), and the widths of the hash region
KeyValueBytes == 16
Width == [packed |-> 8, large |-> 4, control |-> 1]

NoTable == [capacity |-> 0, size |-> 0, tombstones |-> 0, tableNoHash |-> FALSE,
            hashes |-> <<>>, keys |-> <<>>, data |-> <<>>]

Idle == [mode |-> "idle", at |-> None]

Init ==
  /\ noHash \in BOOLEAN
  /\ tab = NoTable
  /\ lock = 0 /\ block = 0
  /\ cursor = [b \in Borrowers |-> Idle]
  /\ ret = <<"void", 0>>

-----------------------------------------------------------------------------
(* Slots and probing.                                                      *)

Slots(t) == 0..t.capacity - 1

\* The static view, by KeyType, and the type-erased one, by the flag.
Packed(t) == ~noHash /\ t.capacity <= minCapacity[noHash]
PackedByFlag(t) == ~t.tableNoHash /\ t.capacity <= minCapacity[noHash]

tableLiveSlot(t, i) == IF PackedByFlag(t) THEN i < t.size ELSE t.hashes[i] > TOMBSTONE

Live(t) == {i \in Slots(t) : tableLiveSlot(t, i)}
Empty(t) == {i \in Slots(t) : t.hashes[i] = EMPTY}
Killed(t) == {i \in Slots(t) : t.hashes[i] = TOMBSTONE}

\* Fault: one width for all tables of strings.
SlotBytesByKey(t) == IF t.tableNoHash THEN Width.control ELSE Width.large

tableHashSlotBytes(t) ==
  IF PackedByFlag(t) THEN Width.packed
  ELSE IF t.tableNoHash THEN Width.control ELSE Width.large

hashToHashKey(h) == IF h % HashKeyMod <= 1 THEN FnvPrime ELSE h % HashKeyMod

\* What a live slot of key k keeps in the hash region.
SlotHash(t, k) ==
  IF noHash THEN OCCUPIED
  ELSE IF Packed(t) THEN Hash[k] ELSE hashToHashKey(Hash[k])

\* The first slot of S on the probe sequence of a hash.
First(t, hash, S) == (hash + Min({(i - hash) % t.capacity : i \in S})) % t.capacity

\* A packed slot matches by its 64-bit hash alone, any other also by its key.
Match(t, k) ==
  {i \in Slots(t) : t.hashes[i] = SlotHash(t, k) /\ (Packed(t) \/ t.keys[i] = k)}

\* Fault: the probe of a lookup stops at a tombstone.
LookupStopsEarly(t) == Empty(t) \cup Killed(t)

LookupStops(t) == Empty(t)

find(t, k) ==
  LET match == Match(t, k)
  IN IF match = {} THEN None
     ELSE IF Packed(t) THEN Min(match)
     ELSE LET i == First(t, Hash[k], match \cup LookupStops(t)) IN IF i \in match THEN i ELSE None

Put(t, i, hash, k, v) ==
  [t EXCEPT !.hashes[i] = hash, !.keys[i] = k, !.data[i] = v]

-----------------------------------------------------------------------------
(* Growing.  Live entries are copied into a fresh block, in slot order.    *)

insertNew(t, hash) == First(t, hash, Empty(t))

FreshTable(t, newCapacity) ==
  [capacity |-> newCapacity, size |-> t.size, tombstones |-> 0, tableNoHash |-> noHash,
   hashes |-> [i \in 0..newCapacity - 1 |-> EMPTY],
   keys   |-> [i \in 0..newCapacity - 1 |-> NoKey],
   data   |-> [i \in 0..newCapacity - 1 |-> 0]]

\* A string entry is placed by the hash its old slot holds (the full one when
\* the source is packed, the reduced one otherwise), any other by its key.
reserveInternal(t, newCapacity) ==
  LET HashOf(i) == IF noHash THEN Hash[t.keys[i]] ELSE t.hashes[i]
      Copy(i, n) == Put(n, insertNew(n, HashOf(i)),
                        IF noHash THEN OCCUPIED ELSE hashToHashKey(HashOf(i)),
                        t.keys[i], t.data[i])
      copied[i \in 0..t.capacity] ==   \* the new table when i slots have been looked at
        IF i = 0 THEN FreshTable(t, newCapacity)
        ELSE IF tableLiveSlot(t, i - 1) THEN Copy(i - 1, copied[i - 1])
        ELSE copied[i - 1]
  IN copied[t.capacity]

\* Fault: off by one.
TooFullLate(t) == t.size > t.capacity \div 2

TooFull(t) == t.size >= t.capacity \div 2

\* The capacity an insertion reallocates to, None when it does not: first
\* allocation, promotion of a full packed table, grow, rehash.
NeededCapacity(t) ==
  CASE t.capacity = 0 -> minCapacity[noHash]
    [] t.capacity # 0 /\ Packed(t) -> IF t.size >= t.capacity THEN 4 * t.capacity ELSE None
    [] OTHER -> IF TooFull(t) THEN 2 * t.capacity
                ELSE IF (t.capacity - t.size) \div 2 < t.tombstones THEN t.capacity
                ELSE None

Grown(t) == IF NeededCapacity(t) = None THEN t ELSE reserveInternal(t, NeededCapacity(t))

\* Append to a packed table, else take the first tombstone passed, else the
\* empty slot that ended the probe.  The value is what the slot held.
InsertAbsent(t, k) ==
  LET end == First(t, Hash[k], Empty(t))
      passed == {i \in Killed(t) : (i - Hash[k]) % t.capacity < (end - Hash[k]) % t.capacity}
      i == IF Packed(t) THEN t.size
           ELSE IF passed = {} THEN end ELSE First(t, Hash[k], passed)
  IN [Put(t, i, SlotHash(t, k), k, t.data[i]) EXCEPT
        !.size = @ + 1, !.tombstones = IF i \in Killed(t) THEN @ - 1 ELSE @]

\* A packed table looks for the key before it grows, any other grows first.
BeforeInsert(t, k) == IF Packed(t) /\ find(t, k) # None THEN t ELSE Grown(t)

\* TableHash::reserve(tab, key, hash)
reserve(t, k) ==
  LET g == BeforeInsert(t, k) IN IF find(g, k) # None THEN g ELSE InsertAbsent(g, k)

\* TableHash::erase of a key that is there
eraseFound(t, k) ==
  LET i == find(t, k)
      last == t.size - 1
      moved == Put(t, i, t.hashes[last], t.keys[last], t.data[last])
  IN IF Packed(t)
       THEN [Put(moved, last, EMPTY, NoKey, 0) EXCEPT !.size = @ - 1]
       ELSE [Put(t, i, TOMBSTONE, NoKey, 0) EXCEPT !.size = @ - 1, !.tombstones = @ + 1]

-----------------------------------------------------------------------------
(* The operations of a script.  A panic leaves the table as it is.         *)

Panic == ret' = <<"panic", 0>> /\ UNCHANGED <<noHash, tab, lock, block, cursor>>
Done(r, v) == ret' = <<r, v>> /\ UNCHANGED <<noHash, lock, cursor>>

\* What reserveInternal asks of the heap: the static view of the widths.
BlockBytes(capacity) ==
  capacity * (KeyValueBytes +
    IF noHash THEN Width.control
    ELSE IF capacity <= minCapacity[noHash] THEN Width.packed ELSE Width.large)

Replace(t) ==
  /\ tab' = t
  /\ block' = IF t.capacity = tab.capacity THEN block ELSE BlockBytes(t.capacity)

Fits(t) == NeededCapacity(t) \in Capacities[noHash] \cup {None}

IndexUnlocked(k, v) ==
  /\ Fits(tab)
  /\ LET t == reserve(tab, k)
         i == find(t, k)
     IN Done("value", t.data[i]) /\ Replace([t EXCEPT !.data[i] = v])

\* tab[k] = v.  A locked table makes the interpreter panic at once; compiled
\* code (TTable::operator()) panics only when it would insert or grow.
Index(k, v) ==
  \/ lock = 0 /\ IndexUnlocked(k, v)
  \/ lock # 0 /\ Panic
  \/ /\ lock # 0 /\ find(tab, k) # None /\ BeforeInsert(tab, k) = tab
     /\ IndexUnlocked(k, v)

\* find, key_exists and tab?[k]
SimNode_TableFind(k) ==
  /\ IF find(tab, k) = None THEN Done("null", 0) ELSE Done("value", tab.data[find(tab, k)])
  /\ UNCHANGED <<tab, block>>

SimNode_TableErase(k) ==
  \/ lock # 0 /\ Panic
  \/ lock = 0 /\ find(tab, k) = None /\ Done("false", 0) /\ UNCHANGED <<tab, block>>
  \/ lock = 0 /\ find(tab, k) # None /\ Done("true", 0) /\ Replace(eraseFound(tab, k))

table_clear ==
  IF lock # 0 THEN Panic
  ELSE /\ Done("void", 0)
       /\ Replace([FreshTable(tab, tab.capacity) EXCEPT
                     !.size = 0, !.tableNoHash = tab.tableNoHash])

\* reserve(tab, n): double until n fits
table_reserve(n) ==
  LET large == {c \in Capacities[noHash] : c >= n}
  IN \/ lock # 0 /\ Panic
     \/ lock = 0 /\ n <= tab.capacity /\ Done("void", 0) /\ UNCHANGED <<tab, block>>
     \/ /\ lock = 0 /\ n > tab.capacity /\ large # {}
        /\ Done("void", 0) /\ Replace(reserveInternal(tab, Min(large)))

\* delete tab: builtin_table_free, which frees what the flag and the capacity say
builtin_table_free ==
  IF tab.capacity # 0 /\ lock # 0 THEN Panic
  ELSE Done("void", 0) /\ tab' = (IF tab.capacity = 0 THEN tab ELSE NoTable) /\ block' = 0

-----------------------------------------------------------------------------
(* Iterators and get.  table_lock and table_unlock count the borrowers.    *)

Borrow(b, mode, at) ==
  /\ cursor' = [cursor EXCEPT ![b] = [mode |-> mode, at |-> at]]
  /\ UNCHANGED <<noHash, tab, block>>

nextValid(index) == Min({i \in Live(tab) : i >= index} \cup {tab.capacity})

TableIterator_first(b) ==
  /\ cursor[b] = Idle /\ lock' = lock + 1 /\ ret' = <<"void", 0>>
  /\ IF tab.size # 0 THEN Borrow(b, "loop", nextValid(0))
     ELSE Borrow(b, "ended", None)

TableIterator_next(b) ==
  LET i == nextValid(cursor[b].at + 1)
  IN /\ cursor[b].mode = "loop" /\ UNCHANGED lock /\ ret' = <<"void", 0>>
     /\ IF i # tab.capacity THEN Borrow(b, "loop", i)
        ELSE Borrow(b, "ended", None)

\* get(tab, k) $(var p) { ... }
get(b, k) ==
  LET i == find(tab, k)
  IN /\ cursor[b] = Idle
     /\ IF i = None THEN Done("false", 0) /\ UNCHANGED <<tab, block>>
        ELSE lock' = lock + 1 /\ Borrow(b, "get", i) /\ ret' = <<"value", tab.data[i]>>

\* The loop body or the block writes through the reference it was given.
WriteThrough(b, v) ==
  /\ cursor[b].mode \in {"loop", "get"} /\ v \in Stores[tab.keys[cursor[b].at]]
  /\ tab' = [tab EXCEPT !.data[cursor[b].at] = v]
  /\ Done("void", 0) /\ UNCHANGED block

\* TableIterator::close, the end of get
Release(b) ==
  /\ cursor[b] # Idle /\ lock' = lock - 1 /\ ret' = <<"void", 0>>
  /\ Borrow(b, "idle", None)

-----------------------------------------------------------------------------
Next ==
  \/ \E k \in Keys : \E v \in Stores[k] : Index(k, v)
  \/ \E k \in Keys : SimNode_TableFind(k) \/ SimNode_TableErase(k)
  \/ table_clear
  \/ \E n \in Sizes : table_reserve(n)
  \/ builtin_table_free
  \/ \E b \in Borrowers :
       \/ TableIterator_first(b) \/ TableIterator_next(b) \/ Release(b)
       \/ \E k \in Keys : get(b, k)
       \/ \E v \in Values : WriteThrough(b, v)

Spec == Init /\ [][Next]_vars

-----------------------------------------------------------------------------
(* Properties.                                                             *)

KeyAt(i) == tab.keys[i]

\* The value under each key, and what each borrower has left to see.
Contents == [k \in {KeyAt(i) : i \in Live(tab)} |->
               tab.data[CHOOSE i \in Live(tab) : KeyAt(i) = k]]

Borrowed == [b \in Borrowers |->
  [mode |-> cursor[b].mode,
   key  |-> IF cursor[b].at = None THEN NoKey ELSE KeyAt(cursor[b].at),
   rest |-> IF cursor[b].mode = "loop"
              THEN {KeyAt(i) : i \in {j \in Live(tab) : j > cursor[b].at}} ELSE {}]]

Map == INSTANCE TableMap WITH Default <- 0, map <- Contents, cursor <- Borrowed

\* The table is a map: whatever sequence of insertions, erasures, growth and
\* rehashing came before, a key is found with the value last stored, a new key
\* starts at the default, a loop hands out every key once, and an element that
\* is borrowed keeps its place while the script runs other code.
TableImplementsMap == Map!Spec

\* Every probe loop ends: an open-addressed table always keeps an empty slot,
\* and its counters say what its slots hold.
ProbeEnds ==
  /\ tab.size = Cardinality(Live(tab))
  /\ ~Packed(tab) /\ tab.capacity # 0 =>
       Empty(tab) # {} /\ tab.tombstones = Cardinality(Killed(tab))

\* What delete computes from the flag and the capacity is what reserveInternal
\* allocated from the key type.
FreedAsAllocated ==
  block = tab.capacity * (KeyValueBytes + tableHashSlotBytes(tab))

\* A key that is in the table is found, in the slot that holds it.
EveryKeyFound == \A i \in Live(tab) : find(tab, KeyAt(i)) = i
=============================================================================
