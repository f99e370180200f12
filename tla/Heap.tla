-------------------------------- MODULE Heap --------------------------------
(***************************************************************************)
(* The persistent heaps of a context: MemoryModel with its Decks and Shoe  *)
(* (misc/memory_model), PersistentHeapAllocator and                        *)
(* PersistentStringAllocator (simulate/heap), and the calls of Context     *)
(* that use them: allocate, reallocate, free, the queue of one temporary   *)
(* string, collectHeap and restartHeaps.                                   *)
(*                                                                         *)
(* A behaviour is about one of the two heaps, chosen in Init: they share   *)
(* no state.  An address is <<class, deck, cell>>, where decks of a class  *)
(* are numbered from the oldest, or <<0, k>> for a block of its own.  The  *)
(* walk of collectHeap over roots, globals and stack is abstracted to the  *)
(* set of blocks it reaches.  Statistics nothing reads (maxAllocated,      *)
(* totalAllocations...) and allocation tracking are left out, and so is    *)
(* Shoe::lastChunk, which only shortens the search for an address.         *)
(***************************************************************************)
EXTENDS Integers, Sequences, FiniteSets, FiniteSetsExt, Functions

CONSTANTS
  Sizes,             \* bytes a program asks of the data heap
  TextSize,          \* the contents strings have, and the bytes each takes
  maxShoeAllocation, \* DAS_MAX_SHOE_ALLOCATION, a multiple of 16
  WordBits,          \* bits in a word of Deck::bits
  initialSize,       \* heap_size_hint, string_heap_size_hint
  Limits,            \* heap_size_limit: the limits to choose from; 0 is none
  MaxBlocks,         \* bound of the model: blocks at a time, one fewer after a restart
  MaxRestarts,       \* bound of the model: calls of restartHeaps
  RestartInterned    \* whether a heap with interned strings is restarted too

ASSUME HeapAssumption ==
  /\ maxShoeAllocation \in Nat /\ maxShoeAllocation % 16 = 0 /\ WordBits \in Nat \ {0}
  /\ Sizes \subseteq Nat /\ initialSize \in Nat /\ Limits \subseteq Nat
  /\ \A t \in DOMAIN TextSize : TextSize[t] \in Nat /\ TextSize[t] > 1   \* never empty
  /\ RestartInterned \in BOOLEAN

VARIABLES
  kind,        \* which allocator: "data" or "strings"
  limit,       \* AnyHeapAllocator::limit
  needIntern,  \* StringHeapAllocator::needIntern
  model,       \* the MemoryModel: decks of each class, newest first, big blocks, total
  internMap,   \* set of [text, ptr]
  disposeQue,  \* Context::stringDisposeQue: a set with at most one address
  held,        \* ghost: the blocks the program was given: size, text, holders
  restarts,    \* number of restarts
  ret          \* the outcome of the last operation

vars == <<kind, limit, needIntern, model, internMap, disposeQue, held, restarts, ret>>

alignMask == IF kind = "data" THEN 15 ELSE 3
RoundTo(n, unit) == ((n + unit - 1) \div unit) * unit
Aligned(size) == RoundTo(size, alignMask + 1)
Class(size) == RoundTo(size, 16) \div 16
Classes == 1..Class(maxShoeAllocation)

Empty == [chunks |-> [c \in Classes |-> <<>>], bigStuff |-> <<>>, totalAllocated |-> 0]

Init ==
  /\ kind \in {"data", "strings"}
  /\ limit \in Limits
  /\ needIntern \in IF kind = "strings" THEN BOOLEAN ELSE {FALSE}
  /\ model = Empty
  /\ internMap = {} /\ disposeQue = {} /\ held = <<>>
  /\ restarts = 0 /\ ret = <<"none", {}>>

-----------------------------------------------------------------------------
(* Deck: cells of one class, a bit each.                                   *)

Deck(ne) == [total |-> RoundTo(ne, WordBits), bits |-> {}, look |-> 0, allocated |-> 0]

Word(cell) == cell \div WordBits
HasRoom(d) == d.allocated # d.total

\* The highest free bit of the first word, from look on, that has one.
FreeCell(d) ==
  LET free == (0..d.total - 1) \ d.bits
      words == d.total \div WordBits
      first == (d.look + Min({(Word(i) - d.look) % words : i \in free})) % words
  IN Max({i \in free : Word(i) = first})

DeckAllocate(d) ==
  LET cell == FreeCell(d)
  IN [d EXCEPT !.bits = @ \cup {cell}, !.look = Word(cell), !.allocated = @ + 1]

DeckFree(d, cell) ==
  [d EXCEPT !.bits = @ \ {cell}, !.look = Word(cell), !.allocated = @ - 1]

DeckReset(d) == [d EXCEPT !.bits = {}, !.look = 0, !.allocated = 0]

\* beforeGC, a mark for each cell reached, afterGC
DeckCollect(d, marked) ==
  [d EXCEPT !.bits = marked, !.look = 0, !.allocated = Cardinality(marked)]

-----------------------------------------------------------------------------
(* MemoryModel.  allocate and reallocate return the model and the address  *)
(* of the block, or {} for nullptr.                                        *)

\* Position in the chain of the deck with a number, and its number by position.
DeckAt(chain, n) == Len(chain) - n + 1

grow(chain, c) == IF chain # <<>> THEN Head(chain).total * 2 ELSE initialSize \div (c * 16)

\* Shoe::allocate, and a deck more when it finds no room.  A new deck may have
\* no cell at all.
ShoeAllocate(m, c) ==
  LET old   == m.chunks[c]
      full  == \A q \in DOMAIN old : ~HasRoom(old[q])
      chain == IF full THEN <<Deck(grow(old, c))>> \o old ELSE old
      q     == IF full THEN 1 ELSE Min({r \in DOMAIN old : HasRoom(old[r])})
  IN IF HasRoom(chain[q])
     THEN <<[m EXCEPT !.chunks[c] = [chain EXCEPT ![q] = DeckAllocate(@)]],
            {<<c, DeckAt(chain, q), FreeCell(chain[q])>>}>>
     ELSE <<[m EXCEPT !.chunks[c] = chain], {}>>

BigAllocate(m, size) ==
  LET k == Min((1..Cardinality(DOMAIN m.bigStuff) + 1) \ DOMAIN m.bigStuff)
  IN <<[m EXCEPT !.bigStuff = [j \in DOMAIN @ \cup {k} |-> IF j = k THEN size ELSE @[j]]],
       {<<0, k>>}>>

allocate(m, size) ==
  LET counted == [m EXCEPT !.totalAllocated = @ + Aligned(size)]
  IN IF Aligned(size) > maxShoeAllocation
     THEN BigAllocate(counted, Aligned(size))
     ELSE ShoeAllocate(counted, Class(Aligned(size)))

\* Fault: the count goes down by what the caller says, without rounding.
FreedUnrounded(size) == size

Freed(size) == Aligned(size)

\* The chain is chosen by the size, the deck by the address.
free(m, p, size) ==
  LET counted == [m EXCEPT !.totalAllocated = @ - Freed(size)]
      chain == m.chunks[Class(size)]
  IN IF Aligned(size) > maxShoeAllocation
     THEN [counted EXCEPT !.bigStuff = Restrict(@, DOMAIN @ \ {p[2]})]
     ELSE [counted EXCEPT
             !.chunks[Class(size)][DeckAt(chain, p[2])] = DeckFree(@, p[3])]

reallocate(m, p, size, nsize) ==
  LET new == allocate(m, Aligned(nsize)) IN <<free(new[1], p, size), new[2]>>

SweptBytes(m, c) == SumFunction([q \in DOMAIN m.chunks[c] |-> Cardinality(m.chunks[c][q].bits)]) * c * 16

\* Fault: a block is looked up in the class below its own.
MarkedByFloor(p, size) == p[1] = size \div 16

\* mark(ptr, size) finds the deck or the big block of that size.
MarkFinds(p, size) ==
  p[1] = IF RoundTo(size, 16) > maxShoeAllocation THEN 0 ELSE Class(size)

\* mark() before, mark(ptr, size) of every block reached, sweep() after.
sweep(m, reached) ==
  LET marked == {p \in reached : MarkFinds(p, held[p].size)}
      chunks == [c \in Classes |-> [q \in DOMAIN m.chunks[c] |->
                  DeckCollect(m.chunks[c][q],
                    {p[3] : p \in {r \in marked : r[1] = c /\ DeckAt(m.chunks[c], r[2]) = q}})]]
      big    == Restrict(m.bigStuff, {p[2] : p \in {r \in marked : r[1] = 0}})
      swept  == [m EXCEPT !.chunks = chunks, !.bigStuff = big]
  IN [swept EXCEPT !.totalAllocated =
        SumFunction([c \in Classes |-> SweptBytes(swept, c)]) + SumFunction(big)]

\* Everything goes but the count.
reset(m) ==
  [m EXCEPT !.chunks = [c \in Classes |-> [q \in DOMAIN @[c] |-> DeckReset(@[c][q])]],
            !.bigStuff = <<>>]

-----------------------------------------------------------------------------
(* Allocators and context.                                                 *)

\* Faults: the limit is tested for what is there already; no limit is one of 0.
LimitPassed(extra) == limit = 0 \/ model.totalAllocated <= limit
ZeroIsALimit(extra) == model.totalAllocated + extra <= limit

WithinLimit(extra) == limit = 0 \/ model.totalAllocated + extra <= limit

Settings == <<kind, limit, needIntern, restarts>>
Strings == <<internMap, disposeQue>>

Holding(p, size, text) == [size |-> size, text |-> text, holders |-> 1]
Hold(p, size, text) ==
  [q \in DOMAIN held \cup {p} |-> IF q = p THEN Holding(p, size, text) ELSE held[q]]
Without(p) == Restrict(held, DOMAIN held \ {p})

NoText == "no text"
Texts == DOMAIN TextSize

\* impl_allocate and what becomes of the block.  Context throws when there is
\* none; the heap may then have a deck more and count the request all the same.
Request(size, text, internMap1) ==
  LET res == IF WithinLimit(size) THEN allocate(model, size) ELSE <<model, {}>>
  IN /\ Cardinality(DOMAIN held) < MaxBlocks - restarts
     /\ model' = res[1]
     /\ \/ /\ res[2] = {}
           /\ ret' = <<"out of memory", {}>> /\ UNCHANGED <<held, internMap>>
        \/ \E p \in res[2] :
             /\ ret' = <<"block", {p}>>
             /\ held' = Hold(p, size, text)
             /\ internMap' = internMap \cup {[text |-> t, ptr |-> p] : t \in internMap1}

Allocate(size) ==
  /\ kind = "data"
  /\ IF size = 0 THEN ret' = <<"null", {}>> /\ UNCHANGED <<model, held, internMap>>
     ELSE Request(size, NoText, {})
  /\ UNCHANGED <<Settings, disposeQue>>

\* A reallocation that is given no block ends the process.
Reallocate(p, nsize) ==
  LET res == reallocate(model, p, held[p].size, nsize)
  IN /\ kind = "data" /\ p \in DOMAIN held /\ nsize > 0
     /\ \/ /\ WithinLimit(nsize - held[p].size)
           /\ model' = res[1] /\ ret' = <<"moved", res[2]>>
           /\ \E new \in res[2] :
                held' = [q \in (DOMAIN held \ {p}) \cup {new} |->
                           IF q = new THEN Holding(q, nsize, NoText) ELSE held[q]]
        \/ /\ ~WithinLimit(nsize - held[p].size)
           /\ ret' = <<"out of memory", {}>> /\ UNCHANGED <<model, held>>
     /\ UNCHANGED <<Settings, Strings>>

Free(p) ==
  /\ kind = "data" /\ p \in DOMAIN held
  /\ model' = free(model, p, held[p].size)
  /\ held' = Without(p) /\ ret' = <<"freed", {p}>>
  /\ UNCHANGED <<Settings, Strings>>

Interned(t) == {e \in internMap : e.text = t}

\* allocateString with its text: an interned one is handed out again.
AllocateString(t) ==
  /\ kind = "strings"
  /\ \/ /\ Interned(t) = {}
        /\ Request(TextSize[t], t, IF needIntern THEN {t} ELSE {})
     \/ \E e \in Interned(t) :
          /\ held[e.ptr].holders < MaxBlocks
          /\ held' = [held EXCEPT ![e.ptr].holders = @ + 1]
          /\ ret' = <<"shared", {e.ptr}>> /\ UNCHANGED <<model, internMap>>
  /\ UNCHANGED <<Settings, disposeQue>>

\* a + b: allocated without a text, filled, and recognized.
SimPolicy_String_Add(t) ==
  /\ kind = "strings"
  /\ Request(TextSize[t], t, IF needIntern /\ Interned(t) = {} THEN {t} ELSE {})
  /\ UNCHANGED <<Settings, disposeQue>>

\* Fault: the entry of a freed string stays.
KeptInterned(t) == internMap

\* internMap.erase goes by the text, whoever was interned.
UnInterned(t) == internMap \ Interned(t)

freeString(p) ==
  /\ internMap' = UnInterned(held[p].text)
  /\ model' = free(model, p, held[p].size)
  /\ ret' = <<"freed", {p}>>

\* delete_string: unsafe, for a string nobody else holds.
delete_string(p) ==
  /\ kind = "strings" /\ p \in DOMAIN held /\ held[p].holders = 1
  /\ freeString(p) /\ held' = Without(p)
  /\ UNCHANGED <<Settings, disposeQue>>

\* The string given up last is freed and the new one, if any, takes its place.
FreeTempString(next) ==
  LET gone == {q \in DOMAIN held : q \in disposeQue}
      kept == DOMAIN held \ gone
  IN /\ kind = "strings" /\ ~needIntern
     /\ \A p \in next : p \in DOMAIN held /\ held[p].holders = 1
     /\ \/ /\ disposeQue = {}
           /\ ret' = <<"none", {}>> /\ UNCHANGED <<model, internMap>>
        \/ \E q \in disposeQue : freeString(q)
     /\ held' = [q \in kept |-> IF q \in next THEN [held[q] EXCEPT !.holders = 0] ELSE held[q]]
     /\ disposeQue' = next
     /\ UNCHANGED Settings

\* The interned strings after a sweep: of equal ones, one.
Reinterned(strings) ==
  {[text |-> t, ptr |-> CHOOSE p \in strings : held[p].text = t] :
     t \in {held[p].text : p \in strings}}

\* collectHeap; a string that was given up is not a root.
collectHeap(reached) ==
  /\ \A p \in reached : held[p].holders > 0
  /\ model' = sweep(model, reached)
  /\ internMap' = IF needIntern THEN Reinterned(reached) ELSE internMap
  /\ held' = Restrict(held, reached) /\ ret' = <<"kept", reached>>
  /\ disposeQue' = {}
  /\ UNCHANGED Settings

\* collectHeap with sheap = false: the string given up stays until a sweep.
collectOtherHeap ==
  /\ kind = "strings"
  /\ disposeQue' = {} /\ ret' = <<"none", {}>>
  /\ UNCHANGED <<Settings, model, internMap, held>>

\* PersistentStringAllocator::reset hides the one that clears internMap.
restartHeaps ==
  /\ restarts < MaxRestarts /\ (internMap # {} => RestartInterned)
  /\ restarts' = restarts + 1
  /\ model' = reset(model) /\ disposeQue' = {}
  /\ held' = <<>> /\ ret' = <<"kept", {}>>
  /\ UNCHANGED <<kind, limit, needIntern, internMap>>

-----------------------------------------------------------------------------
Next ==
  \/ \E size \in Sizes : Allocate(size) \/ \E p \in DOMAIN held : Reallocate(p, size)
  \/ \E t \in Texts : AllocateString(t) \/ SimPolicy_String_Add(t)
  \/ \E p \in DOMAIN held : Free(p) \/ delete_string(p) \/ FreeTempString({p})
  \/ FreeTempString({})
  \/ \E reached \in SUBSET DOMAIN held : collectHeap(reached)
  \/ collectOtherHeap
  \/ restartHeaps

Spec == Init /\ [][Next]_vars

-----------------------------------------------------------------------------
(* Properties.                                                             *)

Blocks ==
  (UNION {UNION {{<<c, DeckAt(model.chunks[c], q), i>> : i \in model.chunks[c][q].bits} :
                   q \in DOMAIN model.chunks[c]} : c \in Classes})
  \cup {<<0, k>> : k \in DOMAIN model.bigStuff}

Promise == INSTANCE HeapBlocks WITH blocks <- Blocks

\* What the bits of the decks and the table of big blocks say is what a heap
\* promises: no cell is given out twice, whatever was allocated, moved, freed
\* and swept before, a free takes the block it names, and a collection keeps
\* what is reached and recovers the rest.
HeapImplementsBlocks == Promise!Spec

\* The blocks a program holds are those of the heap, in cells of their class; a
\* deck that says it has room has a free cell; and an interned string is one
\* that is in use and says what it is looked up for.
HeapSound ==
  /\ DOMAIN held = Blocks
  /\ \A p \in DOMAIN held : MarkFinds(p, held[p].size)
  /\ \A c \in Classes : \A q \in DOMAIN model.chunks[c] :
       model.chunks[c][q].allocated = Cardinality(model.chunks[c][q].bits)
  /\ \A e \in internMap : e.ptr \in DOMAIN held /\ held[e.ptr].text = e.text

BytesHeld == SumFunction([p \in DOMAIN held |-> Aligned(held[p].size)])

\* The count behind the limit never drops below the bytes in use, so it cannot
\* wrap around; in the data heap it is exact until the heaps are restarted.
CountCoversBlocks ==
  /\ model.totalAllocated >= BytesHeld
  /\ kind = "data" /\ restarts = 0 => model.totalAllocated = BytesHeld

\* The data heap exceeds its limit, "maximum heap allocation in bytes"
\* (options.rst:194), by the rounding of one request at most, whatever is allocated
\* and reallocated: the test is made with the size before it is rounded.
LimitHolds ==
  kind = "data" /\ limit # 0 => model.totalAllocated <= limit + alignMask

\* Without a limit no request fails.  It takes a hint that makes every first deck one
\* cell long at least.
UnlimitedNeverFails == [][limit = 0 => ret' # <<"out of memory", {}>>]_vars

=============================================================================
