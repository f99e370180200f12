------------------------------ MODULE TableMap ------------------------------
(***************************************************************************)
(* What a table promises a script, with no word about how it is stored: a  *)
(* finite map, and borrowers that hold a reference to one of its elements  *)
(* (the body of a for loop, the block of get) and freeze the set of keys   *)
(* for as long as they hold it.                                            *)
(***************************************************************************)
EXTENDS Naturals

CONSTANTS Keys, Values, Default, Borrowers, NoKey

VARIABLES
  map,      \* a function from a subset of Keys to Values
  cursor,   \* what each borrower holds
  ret       \* what the last operation returned: a kind and a value

vars == <<map, cursor, ret>>

Idle == [mode |-> "idle", key |-> NoKey, rest |-> {}]
Held == \E b \in Borrowers : cursor[b] # Idle

Init ==
  /\ map = [k \in {} |-> Default]
  /\ cursor = [b \in Borrowers |-> Idle]
  /\ ret = <<"void", Default>>

Returns(kind, value) == ret'[1] = kind /\ ret'[2] = value

Panic == Returns("panic", Default) /\ Held /\ UNCHANGED <<map, cursor>>

\* tab[k] = v: a missing key is created, with the default value.  Only a table
\* nobody holds may get a new key.
\* A key that is present may be accessed while the
\* table is held: locks.rst:26 says that this panics, and compiled code does not.
Index(k, v) ==
  \/ Panic
  \/ /\ UNCHANGED cursor
     /\ Held => k \in DOMAIN map
     /\ Returns("value", IF k \in DOMAIN map THEN map[k] ELSE Default)
     /\ map' = [x \in DOMAIN map \cup {k} |-> IF x = k THEN v ELSE map[x]]

Find(k) ==
  /\ IF k \in DOMAIN map THEN Returns("value", map[k]) ELSE Returns("null", Default)
  /\ UNCHANGED <<map, cursor>>

Erase(k) ==
  \/ Panic
  \/ /\ ~Held
     /\ Returns(IF k \in DOMAIN map THEN "true" ELSE "false", Default)
     /\ map' = [x \in DOMAIN map \ {k} |-> map[x]]
     /\ UNCHANGED cursor

\* clear and delete
Clear ==
  \/ Panic
  \/ /\ Held => DOMAIN map = {}
     /\ Returns("void", Default)
     /\ map' = [k \in {} |-> Default]
     /\ UNCHANGED cursor

Reserve ==
  \/ Panic
  \/ Returns("void", Default) /\ UNCHANGED <<map, cursor>>

\* A loop hands out every key once, in any order, and may be left early.
Walk(b, from) ==
  /\ Returns("void", Default)
  /\ \/ /\ from = {}
        /\ cursor' = [cursor EXCEPT ![b] = [mode |-> "ended", key |-> NoKey, rest |-> {}]]
     \/ \E k \in from :
          cursor' = [cursor EXCEPT ![b] = [mode |-> "loop", key |-> k, rest |-> from \ {k}]]
  /\ UNCHANGED map

First(b) == cursor[b] = Idle /\ Walk(b, DOMAIN map)
Step(b)  == cursor[b].mode = "loop" /\ Walk(b, cursor[b].rest)

Get(b, k) ==
  /\ cursor[b] = Idle
  /\ IF k \in DOMAIN map
       THEN /\ cursor' = [cursor EXCEPT ![b] = [mode |-> "get", key |-> k, rest |-> {}]]
            /\ Returns("value", map[k])
       ELSE Returns("false", Default) /\ UNCHANGED cursor
  /\ UNCHANGED map

\* The element that is held is written through the reference.
Write(b, v) ==
  /\ cursor[b].mode \in {"loop", "get"}
  /\ map' = [map EXCEPT ![cursor[b].key] = v]
  /\ Returns("void", Default)
  /\ UNCHANGED cursor

Release(b) ==
  /\ cursor[b] # Idle
  /\ cursor' = [cursor EXCEPT ![b] = Idle]
  /\ Returns("void", Default)
  /\ UNCHANGED map

Next ==
  \/ \E k \in Keys, v \in Values : Index(k, v)
  \/ \E k \in Keys : Find(k) \/ Erase(k)
  \/ Clear \/ Reserve
  \/ \E b \in Borrowers :
       \/ First(b) \/ Step(b) \/ Release(b)
       \/ \E k \in Keys : Get(b, k)
       \/ \E v \in Values : Write(b, v)

Spec == Init /\ [][Next]_vars
=============================================================================
