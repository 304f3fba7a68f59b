------------------------------- MODULE Hashmap -------------------------------
(***************************************************************************)
(* src/hashmap.c: open addressing with linear probing, tombstones, and     *)
(* growth by rehashing, together with its two special uses: the weak       *)
(* intern table vm->strings (object.c) and assignment to a global (vm.c).  *)
(* A call runs to its end before the next one starts, but adjust_capacity  *)
(* allocates, and the allocation may collect garbage, which deletes the    *)
(* dead strings from the intern table in the middle of the call.           *)
(*                                                                         *)
(* index & (capacity-1) is written index % capacity: HashmapMC checks that *)
(* they agree, since every capacity is a power of two.                     *)
(***************************************************************************)
EXTENDS Integers, FiniteSets, FiniteSetsExt

CONSTANTS Tables, Strings,    \* the tables; Strings \in Tables is vm->strings
          Keys,               \* string objects, the ones not yet allocated too
          Chars, Hash,        \* a string's text, and hash_string of a text
          Values, Null, True, \* NULL_VAL and BOOL_VAL(1) are values
          Missing,            \* "hashmap_get returned 0"
          NoKey,              \* the NULL key of an unused entry
          MinCapacity,        \* 8 in the code
          MaxCapacity         \* bound: no call grows a table past this

ASSUME TableConstants ==
    /\ Strings \in Tables
    /\ Chars \in [Keys -> DOMAIN Hash] /\ Hash \in [DOMAIN Hash -> Nat]
    /\ {Null, True} \subseteq Values /\ Null # True /\ Missing \notin Values
    /\ NoKey \notin Keys
    /\ MinCapacity \in Nat /\ MinCapacity >= 2 /\ MaxCapacity \in Nat

VARIABLES tables, \* each hashmap: count, capacity, entries
          pc,     \* where the running call is
          args,   \* its arguments, and which caller it returns to
          fresh,  \* adjust_capacity's new table
          i,      \* adjust_capacity's loop index
          copy,   \* hashmap_copy_all's from, to and loop index
          ret     \* what the last completed call returned to its caller

vars == <<tables, pc, args, fresh, i, copy, ret>>
-----------------------------------------------------------------------------
Empty     == [k |-> NoKey, v |-> Null]
Tombstone == [k |-> NoKey, v |-> True]
Slots(n)  == 0 .. n - 1

\* Fault: the loop that empties the entries stops one short.
NewTable_OneShort(n) ==
    [count |-> 0, capacity |-> n, entries |-> [s \in Slots(n - 1) |-> Empty]]

NewTable(n) == [count |-> 0, capacity |-> n, entries |-> [s \in Slots(n) |-> Empty]]

HashOf(k) == Hash[Chars[k]]
ProbeSlot(h, n, d) == (h + d) % n

\* The distances from home at which a probe for one of the keys `wanted` stops.
Stops(tab, h, wanted) ==
    {d \in Slots(tab.capacity) :
        LET e == tab.entries[ProbeSlot(h, tab.capacity, d)]
        IN  e = Empty \/ e.k \in wanted}

\* Fault: a tombstone passed is taken although the key comes after it.
FindEntry_TombstoneFirst(tab, k) ==
    LET slot(d) == ProbeSlot(HashOf(k), tab.capacity, d)
        end     == Min(Stops(tab, HashOf(k), {k}))
    IN  slot(Min({d \in 0 .. end : d = end \/ tab.entries[slot(d)].k = NoKey}))

\* The entry find_entry returns: the key's, else the first tombstone passed,
\* else the empty entry that ended the probe. It loops when Stops = {}.
FindEntry(tab, k) ==
    LET slot(d) == ProbeSlot(HashOf(k), tab.capacity, d)
        end     == Min(Stops(tab, HashOf(k), {k}))
        graves  == {d \in 0 .. end - 1 : tab.entries[slot(d)].k = NoKey}
    IN  IF tab.entries[slot(end)].k # k /\ graves # {}
        THEN slot(Min(graves)) ELSE slot(end)

\* Fault: the search takes a tombstone for the end of the probe.
FindString_StopsAtTombstone(tab, c) ==
    LET here(d) == tab.entries[ProbeSlot(Hash[c], tab.capacity, d)]
        end     == Min({d \in Slots(tab.capacity) :
                           here(d).k = NoKey \/ Chars[here(d).k] = c})
    IN  IF tab.count = 0 THEN NoKey ELSE here(end).k

\* hashmap_find_string compares texts instead of pointers.
FindString(tab, c) ==
    LET end == Min(Stops(tab, Hash[c], {k \in Keys : Chars[k] = c}))
    IN  IF tab.count = 0 THEN NoKey
        ELSE tab.entries[ProbeSlot(Hash[c], tab.capacity, end)].k

\* Fault: a table may fill up.
Overloaded_OnlyWhenFull(tab) == tab.count >= tab.capacity

Overloaded(tab) == 4 * (tab.count + 1) > 3 * tab.capacity

\* Fault: growth by half.
Grow_ByHalf(n) == IF n < MinCapacity THEN MinCapacity ELSE n + n \div 2

Grow(n) == IF n < MinCapacity THEN MinCapacity ELSE 2 * n

\* Fault: an entry that takes over a tombstone is counted again.
Put_CountsReuse(tab, k, v) ==
    LET s == FindEntry(tab, k)
    IN  [tab EXCEPT !.count = IF tab.entries[s].k = NoKey THEN @ + 1 ELSE @,
                    !.entries[s] = [k |-> k, v |-> v]]

\* hashmap_set once the table is large enough.
Put(tab, k, v) ==
    LET s == FindEntry(tab, k)
    IN  [tab EXCEPT !.count = IF tab.entries[s] = Empty THEN @ + 1 ELSE @,
                    !.entries[s] = [k |-> k, v |-> v]]

IsNewKey(tab, k) == tab.entries[FindEntry(tab, k)].k = NoKey

Lookup(tab, k) ==
    IF tab.count = 0 \/ IsNewKey(tab, k) THEN Missing
    ELSE tab.entries[FindEntry(tab, k)].v

\* Fault: the entry is emptied, and ends the probes that passed it.
Remove_Empties(tab, k) ==
    IF Lookup(tab, k) = Missing THEN tab
    ELSE [tab EXCEPT !.entries[FindEntry(tab, k)] = Empty]

\* hashmap_delete leaves count alone: a tombstone still counts.
Remove(tab, k) ==
    IF Lookup(tab, k) = Missing THEN tab
    ELSE [tab EXCEPT !.entries[FindEntry(tab, k)] = Tombstone]

KeysIn(tab) == {tab.entries[s].k : s \in Slots(tab.capacity)} \ {NoKey}
Interned == KeysIn(tables[Strings])
-----------------------------------------------------------------------------
NoArgs == [op |-> "none", t |-> Strings, k |-> NoKey, v |-> Null]
NoCopy == [from |-> Strings, to |-> Strings, j |-> 0]

Init == /\ tables = [t \in Tables |-> NewTable(0)]
        /\ pc = "idle" /\ args = NoArgs
        /\ fresh = NewTable(0) /\ i = 0
        /\ copy = NoCopy
        /\ ret = <<"none">>

\* The bound: n more entries fit in a table of MaxCapacity slots.
Bounded(t, n) == 4 * (tables[t].count + n) <= 3 * MaxCapacity

\* hashmap_set up to its test of the load factor.
EnterSet(op, t, k, v) ==
    /\ args' = [op |-> op, t |-> t, k |-> k, v |-> v]
    /\ pc' = IF Overloaded(tables[t]) THEN "grow" ELSE "store"
    /\ UNCHANGED <<tables, fresh, i, ret>>

\* copy_string, take_string: return the string of this text, or make it.
Intern(k) ==
    /\ pc = "idle"
    /\ LET found == FindString(tables[Strings], Chars[k])
       IN  IF found # NoKey
           THEN ret' = <<"intern", found>> /\ UNCHANGED <<tables, pc, args, fresh, i, copy>>
           ELSE /\ Bounded(Strings, 1)
                /\ EnterSet("intern", Strings, k, Null)
                /\ UNCHANGED copy

\* define_native, OP_SET_PROPERTY...: a plain hashmap_set. OP_SET_GLOBAL: an assign.
StartSet(op, t, k, v) ==
    /\ pc = "idle" /\ Bounded(t, 1)
    /\ EnterSet(op, t, k, v)
    /\ UNCHANGED copy

Get(t, k) ==
    /\ pc = "idle"
    /\ ret' = <<"get", k, Lookup(tables[t], k)>>
    /\ UNCHANGED <<tables, pc, args, fresh, i, copy>>

Delete(t, k) ==
    /\ pc = "idle"
    /\ tables' = [tables EXCEPT ![t] = Remove(@, k)]
    /\ ret' = <<"delete", k, Lookup(tables[t], k) # Missing>>
    /\ UNCHANGED <<pc, args, fresh, i, copy>>

StartCopy(from, to) ==
    /\ pc = "idle" /\ from # to
    /\ Bounded(to, Cardinality(KeysIn(tables[from])))
    /\ copy' = [from |-> from, to |-> to, j |-> 0]
    /\ pc' = "copy"
    /\ UNCHANGED <<tables, args, fresh, i, ret>>

\* Fault: a key the target has already is not copied.
CopyEntry_KeepsOld ==
    /\ pc = "copy"
    /\ LET from == tables[copy.from]
       IN  IF copy.j = from.capacity
           THEN copy' = NoCopy /\ pc' = "idle" /\ UNCHANGED <<tables, args, fresh, i, ret>>
           ELSE LET e == from.entries[copy.j]
                IN  /\ copy' = [copy EXCEPT !.j = @ + 1]
                    /\ IF e.k # NoKey /\ Lookup(tables[copy.to], e.k) = Missing
                       THEN EnterSet("copy", copy.to, e.k, e.v)
                       ELSE UNCHANGED <<tables, pc, args, fresh, i, ret>>

\* One turn of hashmap_copy_all's loop, which calls hashmap_set, or its end.
CopyEntry ==
    /\ pc = "copy"
    /\ LET from == tables[copy.from]
       IN  IF copy.j = from.capacity
           THEN copy' = NoCopy /\ pc' = "idle" /\ UNCHANGED <<tables, args, fresh, i, ret>>
           ELSE LET e == from.entries[copy.j]
                IN  /\ copy' = [copy EXCEPT !.j = @ + 1]
                    /\ IF e.k # NoKey THEN EnterSet("copy", copy.to, e.k, e.v)
                       ELSE UNCHANGED <<tables, pc, args, fresh, i, ret>>

\* collect_garbage: hashmap_remove_white deletes the unmarked strings. Every
\* key of another table, the key being set and any other string may be marked.
Collectable == Interned \ UNION {KeysIn(tables[t]) : t \in Tables \ {Strings}}

Sweep(tab, dead) ==
    [tab EXCEPT !.entries =
        [s \in DOMAIN tab.entries |->
            IF tab.entries[s].k \in dead THEN Tombstone ELSE tab.entries[s]]]

Collect(dead) ==
    /\ pc = "idle"
    /\ tables' = [tables EXCEPT ![Strings] = Sweep(@, dead)]
    /\ UNCHANGED <<pc, args, fresh, i, copy, ret>>

\* adjust_capacity: ALLOCATE, which may collect first; the new entries are empty.
Allocate(dead) ==
    /\ pc = "grow" /\ args.k \notin dead
    /\ tables' = [tables EXCEPT ![Strings] = Sweep(@, dead)]
    /\ fresh' = NewTable(Grow(tables[args.t].capacity))
    /\ i' = 0 /\ pc' = "rehash"
    /\ UNCHANGED <<args, copy, ret>>

\* Fault: a tombstone is skipped before the index is advanced.
Rehash_StuckOnTombstone ==
    /\ pc = "rehash" /\ i < tables[args.t].capacity
    /\ LET e == tables[args.t].entries[i]
       IN  /\ fresh' = IF e.k = NoKey THEN fresh ELSE Put(fresh, e.k, e.v)
           /\ i' = IF e.k = NoKey THEN i ELSE i + 1
    /\ UNCHANGED <<tables, pc, args, copy, ret>>

\* Fault: the tombstones are left behind, but stay in the count.
Rehash_CountsTombstones ==
    /\ pc = "rehash" /\ i < tables[args.t].capacity
    /\ LET e == tables[args.t].entries[i]
       IN  fresh' = IF e = Tombstone THEN [fresh EXCEPT !.count = @ + 1]
                    ELSE IF e.k = NoKey THEN fresh ELSE Put(fresh, e.k, e.v)
    /\ i' = i + 1
    /\ UNCHANGED <<tables, pc, args, copy, ret>>

\* One turn of its loop: a tombstone is left behind, a key moves and counts.
Rehash ==
    /\ pc = "rehash" /\ i < tables[args.t].capacity
    /\ LET e == tables[args.t].entries[i]
       IN  fresh' = IF e.k = NoKey THEN fresh ELSE Put(fresh, e.k, e.v)
    /\ i' = i + 1
    /\ UNCHANGED <<tables, pc, args, copy, ret>>

\* Fault: the loop ends before the last entry.
Install_OneShort ==
    /\ pc = "rehash" /\ i + 1 >= tables[args.t].capacity
    /\ tables' = [tables EXCEPT ![args.t] = fresh]
    /\ fresh' = NewTable(0) /\ i' = 0 /\ pc' = "store"
    /\ UNCHANGED <<args, copy, ret>>

Install ==
    /\ pc = "rehash" /\ i = tables[args.t].capacity
    /\ tables' = [tables EXCEPT ![args.t] = fresh]
    /\ fresh' = NewTable(0) /\ i' = 0 /\ pc' = "store"
    /\ UNCHANGED <<args, copy, ret>>

\* The end of hashmap_set, and what its caller does with the answer: a global
\* that was not defined is deleted again.
Store ==
    /\ pc = "store"
    /\ \E new \in {IsNewKey(tables[args.t], args.k)},
          put \in {Put(tables[args.t], args.k, args.v)} :
          /\ tables' = [tables EXCEPT ![args.t] =
                            IF args.op = "assign" /\ new THEN Remove(put, args.k) ELSE put]
          /\ ret' = CASE args.op = "intern" -> <<"intern", args.k>>
                      [] args.op = "assign" -> <<"assign", args.k, new>>
                      [] OTHER -> <<"set", args.k, new>>
    /\ pc' = IF args.op = "copy" THEN "copy" ELSE "idle"
    /\ args' = NoArgs
    /\ UNCHANGED <<fresh, i, copy>>

Call == \/ \E k \in Keys : Intern(k)
        \/ \E t \in Tables \ {Strings}, k \in Interned :
              \/ \E v \in Values, op \in {"set", "assign"} : StartSet(op, t, k, v)
              \/ Get(t, k)
              \/ Delete(t, k)
        \/ \E from, to \in Tables \ {Strings} : StartCopy(from, to)

Return == CopyEntry \/ Rehash \/ Install \/ Store \/ \E dead \in SUBSET Collectable : Allocate(dead)

Next == Call \/ Return \/ \E dead \in SUBSET Collectable : Collect(dead)

Spec     == Init /\ [][Next]_vars
\* The VM is one thread and a call runs until it returns.
FairSpec == Spec /\ WF_vars(Return)
-----------------------------------------------------------------------------
AllTables == {tables[t] : t \in Tables} \cup {fresh}

Used(tab) == {s \in Slots(tab.capacity) : tab.entries[s] # Empty}

TableType(tab) ==
    /\ tab = [count |-> tab.count, capacity |-> tab.capacity, entries |-> tab.entries]
    /\ tab.count \in Nat /\ tab.capacity \in Nat
    /\ tab.entries \in [Slots(tab.capacity) -> [k : Keys \cup {NoKey}, v : Values]]
    /\ \A s \in Slots(tab.capacity) :
          tab.entries[s].k = NoKey => tab.entries[s] \in {Empty, Tombstone}

\* Types, and that an unused entry is either a never used one or a tombstone.
TypeOK ==
    /\ tables = [t \in Tables |-> tables[t]]
    /\ \A tab \in AllTables : TableType(tab)
    /\ pc \in {"idle", "grow", "rehash", "store", "copy"}
    /\ args \in [op : {"none", "intern", "set", "assign", "copy"},
                 t : Tables, k : Keys \cup {NoKey}, v : Values]
    /\ i \in Nat
    /\ copy \in [from : Tables, to : Tables, j : Nat]

\* find_entry and find_string loop with no bound (hashmap.c:24, 107): whatever
\* is looked up, in a table or in the one being filled, the probe stops,
\* although tombstones never leave a table before it grows.
ProbesTerminate ==
    \A tab \in AllTables, c \in DOMAIN Hash :
        tab.capacity > 0 => Stops(tab, Hash[c], {}) # {}

\* count, which decides when to grow, is the entries in use and the tombstones
\* together, over sets that reuse a tombstone, deletes, sweeps and growth.
CountIsUsedEntries == \A tab \in AllTables : tab.count = Cardinality(Used(tab))

\* No deletion, sweep or reused tombstone cuts a key off from its home slot or
\* lets a second entry appear for it: every entry is the one find_entry finds.
EveryKeyFound ==
    \A tab \in AllTables : \A s \in Slots(tab.capacity) :
        tab.entries[s].k # NoKey => FindEntry(tab, tab.entries[s].k) = s

\* Strings are compared by pointer because no two live ones have one text.
OneObjectPerText == \A x, y \in Interned : Chars[x] = Chars[y] => x = y

\* hashmap_copy_all (inheritance, module export) has copied what it has passed.
CopyKeeps ==
    pc = "copy" =>
        \A s \in Slots(copy.j) :
            LET e == tables[copy.from].entries[s]
            IN  e.k # NoKey => Lookup(tables[copy.to], e.k) = e.v

\* The tables implement maps from strings to values, and every call answers
\* what it would answer over those maps.
Contents(tab) ==
    [k \in Keys |-> IF k \in KeysIn(tab)
                    THEN LET s == CHOOSE s \in Slots(tab.capacity) : tab.entries[s].k = k
                         IN  tab.entries[s].v
                    ELSE Missing]

KV == INSTANCE KVStore WITH maps <- [t \in Tables |-> Contents(tables[t])]

ImplementsKVStore == KV!Spec

\* Every call returns.
CallsReturn == pc # "idle" ~> pc = "idle"
-----------------------------------------------------------------------------
(***************************************************************************)
(* The inductive invariant behind ProbesTerminate. A probe stops because   *)
(* count, tombstones included, never exceeds three quarters of a table     *)
(* that has room for the set being made, and adjust_capacity's new table   *)
(* cannot fill up: it takes at most one entry per turn of the loop.        *)
(***************************************************************************)
LoadBounded ==
    \A t \in Tables : /\ 4 * tables[t].count <= 3 * tables[t].capacity
                      /\ tables[t].capacity = 0 \/ tables[t].capacity >= MinCapacity

RoomForSet ==
    /\ pc \in {"grow", "rehash", "store"} => args.k \in Keys
    /\ pc = "store" => ~Overloaded(tables[args.t])
    /\ IF pc = "rehash"
       THEN /\ fresh.capacity = Grow(tables[args.t].capacity)
            /\ i <= tables[args.t].capacity
            /\ fresh.count <= i
       ELSE fresh.capacity = 0

CopyInRange == copy.j <= tables[copy.from].capacity

ProbeInv == TypeOK /\ CountIsUsedEntries /\ LoadBounded /\ RoomForSet /\ CopyInRange
==============================================================================
