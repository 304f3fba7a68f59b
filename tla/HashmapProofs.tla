---------------------------- MODULE HashmapProofs ----------------------------
(***************************************************************************)
(* What holds of src/hashmap.c for every set of tables, strings and values *)
(* and every hash function: its tables keep their type, count is exact,    *)
(* and every probe stops.                                                  *)
(***************************************************************************)
EXTENDS Hashmap, OrderLemmas, FiniteSetTheorems

Good(tab) == TableType(tab) /\ tab.count = Cardinality(Used(tab))

\* The table with the entries of D made tombstones.
Bury(tab, D) ==
    [tab EXCEPT !.entries =
        [s \in DOMAIN tab.entries |-> IF s \in D THEN Tombstone ELSE tab.entries[s]]]

SafeLoad(tab) == /\ 4 * tab.count <= 3 * tab.capacity
                 /\ tab.capacity = 0 \/ tab.capacity >= MinCapacity
-----------------------------------------------------------------------------
(* Arithmetic of the probe. *)

\* What is left of q*n + r after division by n is r.
LEMMA ModUnique ==
    ASSUME NEW q \in Nat, NEW n \in Nat \ {0}, NEW r \in 0 .. n - 1
    PROVE  (n * q + r) % n = r
  OBVIOUS

\* Walking d slots from h % n wraps around at most once.
LEMMA ModPlus ==
    ASSUME NEW h \in Nat, NEW n \in Nat \ {0}, NEW d \in 0 .. n - 1
    PROVE  (h + d) % n = IF (h % n) + d < n THEN (h % n) + d ELSE (h % n) + d - n
<1> DEFINE q == h \div n
           r == h % n
<1>1. h = n * q + r /\ q \in Nat /\ r \in 0 .. n - 1
  OBVIOUS
<1>2. CASE r + d < n
  <2>1. h + d = n * q + (r + d) BY <1>1
  <2>2. r + d \in 0 .. n - 1 BY <1>1, <1>2
  <2>3. (n * q + (r + d)) % n = r + d BY <1>1, <2>2, ModUnique
  <2> QED BY <1>2, <2>1, <2>3
<1>3. CASE r + d >= n
  <2>1. h + d = n * (q + 1) + (r + d - n) BY <1>1
  <2>2. r + d - n \in 0 .. n - 1 /\ q + 1 \in Nat BY <1>1, <1>3
  <2>3. (n * (q + 1) + (r + d - n)) % n = r + d - n
    <3> HIDE DEF q, r
    <3> QED BY <2>2, ModUnique
  <2>4. ~ (r + d < n) BY <1>1, <1>3
  <2> QED BY <2>1, <2>3, <2>4
<1> QED BY <1>1, <1>2, <1>3

\* A probe passes every slot.
LEMMA EverySlotProbed ==
    ASSUME NEW h \in Nat, NEW n \in Nat \ {0}, NEW s \in Slots(n)
    PROVE  \E d \in Slots(n) : ProbeSlot(h, n, d) = s
<1> DEFINE r == h % n
<1>1. r \in 0 .. n - 1
  OBVIOUS
<1>2. CASE r <= s
  <2>1. s - r \in 0 .. n - 1 BY <1>1, <1>2 DEF Slots
  <2>2. (h + (s - r)) % n = s
    <3>1. (h + (s - r)) % n = IF r + (s - r) < n THEN r + (s - r) ELSE r + (s - r) - n
      BY <2>1, ModPlus
    <3> HIDE DEF r
    <3> QED BY <3>1, <1>1, <2>1 DEF Slots
  <2> QED BY <2>1, <2>2 DEF Slots, ProbeSlot
<1>3. CASE s < r
  <2>1. s + n - r \in 0 .. n - 1 BY <1>1, <1>3 DEF Slots
  <2>2. (h + (s + n - r)) % n = s
    <3>1. (h + (s + n - r)) % n = IF r + (s + n - r) < n THEN r + (s + n - r)
                                  ELSE r + (s + n - r) - n
      BY <2>1, ModPlus
    <3> HIDE DEF r
    <3> QED BY <3>1, <1>1, <2>1 DEF Slots
  <2> QED BY <2>1, <2>2 DEF Slots, ProbeSlot
<1> QED BY <1>1, <1>2, <1>3 DEF Slots

\* A probe never leaves the table.
LEMMA ProbeSlotInTable ==
    ASSUME NEW h \in Nat, NEW n \in Nat \ {0}, NEW d \in Slots(n)
    PROVE  ProbeSlot(h, n, d) \in Slots(n)
<1>1. h + d \in Nat BY DEF Slots
<1> QED BY <1>1 DEF Slots, ProbeSlot
-----------------------------------------------------------------------------
(* One table. *)

\* A table has as many slots as its capacity.
LEMMA SlotsFinite ==
    ASSUME NEW n \in Nat
    PROVE  IsFiniteSet(Slots(n)) /\ Cardinality(Slots(n)) = n
<1>1. 0 \in Int /\ n - 1 \in Int OBVIOUS
<1>2. /\ IsFiniteSet(0 .. n - 1)
      /\ Cardinality(0 .. n - 1) = IF 0 > n - 1 THEN 0 ELSE n - 1 - 0 + 1
  BY <1>1, FS_Interval
<1> QED BY <1>2 DEF Slots

\* The used entries of a table are finitely many, its capacity at most.
LEMMA UsedFinite ==
    ASSUME NEW tab, TableType(tab)
    PROVE  /\ IsFiniteSet(Used(tab)) /\ Cardinality(Used(tab)) \in Nat
           /\ Cardinality(Used(tab)) <= tab.capacity
           /\ Cardinality(Used(tab)) = tab.capacity => Used(tab) = Slots(tab.capacity)
<1>1. tab.capacity \in Nat BY DEF TableType
<1>2. Used(tab) \in SUBSET Slots(tab.capacity) BY DEF Used
<1> QED BY <1>1, <1>2, SlotsFinite, FS_Subset, FS_CardinalityType

\* A table that is not full has an entry at which any probe stops.
LEMMA EmptyStops ==
    ASSUME NEW tab, Good(tab), tab.count < tab.capacity, NEW h \in Nat, NEW wanted
    PROVE  Stops(tab, h, wanted) # {}
<1>1. tab.capacity \in Nat \ {0} /\ tab.count \in Nat BY DEF Good, TableType
<1>2. Used(tab) # Slots(tab.capacity)
  BY <1>1, SlotsFinite DEF Good
<1>3. PICK s \in Slots(tab.capacity) : tab.entries[s] = Empty
  BY <1>2 DEF Used
<1>4. PICK d \in Slots(tab.capacity) : ProbeSlot(h, tab.capacity, d) = s
  BY <1>1, <1>3, EverySlotProbed
<1>5. d \in Stops(tab, h, wanted) BY <1>3, <1>4 DEF Stops
<1> QED BY <1>5

\* find_entry returns a slot of the table, which holds the key or is unused.
LEMMA FindEntrySlot ==
    ASSUME TableConstants, NEW tab, Good(tab), tab.count < tab.capacity, NEW k \in Keys
    PROVE  /\ FindEntry(tab, k) \in Slots(tab.capacity)
           /\ tab.entries[FindEntry(tab, k)].k \in {k, NoKey}
<1> DEFINE n       == tab.capacity
           slot(d) == ProbeSlot(HashOf(k), n, d)
           stops   == Stops(tab, HashOf(k), {k})
           end     == Min(stops)
           graves  == {d \in 0 .. end - 1 : tab.entries[slot(d)].k = NoKey}
<1>1. HashOf(k) \in Nat BY DEF TableConstants, HashOf
<1>2. n \in Nat \ {0} BY DEF Good, TableType
<1>3. stops # {} BY <1>1, EmptyStops
<1>4. stops \subseteq Slots(n) BY DEF Stops
<1>5. end \in stops BY <1>3, <1>4, MinIs DEF Slots
<1>6. slot(end) \in Slots(n) /\ tab.entries[slot(end)].k \in {k, NoKey}
  BY <1>1, <1>2, <1>4, <1>5, ProbeSlotInTable DEF Stops, Empty
<1>7. ASSUME graves # {}
      PROVE  slot(Min(graves)) \in Slots(n) /\ tab.entries[slot(Min(graves))].k = NoKey
  <2>1. end \in 0 .. n - 1 BY <1>4, <1>5 DEF Slots
  <2>2. graves \subseteq Slots(n) BY <2>1, <1>2 DEF Slots
  <2>3. graves \subseteq Nat BY <2>2 DEF Slots
  <2>4. Min(graves) \in graves
    <3> HIDE DEF graves
    <3> QED BY <2>3, <1>7, MinIs
  <2> HIDE DEF end
  <2> QED BY <2>2, <2>4, <1>1, <1>2, ProbeSlotInTable
<1>8. FindEntry(tab, k) = IF tab.entries[slot(end)].k # k /\ graves # {}
                          THEN slot(Min(graves)) ELSE slot(end)
  BY DEF FindEntry
<1> HIDE DEF end, graves, slot, n
<1> QED BY <1>6, <1>7, <1>8 DEF n

\* What a store changes of the table.
LEMMA PutIs ==
    ASSUME NEW tab, Good(tab), NEW k, NEW v
    PROVE  Put(tab, k, v) =
              [count |-> IF tab.entries[FindEntry(tab, k)] = Empty THEN tab.count + 1 ELSE tab.count,
               capacity |-> tab.capacity,
               entries |-> [tab.entries EXCEPT ![FindEntry(tab, k)] = [k |-> k, v |-> v]]]
<1> DEFINE s   == FindEntry(tab, k)
           new == [k |-> k, v |-> v]
           c   == IF tab.entries[s] = Empty THEN tab.count + 1 ELSE tab.count
           put == Put(tab, k, v)
<1>1. PICK a, b, f : tab = [count |-> a, capacity |-> b, entries |-> f]
  BY DEF Good, TableType
<1> HIDE DEF s
<1>2. put = [tab EXCEPT !.count = c, !.entries[s] = new] BY DEF Put, s
<1>3. put = [count |-> c, capacity |-> tab.capacity, entries |-> [tab.entries EXCEPT ![s] = new]]
  <2> HIDE DEF c, new, put
  <2> QED BY <1>1, <1>2
<1> QED BY <1>3 DEF s

\* Storing an entry keeps a table good, and counts it once.
LEMMA PutGood ==
    ASSUME TableConstants, NEW tab, Good(tab), tab.count < tab.capacity,
           NEW k \in Keys, NEW v \in Values
    PROVE  /\ Good(Put(tab, k, v)) /\ Put(tab, k, v).capacity = tab.capacity
           /\ tab.count <= Put(tab, k, v).count /\ Put(tab, k, v).count <= tab.count + 1
<1> DEFINE s   == FindEntry(tab, k)
           new == [k |-> k, v |-> v]
           c   == IF tab.entries[s] = Empty THEN tab.count + 1 ELSE tab.count
           put == Put(tab, k, v)
<1>1. s \in Slots(tab.capacity) BY FindEntrySlot
<1>2. new # Empty /\ new.k # NoKey BY DEF TableConstants, Empty
<1>3. put = [count |-> c, capacity |-> tab.capacity, entries |-> [tab.entries EXCEPT ![s] = new]]
  BY PutIs
<1> HIDE DEF put, s
<1>4. TableType(put)
  BY <1>1, <1>2, <1>3 DEF Good, TableType
<1>5. Used(put) = Used(tab) \cup {s}
  BY <1>1, <1>2, <1>3 DEF Used, Good, TableType
<1>6. s \in Used(tab) <=> tab.entries[s] # Empty BY <1>1 DEF Used
<1>7. c = Cardinality(Used(put))
  BY <1>5, <1>6, UsedFinite, FS_AddElement DEF Good
<1>8. tab.count \in Nat BY DEF Good, TableType
<1> QED BY <1>3, <1>4, <1>7, <1>8 DEF Good, put

\* Writing a tombstone over entries in use changes neither type nor count.
LEMMA BuryGood ==
    ASSUME TableConstants, NEW tab, Good(tab), NEW D \in SUBSET Used(tab)
    PROVE  Good(Bury(tab, D)) /\ Bury(tab, D).capacity = tab.capacity
           /\ Bury(tab, D).count = tab.count
<1> DEFINE es     == [s \in Slots(tab.capacity) |-> IF s \in D THEN Tombstone ELSE tab.entries[s]]
           buried == [count |-> tab.count, capacity |-> tab.capacity, entries |-> es]
<1>1. Bury(tab, D) = buried
  BY DEF Bury, Good, TableType
<1>2. Tombstone # Empty /\ Tombstone \in [k : Keys \cup {NoKey}, v : Values]
  BY DEF Tombstone, Empty, TableConstants
<1>3. TableType(buried)
  BY <1>2 DEF Good, TableType
<1>4. Used(buried) = Used(tab)
  BY <1>2 DEF Used
<1> QED BY <1>1, <1>3, <1>4 DEF Good

\* hashmap_delete writes a tombstone over the entry it finds.
LEMMA RemoveIs ==
    ASSUME TableConstants, NEW tab, Good(tab), SafeLoad(tab), NEW k \in Keys,
           Lookup(tab, k) # Missing
    PROVE  /\ Remove(tab, k) = Bury(tab, {FindEntry(tab, k)})
           /\ FindEntry(tab, k) \in Used(tab) /\ tab.count < tab.capacity
<1> DEFINE s == FindEntry(tab, k)
<1>1. tab.count # 0 /\ tab.entries[s].k # NoKey BY DEF Lookup, IsNewKey
<1>2. tab.count < tab.capacity BY <1>1 DEF Good, TableType, SafeLoad
<1>3. s \in Used(tab) BY <1>1, <1>2, FindEntrySlot DEF Used, Empty
<1>4. Remove(tab, k) = [tab EXCEPT !.entries[s] = Tombstone] BY DEF Remove
<1>5. PICK a, b, f : tab = [count |-> a, capacity |-> b, entries |-> f]
  BY DEF Good, TableType
<1>6. Remove(tab, k) = Bury(tab, {s})
  <2> HIDE DEF s
  <2> QED BY <1>4, <1>5 DEF Bury
<1> QED BY <1>2, <1>3, <1>6

\* hashmap_delete keeps a table good, its capacity and its count.
LEMMA RemoveGood ==
    ASSUME TableConstants, NEW tab, Good(tab), SafeLoad(tab), NEW k \in Keys
    PROVE  /\ Good(Remove(tab, k)) /\ Remove(tab, k).capacity = tab.capacity
           /\ Remove(tab, k).count = tab.count
<1>1. CASE Lookup(tab, k) = Missing BY <1>1 DEF Remove
<1>2. CASE Lookup(tab, k) # Missing
  <2> DEFINE D == {FindEntry(tab, k)}
  <2>1. D \in SUBSET Used(tab) /\ Remove(tab, k) = Bury(tab, D) BY <1>2, RemoveIs
  <2> HIDE DEF D
  <2> QED BY <2>1, BuryGood
<1> QED BY <1>1, <1>2

\* What a sweep buries are entries in use.
LEMMA SweepIs ==
    ASSUME TableConstants, NEW tab, Good(tab), NEW dead \in SUBSET Keys
    PROVE  LET D == {s \in Slots(tab.capacity) : tab.entries[s].k \in dead} IN
           D \in SUBSET Used(tab) /\ Sweep(tab, dead) = Bury(tab, D)
<1> DEFINE D == {s \in Slots(tab.capacity) : tab.entries[s].k \in dead}
<1>1. D \in SUBSET Used(tab) BY DEF Used, Empty, TableConstants
<1>2. Sweep(tab, dead) = Bury(tab, D)
  BY DEF Sweep, Bury, Good, TableType
<1> QED BY <1>1, <1>2

\* A sweep of the intern table keeps it good, its capacity and its count.
LEMMA SweepGood ==
    ASSUME TableConstants, NEW tab, Good(tab), NEW dead \in SUBSET Keys
    PROVE  /\ Good(Sweep(tab, dead)) /\ Sweep(tab, dead).capacity = tab.capacity
           /\ Sweep(tab, dead).count = tab.count
<1> DEFINE D == {s \in Slots(tab.capacity) : tab.entries[s].k \in dead}
<1>1. D \in SUBSET Used(tab) /\ Sweep(tab, dead) = Bury(tab, D) BY SweepIs
<1> HIDE DEF D
<1> QED BY <1>1, BuryGood

\* adjust_capacity's new table is empty.
LEMMA NewTableGood ==
    ASSUME TableConstants, NEW n \in Nat
    PROVE  Good(NewTable(n)) /\ NewTable(n).count = 0 /\ NewTable(n).capacity = n
<1>1. Empty \in [k : Keys \cup {NoKey}, v : Values] BY DEF Empty, TableConstants
<1>2. TableType(NewTable(n)) BY <1>1 DEF NewTable, TableType, Empty
<1>3. Used(NewTable(n)) = {} BY DEF Used, NewTable
<1> QED BY <1>2, <1>3, FS_EmptySet DEF Good, NewTable
-----------------------------------------------------------------------------
(***************************************************************************)
(* ProbeInv is inductive. It is split into what it says of the tables, of  *)
(* the variables of the running call, and of the two together; an action   *)
(* disturbs only some of the parts.                                        *)
(***************************************************************************)
TablesGood == /\ tables = [t \in Tables |-> tables[t]]
              /\ \A t \in Tables : Good(tables[t]) /\ SafeLoad(tables[t])
              /\ Good(fresh)

CallType == /\ pc \in {"idle", "grow", "rehash", "store", "copy"}
            /\ args \in [op : {"none", "intern", "set", "assign", "copy"},
                         t : Tables, k : Keys \cup {NoKey}, v : Values]
            /\ i \in Nat
            /\ copy \in [from : Tables, to : Tables, j : Nat]

Parts == TablesGood /\ CallType /\ RoomForSet /\ CopyInRange

\* The parts say what ProbeInv says.
LEMMA ProbeInvParts == ProbeInv <=> Parts
<1>1. ProbeInv => Parts
  BY DEF ProbeInv, TypeOK, CountIsUsedEntries, LoadBounded, AllTables,
         Parts, TablesGood, CallType, Good, SafeLoad
<1>2. Parts => ProbeInv
  BY DEF ProbeInv, TypeOK, CountIsUsedEntries, LoadBounded, AllTables,
         Parts, TablesGood, CallType, Good, SafeLoad
<1> QED BY <1>1, <1>2

\* The keys of a table are string objects.
LEMMA KeysInKeys ==
    ASSUME NEW tab, Good(tab)
    PROVE  KeysIn(tab) \subseteq Keys
  BY DEF Good, TableType, KeysIn

\* What may be collected are string objects.
LEMMA CollectableKeys ==
    ASSUME TableConstants, Parts
    PROVE  Interned \subseteq Keys /\ Collectable \subseteq Keys
<1>1. \A t \in Tables : KeysIn(tables[t]) \subseteq Keys
  BY KeysInKeys DEF Parts, TablesGood
<1> QED BY <1>1 DEF Interned, Collectable, TableConstants

\* A growing table gets larger, and takes the set that made it grow even when
\* every entry of the old one is in use.
LEMMA GrowRoom ==
    ASSUME TableConstants, NEW n \in Nat, n = 0 \/ n >= MinCapacity
    PROVE  /\ Grow(n) \in Nat /\ Grow(n) > n /\ Grow(n) >= MinCapacity
           /\ 4 * (n + 1) <= 3 * Grow(n)
  BY DEF Grow, TableConstants

\* The start of a hashmap_set.
LEMMA EnterSetParts ==
    ASSUME TableConstants, Parts, pc # "rehash",
           NEW op \in {"intern", "set", "assign", "copy"}, NEW t \in Tables, NEW k \in Keys,
           NEW v \in Values, EnterSet(op, t, k, v),
           copy' \in [from : Tables, to : Tables, j : Nat],
           copy'.j <= tables[copy'.from].capacity
    PROVE  Parts'
<1>1. TablesGood'
  <2>1. UNCHANGED <<tables, fresh>> BY DEF EnterSet
  <2> QED BY <2>1 DEF Parts, TablesGood
<1>2. CallType' BY DEF Parts, CallType, EnterSet
<1>3. RoomForSet'
  <2>1. fresh.capacity = 0 BY DEF Parts, RoomForSet
  <2>2. /\ fresh' = fresh /\ tables' = tables /\ args'.k \in Keys /\ args'.t = t
        /\ pc' = IF Overloaded(tables[t]) THEN "grow" ELSE "store"
    BY DEF EnterSet
  <2>3. pc' # "rehash" /\ fresh'.capacity = 0 BY <2>1, <2>2
  <2>4. pc' = "store" => ~ Overloaded(tables'[args'.t]) BY <2>2
  <2> QED BY <2>2, <2>3, <2>4 DEF RoomForSet
<1>4. CopyInRange' BY DEF CopyInRange, EnterSet
<1> QED BY <1>1, <1>2, <1>3, <1>4 DEF Parts

\* What the last call answered does not matter to the invariant.
LEMMA AnswerParts ==
    ASSUME Parts, UNCHANGED <<tables, pc, args, fresh, i, copy>>
    PROVE  Parts'
<1>1. TablesGood' BY DEF Parts, TablesGood
<1>2. CallType' BY DEF Parts, CallType
<1>3. RoomForSet' BY DEF Parts, RoomForSet
<1>4. CopyInRange' BY DEF Parts, CopyInRange
<1> QED BY <1>1, <1>2, <1>3, <1>4 DEF Parts

\* Interning a string finds it or enters hashmap_set.
LEMMA InternParts ==
    ASSUME TableConstants, Parts, NEW k \in Keys, Intern(k)
    PROVE  Parts'
<1>1. CASE UNCHANGED <<tables, pc, args, fresh, i, copy>>
  BY <1>1, AnswerParts
<1>2. CASE EnterSet("intern", Strings, k, Null) /\ UNCHANGED copy
  <2>1. Null \in Values /\ Strings \in Tables BY DEF TableConstants
  <2>2. pc # "rehash" BY DEF Intern
  <2> QED BY <1>2, <2>1, <2>2, EnterSetParts DEF Parts, CallType, CopyInRange
<1> QED BY <1>1, <1>2 DEF Intern

\* A hashmap_set that begins (hashmap.c:62) keeps the invariant.
LEMMA StartSetParts ==
    ASSUME TableConstants, Parts, NEW op \in {"set", "assign"}, NEW t \in Tables,
           NEW k \in Keys, NEW v \in Values, StartSet(op, t, k, v)
    PROVE  Parts'
<1>1. pc # "rehash" /\ EnterSet(op, t, k, v) /\ UNCHANGED copy BY DEF StartSet
<1> QED BY <1>1, EnterSetParts DEF Parts, CallType, CopyInRange

\* hashmap_copy_all begins its loop (hashmap.c:94), which stores nothing yet.
LEMMA StartCopyParts ==
    ASSUME TableConstants, Parts, NEW from \in Tables, NEW to \in Tables, StartCopy(from, to)
    PROVE  Parts'
<1>1. TablesGood' BY DEF Parts, TablesGood, StartCopy, Good, TableType, Used
<1>2. CallType' BY DEF Parts, CallType, StartCopy
<1>3. RoomForSet' BY DEF Parts, CallType, RoomForSet, StartCopy, Overloaded
<1>4. CopyInRange' BY DEF Parts, TablesGood, Good, TableType, CopyInRange, StartCopy
<1> QED BY <1>1, <1>2, <1>3, <1>4 DEF Parts

\* Each turn of hashmap_copy_all skips a slot or begins a set of its entry.
LEMMA CopyEntryParts ==
    ASSUME TableConstants, Parts, CopyEntry
    PROVE  Parts'
<1> DEFINE from == tables[copy.from]
           e    == from.entries[copy.j]
<1>1. CASE copy' = NoCopy /\ pc' = "idle" /\ UNCHANGED <<tables, args, fresh, i, ret>>
  <2>1. TablesGood' BY <1>1 DEF Parts, TablesGood, Good, TableType, Used
  <2>2. CallType' BY <1>1 DEF Parts, CallType, NoCopy, TableConstants
  <2>3. RoomForSet' BY <1>1 DEF Parts, CallType, RoomForSet, CopyEntry
  <2>4. CopyInRange' BY <1>1 DEF Parts, TablesGood, Good, TableType, CopyInRange, NoCopy, TableConstants
  <2> QED BY <2>1, <2>2, <2>3, <2>4 DEF Parts
<1>2. CASE copy.j # from.capacity /\ copy' = [copy EXCEPT !.j = @ + 1]
  <2>1. /\ copy' \in [from : Tables, to : Tables, j : Nat]
        /\ copy'.from = copy.from /\ copy'.j = copy.j + 1
    BY <1>2 DEF Parts, CallType
  <2>2. from.capacity \in Nat /\ copy.j \in Slots(from.capacity)
    BY <1>2 DEF Parts, CallType, TablesGood, Good, TableType, CopyInRange, Slots
  <2>3. copy'.j <= tables[copy'.from].capacity
    BY <2>1, <2>2 DEF Slots
  <2>4. CASE e.k # NoKey /\ EnterSet("copy", copy.to, e.k, e.v)
    <3>1. e.k \in Keys /\ e.v \in Values /\ copy.to \in Tables
      BY <2>2, <2>4 DEF Parts, CallType, TablesGood, Good, TableType
    <3>2. pc # "rehash" BY DEF CopyEntry
    <3> QED BY <2>1, <2>3, <2>4, <3>1, <3>2, EnterSetParts
  <2>5. CASE UNCHANGED <<tables, pc, args, fresh, i, ret>>
    <3>1. TablesGood' BY <2>5 DEF Parts, TablesGood, Good, TableType, Used
    <3>2. CallType' BY <2>1, <2>5 DEF Parts, CallType
    <3>3. RoomForSet' BY <2>5 DEF Parts, CallType, RoomForSet, CopyEntry
    <3>4. CopyInRange' BY <2>3, <2>5 DEF CopyInRange
    <3> QED BY <3>1, <3>2, <3>3, <3>4 DEF Parts
  <2> QED BY <1>2, <2>4, <2>5 DEF CopyEntry
<1> QED BY <1>1, <1>2 DEF CopyEntry

\* Deleting, sweeping: a table is replaced by one of its capacity and count.
LEMMA SameLoadParts ==
    ASSUME Parts, pc = "idle", NEW t \in Tables, NEW tab, Good(tab),
           tab.capacity = tables[t].capacity, tab.count = tables[t].count,
           tables' = [tables EXCEPT ![t] = tab],
           UNCHANGED <<pc, args, fresh, i, copy>>
    PROVE  Parts'
<1>1. /\ tables' = [u \in Tables |-> tables'[u]]
      /\ \A u \in Tables : tables'[u] = IF u = t THEN tab ELSE tables[u]
  BY DEF Parts, TablesGood
<1>2. TablesGood' BY <1>1 DEF Parts, TablesGood, SafeLoad
<1>3. CallType' BY DEF Parts, CallType
<1>4. RoomForSet' BY DEF Parts, RoomForSet
<1>5. CopyInRange' BY <1>1 DEF Parts, CallType, CopyInRange
<1> QED BY <1>2, <1>3, <1>4, <1>5 DEF Parts

\* hashmap_delete (hashmap.c:84) keeps the invariant.
LEMMA DeleteParts ==
    ASSUME TableConstants, Parts, NEW t \in Tables, NEW k \in Keys, Delete(t, k)
    PROVE  Parts'
<1>1. tables' = [tables EXCEPT ![t] = Remove(tables[t], k)] /\ pc = "idle"
      /\ UNCHANGED <<pc, args, fresh, i, copy>>
  BY DEF Delete, Parts, TablesGood
<1>2. Good(tables[t]) /\ SafeLoad(tables[t]) BY DEF Parts, TablesGood
<1> QED BY <1>1, <1>2, RemoveGood, SameLoadParts

\* A collection between calls sweeps the intern table and keeps the invariant.
LEMMA CollectParts ==
    ASSUME TableConstants, Parts, NEW dead \in SUBSET Collectable, Collect(dead)
    PROVE  Parts'
<1>1. tables' = [tables EXCEPT ![Strings] = Sweep(tables[Strings], dead)] /\ pc = "idle"
      /\ UNCHANGED <<pc, args, fresh, i, copy>>
  BY DEF Collect, Parts, TablesGood
<1>2. Good(tables[Strings]) /\ Strings \in Tables BY DEF Parts, TablesGood, TableConstants
<1>3. dead \in SUBSET Keys BY CollectableKeys
<1> QED BY <1>1, <1>2, <1>3, SweepGood, SameLoadParts

\* adjust_capacity: the allocation may sweep the intern table, which may be the
\* table that grows.
LEMMA AllocateParts ==
    ASSUME TableConstants, Parts, NEW dead \in SUBSET Collectable, Allocate(dead)
    PROVE  Parts'
<1> DEFINE swept == Sweep(tables[Strings], dead)
           t     == args.t
<1>1. Good(tables[Strings]) /\ Strings \in Tables /\ t \in Tables
  BY DEF Parts, TablesGood, CallType, TableConstants
<1>2. dead \in SUBSET Keys BY CollectableKeys
<1>3. Good(swept) /\ swept.capacity = tables[Strings].capacity
      /\ swept.count = tables[Strings].count
  BY <1>1, <1>2, SweepGood
<1>4. tables' = [tables EXCEPT ![Strings] = swept]
  BY DEF Allocate, Parts, TablesGood
<1>5. /\ fresh' = NewTable(Grow(tables[t].capacity)) /\ i' = 0 /\ pc' = "rehash"
      /\ UNCHANGED <<args, copy>> /\ pc = "grow"
  BY DEF Allocate
<1> HIDE DEF swept
<1>6. /\ tables' = [u \in Tables |-> tables'[u]]
      /\ \A u \in Tables : tables'[u] = IF u = Strings THEN swept ELSE tables[u]
  BY <1>4 DEF Parts, TablesGood
<1>7. \A u \in Tables : /\ tables'[u].capacity = tables[u].capacity
                        /\ Good(tables'[u]) /\ SafeLoad(tables'[u])
  BY <1>3, <1>6 DEF Parts, TablesGood, SafeLoad
<1>8. tables[t].capacity \in Nat /\ (tables[t].capacity = 0 \/ tables[t].capacity >= MinCapacity)
  BY <1>1 DEF Parts, TablesGood, SafeLoad, Good, TableType
<1>9. /\ Good(fresh') /\ fresh'.count = 0 /\ fresh'.capacity = Grow(tables[t].capacity)
  BY <1>5, <1>8, GrowRoom, NewTableGood
<1>10. TablesGood' BY <1>6, <1>7, <1>9 DEF TablesGood
<1>11. CallType' BY <1>5 DEF Parts, CallType
<1>12. RoomForSet'
  <2>1. args'.k \in Keys BY <1>5 DEF Parts, RoomForSet
  <2>2. args'.t = t /\ tables'[t].capacity = tables[t].capacity BY <1>1, <1>5, <1>7
  <2> QED BY <1>5, <1>8, <1>9, <2>1, <2>2 DEF RoomForSet
<1>13. CopyInRange'
  BY <1>5, <1>7 DEF Parts, CallType, CopyInRange
<1> QED BY <1>10, <1>11, <1>12, <1>13 DEF Parts

\* A turn of its loop: the new table has room, since it is larger than the old
\* one and takes at most one entry per slot of it.
LEMMA RehashParts ==
    ASSUME TableConstants, Parts, Rehash
    PROVE  Parts'
<1> DEFINE t == args.t
           n == tables[t].capacity
           e == tables[t].entries[i]
<1>1. t \in Tables /\ Good(tables[t]) /\ Good(fresh)
  BY DEF Parts, TablesGood, CallType
<1>2. n \in Nat /\ i \in Slots(n) /\ i \in Nat /\ (n = 0 \/ n >= MinCapacity)
  BY <1>1 DEF Parts, TablesGood, CallType, Good, TableType, SafeLoad, Rehash, Slots
<1>3. /\ pc = "rehash" /\ fresh' = IF e.k = NoKey THEN fresh ELSE Put(fresh, e.k, e.v)
      /\ i' = i + 1 /\ UNCHANGED <<tables, pc, args, copy>>
  BY DEF Rehash
<1>4. fresh.capacity = Grow(n) /\ fresh.count <= i BY <1>3 DEF Parts, RoomForSet
<1>5. fresh.count < fresh.capacity
  BY <1>1, <1>2, <1>4, GrowRoom DEF Good, TableType, Slots
<1>6. Good(fresh') /\ fresh'.capacity = fresh.capacity /\ fresh'.count <= fresh.count + 1
  <2>1. CASE e.k = NoKey BY <1>1, <1>3, <2>1 DEF Good, TableType
  <2>2. CASE e.k # NoKey
    <3>1. e.k \in Keys /\ e.v \in Values BY <1>1, <1>2, <2>2 DEF Good, TableType
    <3>2. fresh' = Put(fresh, e.k, e.v) BY <1>3, <2>2
    <3> HIDE DEF e
    <3> QED BY <1>1, <1>5, <3>1, <3>2, PutGood
  <2> QED BY <2>1, <2>2
<1>7. TablesGood' BY <1>3, <1>6 DEF Parts, TablesGood
<1>8. CallType' BY <1>3 DEF Parts, CallType
<1>9. RoomForSet'
  <2>1. fresh.count \in Nat /\ fresh'.count \in Nat BY <1>1, <1>6 DEF Good, TableType
  <2>2. fresh'.count <= i' /\ i' <= n BY <1>2, <1>3, <1>4, <1>6, <2>1 DEF Slots
  <2>3. args'.k \in Keys BY <1>3 DEF Parts, RoomForSet
  <2> HIDE DEF e
  <2> QED BY <1>3, <1>4, <1>6, <2>2, <2>3 DEF RoomForSet
<1>10. CopyInRange' BY <1>3 DEF Parts, CopyInRange
<1> QED BY <1>7, <1>8, <1>9, <1>10 DEF Parts

\* Its end: the table that grew has room for the entry being set.
LEMMA InstallParts ==
    ASSUME TableConstants, Parts, Install
    PROVE  Parts'
<1> DEFINE t == args.t
           n == tables[t].capacity
<1>1. t \in Tables /\ Good(tables[t]) /\ Good(fresh)
  BY DEF Parts, TablesGood, CallType
<1>2. n \in Nat /\ (n = 0 \/ n >= MinCapacity)
  BY <1>1 DEF Parts, TablesGood, Good, TableType, SafeLoad
<1>3. /\ pc = "rehash" /\ i = n /\ tables' = [tables EXCEPT ![t] = fresh]
      /\ fresh' = NewTable(0) /\ i' = 0 /\ pc' = "store" /\ UNCHANGED <<args, copy>>
  BY DEF Install
<1>4. fresh.capacity = Grow(n) /\ fresh.count <= n /\ args.k \in Keys
  BY <1>3 DEF Parts, RoomForSet
<1>5. /\ fresh.count \in Nat
      /\ Grow(n) \in Nat /\ Grow(n) > n /\ Grow(n) >= MinCapacity /\ 4 * (n + 1) <= 3 * Grow(n)
  BY <1>1, <1>2, GrowRoom DEF Good, TableType
<1>6. 4 * (fresh.count + 1) <= 3 * fresh.capacity
  BY <1>2, <1>4, <1>5
<1>7. SafeLoad(fresh) /\ ~ Overloaded(fresh)
  BY <1>2, <1>4, <1>5, <1>6 DEF SafeLoad, Overloaded
<1>8. /\ tables' = [u \in Tables |-> tables'[u]]
      /\ \A u \in Tables : tables'[u] = IF u = t THEN fresh ELSE tables[u]
  BY <1>3 DEF Parts, TablesGood
<1>9. Good(fresh') /\ fresh'.capacity = 0 BY <1>3, NewTableGood
<1>10. TablesGood' BY <1>1, <1>7, <1>8, <1>9 DEF Parts, TablesGood
<1>11. CallType' BY <1>3 DEF Parts, CallType
<1>12. RoomForSet'
  <2>1. args' = args /\ tables'[t] = fresh BY <1>1, <1>3, <1>8
  <2> QED BY <1>3, <1>4, <1>7, <1>9, <2>1 DEF RoomForSet
<1>13. CopyInRange'
  <2>1. copy.j \in Nat /\ copy.from \in Tables /\ copy' = copy
        /\ copy.j <= tables[copy.from].capacity
    BY <1>3 DEF Parts, CallType, CopyInRange
  <2>2. CASE copy.from = t
    <3>1. tables'[copy.from].capacity = Grow(n) /\ copy.j <= n BY <1>1, <1>4, <1>8, <2>1, <2>2
    <3> HIDE DEF n, t
    <3> QED BY <1>2, <1>5, <2>1, <3>1 DEF CopyInRange
  <2>3. CASE copy.from # t
    <3>1. tables'[copy.from] = tables[copy.from] BY <1>8, <2>1, <2>3
    <3> QED BY <2>1, <3>1 DEF CopyInRange
  <2> QED BY <2>2, <2>3
<1> QED BY <1>10, <1>11, <1>12, <1>13 DEF Parts

\* The end of hashmap_set, with the deletion of a global it should not have made.
LEMMA StoreParts ==
    ASSUME TableConstants, Parts, Store
    PROVE  Parts'
<1> DEFINE t   == args.t
           put == Put(tables[t], args.k, args.v)
           tab == tables'[t]
<1>1. t \in Tables /\ Good(tables[t]) /\ SafeLoad(tables[t]) /\ args.v \in Values
  BY DEF Parts, TablesGood, CallType
<1>2. /\ pc = "store" /\ args' = NoArgs /\ UNCHANGED <<fresh, i, copy>>
      /\ pc' \in {"copy", "idle"}
  BY DEF Store
<1>3. args.k \in Keys /\ ~ Overloaded(tables[t]) /\ fresh.capacity = 0
  BY <1>2 DEF Parts, RoomForSet
<1>4. /\ tables[t].count \in Nat /\ tables[t].capacity \in Nat
      /\ 4 * (tables[t].count + 1) <= 3 * tables[t].capacity
      /\ tables[t].count < tables[t].capacity
  BY <1>1, <1>3 DEF Good, TableType, Overloaded
<1>5. /\ Good(put) /\ put.capacity = tables[t].capacity
      /\ tables[t].count <= put.count /\ put.count <= tables[t].count + 1
  BY <1>1, <1>3, <1>4, PutGood
<1>6. SafeLoad(put)
  <2>1. put.count \in Nat BY <1>5 DEF Good, TableType
  <2> HIDE DEF put
  <2> QED BY <1>1, <1>4, <1>5, <2>1 DEF SafeLoad
<1>7. tables' \in {[tables EXCEPT ![t] = put], [tables EXCEPT ![t] = Remove(put, args.k)]}
  BY DEF Store
<1>8. PICK new \in {put, Remove(put, args.k)} : tables' = [tables EXCEPT ![t] = new]
  BY <1>7
<1> HIDE DEF put
<1>9. Good(new) /\ SafeLoad(new) /\ new.capacity = tables[t].capacity
  BY <1>3, <1>5, <1>6, <1>8, RemoveGood DEF SafeLoad
<1>10. /\ tables' = [u \in Tables |-> tables'[u]]
       /\ \A u \in Tables : tables'[u] = IF u = t THEN new ELSE tables[u]
  BY <1>8 DEF Parts, TablesGood
<1>11. TablesGood' BY <1>2, <1>9, <1>10 DEF Parts, TablesGood
<1>12. CallType' BY <1>2 DEF Parts, CallType, NoArgs, TableConstants
<1>13. RoomForSet' BY <1>2, <1>3 DEF RoomForSet
<1>14. CopyInRange' BY <1>2, <1>9, <1>10 DEF Parts, CallType, CopyInRange
<1> QED BY <1>11, <1>12, <1>13, <1>14 DEF Parts
-----------------------------------------------------------------------------
\* The empty tables of a new VM satisfy the invariant.
LEMMA InitParts ==
    ASSUME TableConstants, Init
    PROVE  Parts
<1>1. /\ Good(NewTable(0)) /\ NewTable(0).count = 0 /\ NewTable(0).capacity = 0
  BY NewTableGood
<1>2. TablesGood BY <1>1 DEF Init, TablesGood, SafeLoad
<1>3. CallType BY DEF Init, CallType, NoArgs, NoCopy, TableConstants
<1>4. RoomForSet BY <1>1 DEF Init, RoomForSet
<1>5. CopyInRange
  <2>1. copy.j = 0 /\ copy.from = Strings BY DEF Init, NoCopy
  <2>2. tables[Strings] = NewTable(0) BY DEF Init, TableConstants
  <2> QED BY <1>1, <2>1, <2>2 DEF CopyInRange
<1> QED BY <1>2, <1>3, <1>4, <1>5 DEF Parts

\* Every step of the program keeps it.
LEMMA NextParts ==
    ASSUME TableConstants, Parts, [Next]_vars
    PROVE  Parts'
<1>1. Interned \subseteq Keys BY CollectableKeys
<1>2. ASSUME NEW k \in Keys, Intern(k) PROVE Parts' BY <1>2, InternParts
<1>3. ASSUME NEW t \in Tables \ {Strings}, NEW k \in Interned,
             \/ \E v \in Values, op \in {"set", "assign"} : StartSet(op, t, k, v)
             \/ Get(t, k)
             \/ Delete(t, k)
      PROVE  Parts'
  <2>1. k \in Keys BY <1>1
  <2>2. ASSUME NEW v \in Values, NEW op \in {"set", "assign"}, StartSet(op, t, k, v)
        PROVE  Parts'
    BY <2>1, <2>2, StartSetParts
  <2>3. CASE Get(t, k) BY <2>3, AnswerParts DEF Get
  <2>4. CASE Delete(t, k) BY <2>1, <2>4, DeleteParts
  <2> QED BY <1>3, <2>2, <2>3, <2>4
<1>4. ASSUME NEW from \in Tables \ {Strings}, NEW to \in Tables \ {Strings}, StartCopy(from, to)
      PROVE  Parts'
  BY <1>4, StartCopyParts
<1>5. CASE CopyEntry BY <1>5, CopyEntryParts
<1>6. CASE Rehash BY <1>6, RehashParts
<1>7. CASE Install BY <1>7, InstallParts
<1>8. CASE Store BY <1>8, StoreParts
<1>9. ASSUME NEW dead \in SUBSET Collectable, Allocate(dead) PROVE Parts'
  BY <1>9, AllocateParts
<1>10. ASSUME NEW dead \in SUBSET Collectable, Collect(dead) PROVE Parts'
  BY <1>10, CollectParts
<1>11. CASE UNCHANGED vars BY <1>11, AnswerParts DEF vars
<1>12. CASE Call BY <1>12, <1>2, <1>3, <1>4 DEF Call
<1>13. CASE Return BY <1>13, <1>5, <1>6, <1>7, <1>8, <1>9 DEF Return
<1> QED BY <1>10, <1>11, <1>12, <1>13 DEF Next

\* The inductive invariant of the hash tables, for every hash function and every
\* order of sets, deletions, copies and collections: count is exact, no table is
\* more than three quarters used, and a table that is set into has room.
THEOREM ProbeInvariant == Spec => []ProbeInv
<1> USE TableConstants
<1>1. Init => Parts BY InitParts
<1>2. Parts /\ [Next]_vars => Parts' BY NextParts
<1>3. Parts => ProbeInv BY ProbeInvParts
<1> QED BY <1>1, <1>2, <1>3, PTL DEF Spec

\* The tables keep their types, and an entry without a key is never used or a
\* tombstone (hashmap.c:26-31 tells the two apart by the value alone).
THEOREM TypeCorrect == Spec => []TypeOK
<1>1. ProbeInv => TypeOK BY DEF ProbeInv
<1> QED BY <1>1, ProbeInvariant, PTL

\* count is the number of entries in use and tombstones (hashmap.c:66), whatever
\* is set, deleted, swept or rehashed.
THEOREM CountExact == Spec => []CountIsUsedEntries
<1>1. ProbeInv => CountIsUsedEntries BY DEF ProbeInv
<1> QED BY <1>1, ProbeInvariant, PTL

\* The unbounded loops of find_entry and find_string stop (hashmap.c:24, 107), in
\* every table that has entries and in the one adjust_capacity fills.
THEOREM ProbesStop == Spec => []ProbesTerminate
<1>1. ASSUME Parts, NEW tab \in AllTables, NEW c \in DOMAIN Hash, tab.capacity > 0
      PROVE  Stops(tab, Hash[c], {}) # {}
  <2>1. Hash[c] \in Nat BY TableConstants DEF TableConstants
  <2>2. Good(tab) BY <1>1 DEF AllTables, Parts, TablesGood
  <2>3. tab.count < tab.capacity
    <3>1. CASE tab = fresh
      <4>1. pc = "rehash" BY <1>1, <3>1 DEF Parts, RoomForSet
      <4>2. args.t \in Tables /\ tables[args.t].capacity \in Nat
            /\ (tables[args.t].capacity = 0 \/ tables[args.t].capacity >= MinCapacity)
        BY <1>1 DEF Parts, TablesGood, CallType, SafeLoad, Good, TableType
      <4>3. /\ fresh.capacity = Grow(tables[args.t].capacity)
            /\ i <= tables[args.t].capacity /\ fresh.count <= i
        BY <1>1, <4>1 DEF Parts, RoomForSet
      <4>4. i \in Nat /\ fresh.count \in Nat
        BY <1>1 DEF Parts, CallType, TablesGood, Good, TableType
      <4> QED BY <3>1, <4>2, <4>3, <4>4, TableConstants, GrowRoom
    <3>2. CASE \E t \in Tables : tab = tables[t]
      BY <1>1, <2>2, <3>2 DEF Parts, TablesGood, SafeLoad, Good, TableType
    <3> QED BY <3>1, <3>2 DEF AllTables
  <2> QED BY <2>1, <2>2, <2>3, EmptyStops
<1>2. Parts => ProbesTerminate BY <1>1 DEF ProbesTerminate
<1>3. Spec => []ProbeInv BY ProbeInvariant
<1>4. ProbeInv => Parts BY ProbeInvParts
<1> QED BY <1>2, <1>3, <1>4, PTL

(***************************************************************************)
(* The least set that holds MinCapacity and the double of each member: for *)
(* a MinCapacity that is a power of two, powers of two only.               *)
(***************************************************************************)
Closed(D) == D \subseteq Nat /\ MinCapacity \in D /\ \A n \in D : 2 * n \in D
Doublings == {n \in Nat : \A D \in SUBSET Nat : Closed(D) => n \in D}

CapacitiesAreDoublings == \A tab \in AllTables : tab.capacity \in Doublings \cup {0}

LEMMA GrowDoubles ==
    ASSUME TableConstants, NEW n \in Doublings \cup {0}
    PROVE  Grow(n) \in Doublings
<1>1. MinCapacity \in Doublings BY DEF Doublings, Closed, TableConstants
<1>2. CASE n < MinCapacity BY <1>1, <1>2 DEF Grow
<1>3. CASE ~(n < MinCapacity)
  <2>1. n \in Doublings BY <1>3 DEF TableConstants
  <2>2. 2 * n \in Nat BY <2>1 DEF Doublings
  <2>3. ASSUME NEW D \in SUBSET Nat, Closed(D) PROVE 2 * n \in D
    BY <2>1, <2>3 DEF Doublings, Closed
  <2> QED BY <1>3, <2>2, <2>3 DEF Grow, Doublings
<1> QED BY <1>2, <1>3

LEMMA DoublingsStep ==
    ASSUME TableConstants, Parts, CapacitiesAreDoublings, [Next]_vars
    PROVE  CapacitiesAreDoublings'
<1>0. /\ \A t \in Tables : tables[t].capacity \in Doublings \cup {0}
      /\ fresh.capacity \in Doublings \cup {0}
  BY DEF CapacitiesAreDoublings, AllTables
<1>1. SUFFICES /\ \A t \in Tables : tables'[t].capacity \in Doublings \cup {0}
               /\ fresh'.capacity \in Doublings \cup {0}
  BY DEF CapacitiesAreDoublings, AllTables
<1>2. tables = [t \in Tables |-> tables[t]] BY DEF Parts, TablesGood
<1>3. args.t \in Tables /\ Strings \in Tables BY DEF Parts, CallType, TableConstants
<1>4. \A tab : Good(tab) =>
          /\ \A k, v : \E m, f : Put(tab, k, v) = [count |-> m, capacity |-> tab.capacity, entries |-> f]
          /\ \A k : Remove(tab, k).capacity = tab.capacity
          /\ \A dead : Sweep(tab, dead).capacity = tab.capacity
  <2>1. \A tab : Good(tab) =>
          \A k, v : \E m, f : Put(tab, k, v) = [count |-> m, capacity |-> tab.capacity, entries |-> f]
    BY PutIs
  <2> QED BY <2>1 DEF Good, TableType, Remove, Sweep
<1>5. /\ \A t \in Tables : Good(tables[t])
      /\ Good(fresh)
  BY DEF Parts, TablesGood
<1>6. CASE Call
  <2>1. \A t \in Tables : tables'[t].capacity = tables[t].capacity
    <3>1. CASE tables' = tables BY <3>1
    <3>2. CASE \E t \in Tables, k \in Interned : Delete(t, k)
      BY <1>2, <1>4, <1>5, <3>2 DEF Delete
    <3> QED BY <1>6, <3>1, <3>2 DEF Call, Intern, StartSet, EnterSet, Get, StartCopy
  <2>2. fresh' = fresh BY <1>6 DEF Call, Intern, StartSet, EnterSet, Get, StartCopy, Delete
  <2> QED BY <1>0, <2>1, <2>2
<1>7. CASE CopyEntry BY <1>0, <1>7 DEF CopyEntry, EnterSet
<1>8. CASE Rehash
  <2>1. tables' = tables BY <1>8 DEF Rehash
  <2>2. fresh'.capacity = fresh.capacity BY <1>4, <1>5, <1>8 DEF Rehash
  <2> QED BY <1>0, <2>1, <2>2
<1>9. CASE Install
  <2>1. \A t \in Tables : tables'[t] \in {tables[t], fresh} BY <1>2, <1>9 DEF Install
  <2>2. fresh'.capacity = 0 BY <1>9 DEF Install, NewTable
  <2> QED BY <1>0, <2>1, <2>2
<1>10. CASE Store
  <2> DEFINE put == Put(tables[args.t], args.k, args.v)
  <2>1. /\ tables' \in {[tables EXCEPT ![args.t] = put],
                        [tables EXCEPT ![args.t] = Remove(put, args.k)]}
        /\ fresh' = fresh
    BY <1>10 DEF Store
  <2>2. Good(tables[args.t]) BY <1>3, <1>5
  <2>3. \A k, v : \E m, f : Put(tables[args.t], k, v)
                               = [count |-> m, capacity |-> tables[args.t].capacity, entries |-> f]
    BY <1>4, <2>2
  <2>4. PICK m, f : put = [count |-> m, capacity |-> tables[args.t].capacity, entries |-> f]
    BY <2>3
  <2>5. Remove(put, args.k).capacity = tables[args.t].capacity
    <3> HIDE DEF put
    <3> QED BY <2>4 DEF Remove
  <2> HIDE DEF put
  <2>6. \A t \in Tables : tables'[t].capacity = tables[t].capacity
    BY <1>2, <1>3, <2>1, <2>4, <2>5
  <2> QED BY <1>0, <2>1, <2>6
<1>11. CASE \E dead \in SUBSET Collectable : Allocate(dead)
  <2>1. \A t \in Tables : tables'[t].capacity = tables[t].capacity
    BY <1>2, <1>4, <1>5, <1>11 DEF Allocate
  <2>2. fresh'.capacity \in Doublings
    <3>1. fresh' = NewTable(Grow(tables[args.t].capacity)) BY <1>11 DEF Allocate
    <3> QED BY <1>0, <1>3, <3>1, GrowDoubles DEF NewTable
  <2> QED BY <1>0, <2>1, <2>2
<1>12. CASE \E dead \in SUBSET Collectable : Collect(dead)
  <2>1. \A t \in Tables : tables'[t].capacity = tables[t].capacity
    BY <1>2, <1>4, <1>5, <1>12 DEF Collect
  <2> QED BY <1>0, <1>12, <2>1 DEF Collect
<1>13. CASE UNCHANGED vars BY <1>0, <1>13 DEF vars
<1> QED BY <1>6, <1>7, <1>8, <1>9, <1>10, <1>11, <1>12, <1>13 DEF Next, Return

\* Growth keeps every capacity MinCapacity doubled some number of times, or none:
\* so a walk by % capacity, by & (capacity-1) and from one to the other (hashmap.c:22,
\* 37, 106) visits the same slots, the capacity of 8 being a power of two.
THEOREM CapacitiesDouble == Spec => []CapacitiesAreDoublings
<1> USE TableConstants
<1>1. Init => CapacitiesAreDoublings BY DEF Init, CapacitiesAreDoublings, AllTables, NewTable
<1>2. Parts /\ CapacitiesAreDoublings /\ [Next]_vars => CapacitiesAreDoublings' BY DoublingsStep
<1>3. Spec => []ProbeInv BY ProbeInvariant
<1>4. ProbeInv => Parts BY ProbeInvParts
<1> QED BY <1>1, <1>2, <1>3, <1>4, PTL DEF Spec
==============================================================================
