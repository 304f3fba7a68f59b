--------------------------- MODULE HashmapMapProofs ---------------------------
(***************************************************************************)
(* Why the open addressing of src/hashmap.c is a map, for every hash       *)
(* function, capacity and order of calls: no deletion, sweep, growth or    *)
(* reused tombstone loses a key or makes a second entry for it, and every  *)
(* call answers what it would answer over maps (KVStore).                  *)
(***************************************************************************)
EXTENDS HashmapProofs

(***************************************************************************)
(* No entry that was never used lies between a key's home and the key, and *)
(* no key has two entries.                                                 *)
(***************************************************************************)
Linked(tab) ==
    \A k \in Keys, d \in Slots(tab.capacity) :
        tab.entries[ProbeSlot(HashOf(k), tab.capacity, d)].k = k =>
            \A e \in 0 .. d - 1 :
                tab.entries[ProbeSlot(HashOf(k), tab.capacity, e)] # Empty

Unique(tab) ==
    \A s, r \in Slots(tab.capacity) :
        tab.entries[s].k # NoKey /\ tab.entries[s].k = tab.entries[r].k => s = r

IsMap(tab) == Linked(tab) /\ Unique(tab)

Holds(tab, k) == \E s \in Slots(tab.capacity) : tab.entries[s].k = k
-----------------------------------------------------------------------------
(* What a probe finds. *)

\* Two distances from one home are two slots.
LEMMA ProbeInjective ==
    ASSUME NEW h \in Nat, NEW n \in Nat \ {0}, NEW d \in Slots(n), NEW e \in Slots(n),
           ProbeSlot(h, n, d) = ProbeSlot(h, n, e)
    PROVE  d = e
<1> DEFINE r == h % n
<1>1. r \in 0 .. n - 1 OBVIOUS
<1>2. (h + d) % n = IF r + d < n THEN r + d ELSE r + d - n BY ModPlus DEF Slots
<1>3. (h + e) % n = IF r + e < n THEN r + e ELSE r + e - n BY ModPlus DEF Slots
<1>4. (h + d) % n = (h + e) % n BY DEF ProbeSlot
<1> HIDE DEF r
<1> QED BY <1>1, <1>2, <1>3, <1>4 DEF Slots

\* Where a probe stops, and what it passed (hashmap.c:24-38).
LEMMA ProbeEnd ==
    ASSUME TableConstants, NEW tab, Good(tab), tab.count < tab.capacity, NEW h \in Nat, NEW wanted
    PROVE  LET end == Min(Stops(tab, h, wanted)) IN
           /\ end \in Slots(tab.capacity)
           /\ \/ tab.entries[ProbeSlot(h, tab.capacity, end)] = Empty
              \/ tab.entries[ProbeSlot(h, tab.capacity, end)].k \in wanted
           /\ \A d \in Slots(tab.capacity) :
                 d < end => /\ tab.entries[ProbeSlot(h, tab.capacity, d)] # Empty
                            /\ tab.entries[ProbeSlot(h, tab.capacity, d)].k \notin wanted
<1> DEFINE stops == Stops(tab, h, wanted)
           end   == Min(stops)
<1>1. stops # {} BY EmptyStops
<1>2. stops \subseteq Nat BY DEF Stops, Slots
<1>3. end \in stops /\ \A d \in stops : end <= d
  <2> HIDE DEF stops
  <2> QED BY <1>1, <1>2, MinIs
<1> HIDE DEF end
<1>4. \A d \in Slots(tab.capacity) : d < end => d \notin stops
  <2>1. \A d \in Slots(tab.capacity) : d \in Int BY DEF Slots
  <2>2. end \in Int BY <1>2, <1>3
  <2> HIDE DEF stops
  <2> QED BY <1>3, <2>1, <2>2
<1>5. end \in Slots(tab.capacity) /\
           \/ tab.entries[ProbeSlot(h, tab.capacity, end)] = Empty
           \/ tab.entries[ProbeSlot(h, tab.capacity, end)].k \in wanted
  BY <1>3 DEF Stops
<1>6. \A d \in Slots(tab.capacity) :
                 d < end => /\ tab.entries[ProbeSlot(h, tab.capacity, d)] # Empty
                            /\ tab.entries[ProbeSlot(h, tab.capacity, d)].k \notin wanted
  BY <1>4 DEF Stops
<1> QED BY <1>5, <1>6 DEF end

\* find_entry returns the entry of a key that the table holds.
LEMMA FindsKey ==
    ASSUME TableConstants, NEW tab, Good(tab), IsMap(tab), NEW k \in Keys,
           NEW s \in Slots(tab.capacity), tab.entries[s].k = k, tab.count < tab.capacity
    PROVE  FindEntry(tab, k) = s
<1> DEFINE n       == tab.capacity
           slot(d) == ProbeSlot(HashOf(k), n, d)
           end     == Min(Stops(tab, HashOf(k), {k}))
           graves  == {d \in 0 .. end - 1 : tab.entries[slot(d)].k = NoKey}
<1>1. HashOf(k) \in Nat BY DEF TableConstants, HashOf
<1>2. n \in Nat \ {0} BY DEF Good, TableType
<1>3. PICK d \in Slots(n) : slot(d) = s BY <1>1, <1>2, EverySlotProbed
<1>4. /\ end \in Slots(n)
      /\ tab.entries[slot(end)] = Empty \/ tab.entries[slot(end)].k = k
      /\ \A e \in Slots(n) : e < end => tab.entries[slot(e)].k # k
  BY <1>1, ProbeEnd
<1>5. FindEntry(tab, k) = IF tab.entries[slot(end)].k # k /\ graves # {}
                          THEN slot(Min(graves)) ELSE slot(end)
  BY DEF FindEntry
<1>6. slot(end) \in Slots(n) BY <1>1, <1>2, <1>4, ProbeSlotInTable
<1>7. ~ (d < end) BY <1>3, <1>4
<1>8. tab.entries[slot(end)].k = k
  <2>1. CASE end = d BY <1>3, <2>1
  <2>2. CASE end # d
    <3>1. end \in 0 .. d - 1 BY <1>2, <1>3, <1>4, <1>7, <2>2 DEF Slots
    <3>2. tab.entries[slot(end)] # Empty
      BY <1>3, <3>1 DEF IsMap, Linked
    <3> QED BY <1>4, <3>2
  <2> QED BY <2>1, <2>2
<1>9. k # NoKey BY DEF TableConstants
<1>10. slot(end) = s BY <1>6, <1>8, <1>9 DEF IsMap, Unique
<1> HIDE DEF end, graves, slot, n
<1> QED BY <1>5, <1>8, <1>10

\* For a key that the table does not hold it returns a free entry, the first one that
\* a probe passes.
LEMMA FindsFree ==
    ASSUME TableConstants, NEW tab, Good(tab), NEW k \in Keys, ~ Holds(tab, k),
           tab.count < tab.capacity
    PROVE  /\ FindEntry(tab, k) \in Slots(tab.capacity)
           /\ tab.entries[FindEntry(tab, k)].k = NoKey
           /\ \A d \in Slots(tab.capacity) :
                 ProbeSlot(HashOf(k), tab.capacity, d) = FindEntry(tab, k) =>
                    \A e \in 0 .. d - 1 :
                       tab.entries[ProbeSlot(HashOf(k), tab.capacity, e)] # Empty
<1> DEFINE n       == tab.capacity
           slot(d) == ProbeSlot(HashOf(k), n, d)
           end     == Min(Stops(tab, HashOf(k), {k}))
           graves  == {d \in 0 .. end - 1 : tab.entries[slot(d)].k = NoKey}
<1>1. HashOf(k) \in Nat BY DEF TableConstants, HashOf
<1>2. n \in Nat \ {0} BY DEF Good, TableType
<1>3. \A d \in Slots(n) : slot(d) \in Slots(n) /\ tab.entries[slot(d)].k # k
  BY <1>1, <1>2, ProbeSlotInTable DEF Holds
<1>4. /\ end \in Slots(n) /\ tab.entries[slot(end)] = Empty
      /\ \A e \in Slots(n) : e < end => tab.entries[slot(e)] # Empty
  BY <1>1, <1>3, ProbeEnd
<1>5. FindEntry(tab, k) = IF tab.entries[slot(end)].k # k /\ graves # {}
                          THEN slot(Min(graves)) ELSE slot(end)
  BY DEF FindEntry
<1>6. \E d \in Slots(n) : /\ FindEntry(tab, k) = slot(d) /\ tab.entries[slot(d)].k = NoKey
                          /\ \A e \in 0 .. d - 1 : tab.entries[slot(e)] # Empty
  <2>1. CASE graves = {}
    <3>1. \A e \in 0 .. end - 1 : e \in Slots(n) /\ e < end BY <1>2, <1>4 DEF Slots
    <3>2. FindEntry(tab, k) = slot(end) BY <1>5, <2>1
    <3>3. tab.entries[slot(end)].k = NoKey BY <1>4 DEF Empty
    <3> HIDE DEF end, slot, n
    <3> QED BY <1>4, <3>1, <3>2, <3>3
  <2>2. CASE graves # {}
    <3> DEFINE first == Min(graves)
    <3>1. graves \subseteq Nat /\ graves \subseteq Slots(n) /\ \A d \in graves : d < end
      BY <1>2, <1>4 DEF Slots
    <3>2. first \in graves
      <4> HIDE DEF graves
      <4> QED BY <2>2, <3>1, MinIs
    <3>3. tab.entries[slot(end)].k # k BY <1>3, <1>4
    <3>4. FindEntry(tab, k) = slot(first) BY <1>5, <2>2, <3>3
    <3>5. tab.entries[slot(first)].k = NoKey BY <3>2
    <3>6. first \in Slots(n) /\ first < end BY <3>1, <3>2
    <3>7. \A e \in 0 .. first - 1 : e \in Slots(n) /\ e < end
      <4> HIDE DEF first, graves, end
      <4> QED BY <1>2, <1>4, <3>6 DEF Slots
    <3> HIDE DEF first, graves, end, slot, n
    <3> QED BY <1>4, <3>4, <3>5, <3>6, <3>7
  <2> QED BY <2>1, <2>2
<1>7. PICK d \in Slots(n) : /\ FindEntry(tab, k) = slot(d) /\ tab.entries[slot(d)].k = NoKey
                            /\ \A e \in 0 .. d - 1 : tab.entries[slot(e)] # Empty
  BY <1>6
<1>8. \A e \in Slots(n) : slot(e) = slot(d) => e = d
  BY <1>1, <1>2, ProbeInjective
<1> HIDE DEF end, graves
<1> QED BY <1>3, <1>7, <1>8
-----------------------------------------------------------------------------
(* The table as a map. *)

\* What Contents says of a key: the value of its only entry.
LEMMA ContentsHeld ==
    ASSUME NEW tab, Good(tab), Unique(tab), NEW k \in Keys, k # NoKey,
           NEW s \in Slots(tab.capacity), tab.entries[s].k = k
    PROVE  Contents(tab)[k] = tab.entries[s].v /\ Contents(tab)[k] \in Values
<1> DEFINE c == CHOOSE r \in Slots(tab.capacity) : tab.entries[r].k = k
<1>1. c \in Slots(tab.capacity) /\ tab.entries[c].k = k OBVIOUS
<1>2. c = s BY <1>1 DEF Unique
<1>3. k \in KeysIn(tab) BY DEF KeysIn
<1>4. Contents(tab)[k] = tab.entries[c].v BY <1>3 DEF Contents
<1>5. tab.entries[s].v \in Values BY DEF Good, TableType
<1> HIDE DEF c
<1> QED BY <1>2, <1>4, <1>5

LEMMA ContentsFree ==
    ASSUME NEW tab, NEW k \in Keys, ~ Holds(tab, k)
    PROVE  Contents(tab)[k] = Missing
<1>1. k \notin KeysIn(tab) BY DEF KeysIn, Holds
<1> QED BY <1>1 DEF Contents

\* A key is missing from the map exactly when no entry of the table has it.
LEMMA HeldIs ==
    ASSUME TableConstants, NEW tab, Good(tab), Unique(tab), NEW k \in Keys
    PROVE  /\ Holds(tab, k) <=> Contents(tab)[k] # Missing
           /\ Holds(tab, k) <=> k \in KeysIn(tab)
           /\ Contents(tab) = [x \in Keys |-> Contents(tab)[x]]
<1>1. k # NoKey BY DEF TableConstants
<1>2. Holds(tab, k) => Contents(tab)[k] \in Values
  BY <1>1, ContentsHeld DEF Holds
<1>3. ~ Holds(tab, k) => Contents(tab)[k] = Missing BY ContentsFree
<1>4. Holds(tab, k) <=> k \in KeysIn(tab) BY <1>1 DEF Holds, KeysIn
<1>5. Contents(tab) = [x \in Keys |-> Contents(tab)[x]] BY DEF Contents
<1> QED BY <1>2, <1>3, <1>4, <1>5 DEF TableConstants

\* A table with no used entry holds nothing.
LEMMA CountZero ==
    ASSUME TableConstants, NEW tab, Good(tab), tab.count = 0, NEW k \in Keys
    PROVE  ~ Holds(tab, k)
<1>1. IsFiniteSet(Used(tab)) /\ Cardinality(Used(tab)) = 0 BY UsedFinite DEF Good
<1>2. Used(tab) = {} BY <1>1, FS_EmptySet
<1> QED BY <1>2 DEF Used, Holds, Empty, TableConstants

\* hashmap_get and hashmap_set's answer (hashmap.c:62, 75) are the map's.
LEMMA LookupIs ==
    ASSUME TableConstants, NEW tab, Good(tab), SafeLoad(tab), IsMap(tab), NEW k \in Keys
    PROVE  /\ Lookup(tab, k) = Contents(tab)[k]
           /\ tab.count < tab.capacity => (IsNewKey(tab, k) <=> Contents(tab)[k] = Missing)
<1>1. k # NoKey /\ Missing \notin Values BY DEF TableConstants
<1>2. tab.count # 0 => tab.count < tab.capacity BY DEF Good, TableType, SafeLoad
<1>3. ASSUME NEW s \in Slots(tab.capacity), tab.entries[s].k = k, tab.count < tab.capacity
      PROVE  ~ IsNewKey(tab, k) /\ tab.entries[FindEntry(tab, k)].v = Contents(tab)[k]
  BY <1>1, <1>3, FindsKey, ContentsHeld DEF IsNewKey, IsMap
<1>4. ASSUME ~ Holds(tab, k), tab.count < tab.capacity PROVE IsNewKey(tab, k)
  BY <1>4, FindsFree DEF IsNewKey
<1>5. Holds(tab, k) => tab.count # 0 BY CountZero
<1>6. Holds(tab, k) <=> Contents(tab)[k] # Missing BY HeldIs DEF IsMap
<1>7. CASE Holds(tab, k)
  <2>1. PICK s \in Slots(tab.capacity) : tab.entries[s].k = k BY <1>7 DEF Holds
  <2> QED BY <1>2, <1>3, <1>5, <1>6, <1>7, <2>1 DEF Lookup
<1>8. CASE ~ Holds(tab, k)
  BY <1>2, <1>4, <1>6, <1>8 DEF Lookup
<1> QED BY <1>7, <1>8

\* A store gives its key the one entry it had, or a free one on the key's way.
LEMMA PutIsMap ==
    ASSUME TableConstants, NEW tab, Good(tab), IsMap(tab), tab.count < tab.capacity,
           NEW k \in Keys, NEW v \in Values
    PROVE  IsMap(Put(tab, k, v))
<1> DEFINE f   == FindEntry(tab, k)
           new == [k |-> k, v |-> v]
           es  == [tab.entries EXCEPT ![f] = new]
           put == Put(tab, k, v)
           n   == tab.capacity
<1>1. put.entries = es /\ put.capacity = n BY PutIs
<1>2. f \in Slots(n) /\ tab.entries[f].k \in {k, NoKey} BY FindEntrySlot
<1>3. /\ DOMAIN tab.entries = Slots(n) /\ n \in Nat \ {0} /\ k # NoKey /\ new # Empty /\ new.k = k
  BY DEF Good, TableType, TableConstants, Empty
<1>4. \A s \in Slots(n) : es[s] = IF s = f THEN new ELSE tab.entries[s] BY <1>2, <1>3
<1>5. \A s \in Slots(n) : tab.entries[s].k = k => s = f BY FindsKey
<1>6. Unique(put)
  <2> SUFFICES ASSUME NEW s \in Slots(n), NEW r \in Slots(n), es[s].k # NoKey, es[s].k = es[r].k
               PROVE  s = r
    BY <1>1 DEF Unique
  <2> HIDE DEF f, new, es, n
  <2> QED BY <1>3, <1>4, <1>5 DEF IsMap, Unique, n
<1>7. ASSUME NEW q \in Keys, NEW d \in Slots(n), es[ProbeSlot(HashOf(q), n, d)].k = q,
             NEW e \in 0 .. d - 1
      PROVE  es[ProbeSlot(HashOf(q), n, e)] # Empty
  <2>1. HashOf(q) \in Nat BY DEF TableConstants, HashOf
  <2>2. e \in Slots(n) BY <1>3, <1>7 DEF Slots
  <2>3. ProbeSlot(HashOf(q), n, d) \in Slots(n) /\ ProbeSlot(HashOf(q), n, e) \in Slots(n)
    BY <1>3, <2>1, <2>2, ProbeSlotInTable
  <2>4. tab.entries[ProbeSlot(HashOf(q), n, e)] # Empty
    <3>1. CASE tab.entries[ProbeSlot(HashOf(q), n, d)].k = q
      BY <1>7, <3>1 DEF IsMap, Linked
    <3>2. CASE tab.entries[ProbeSlot(HashOf(q), n, d)].k # q
      <4>1. ProbeSlot(HashOf(q), n, d) = f /\ q = k BY <1>3, <1>4, <1>7, <2>3, <3>2
      <4>2. ~ Holds(tab, k)
        <5>1. ASSUME NEW s \in Slots(n), tab.entries[s].k = k PROVE FALSE
          <6>1. s = f BY <1>5, <5>1
          <6> QED BY <3>2, <4>1, <5>1, <6>1
        <5> QED BY <5>1 DEF Holds
      <4> HIDE DEF f
      <4> QED BY <4>1, <4>2, FindsFree DEF f
    <3> QED BY <3>1, <3>2
  <2> HIDE DEF f, new, es, n
  <2> QED BY <1>3, <1>4, <2>3, <2>4
<1>8. Linked(put) BY <1>1, <1>7 DEF Linked
<1> QED BY <1>6, <1>8 DEF IsMap

\* ... and is the map's update.
LEMMA PutContents ==
    ASSUME TableConstants, NEW tab, Good(tab), IsMap(tab), tab.count < tab.capacity,
           NEW k \in Keys, NEW v \in Values
    PROVE  Contents(Put(tab, k, v)) = [Contents(tab) EXCEPT ![k] = v]
<1> DEFINE f   == FindEntry(tab, k)
           new == [k |-> k, v |-> v]
           put == Put(tab, k, v)
           n   == tab.capacity
<1>1. put.capacity = n /\ put.entries = [tab.entries EXCEPT ![f] = new] BY PutIs
<1>2. f \in Slots(n) /\ tab.entries[f].k \in {k, NoKey} BY FindEntrySlot
<1>3. /\ DOMAIN tab.entries = Slots(n) /\ k # NoKey /\ new.k = k /\ new.v = v
  BY DEF Good, TableType, TableConstants
<1>4. \A s \in Slots(n) : put.entries[s] = IF s = f THEN new ELSE tab.entries[s]
  BY <1>1, <1>2, <1>3
<1>5. Good(put) /\ IsMap(put) BY PutGood, PutIsMap
<1> HIDE DEF put, new, f
<1>6. ASSUME NEW q \in Keys
      PROVE  Contents(put)[q] = IF q = k THEN v ELSE Contents(tab)[q]
  <2>1. CASE q = k
    <3>1. put.entries[f].k = k /\ put.entries[f].v = v BY <1>2, <1>3, <1>4
    <3> QED BY <1>1, <1>2, <1>3, <1>5, <2>1, <3>1, ContentsHeld DEF IsMap
  <2>2. CASE q # k
    <3>0. q # NoKey BY DEF TableConstants
    <3>1. ASSUME NEW s \in Slots(n), tab.entries[s].k = q PROVE Contents(put)[q] = Contents(tab)[q]
      <4>1. put.entries[s] = tab.entries[s] BY <1>2, <1>4, <2>2, <3>0, <3>1
      <4>2. s \in Slots(put.capacity) /\ put.entries[s].k = q BY <1>1, <3>1, <4>1
      <4>3. Contents(put)[q] = put.entries[s].v
        BY <1>5, <3>0, <4>2, ContentsHeld DEF IsMap
      <4>4. Contents(tab)[q] = tab.entries[s].v BY <3>0, <3>1, ContentsHeld DEF IsMap
      <4> QED BY <4>1, <4>3, <4>4
    <3>2. ASSUME ~ Holds(tab, q) PROVE Contents(put)[q] = Contents(tab)[q]
      <4>1. ~ Holds(put, q) BY <1>1, <1>3, <1>4, <2>2, <3>2 DEF Holds
      <4> QED BY <3>2, <4>1, ContentsFree
    <3> QED BY <2>2, <3>1, <3>2 DEF Holds
  <2> QED BY <2>1, <2>2
<1>7. /\ Contents(put) = [x \in Keys |-> Contents(put)[x]]
      /\ Contents(tab) = [x \in Keys |-> Contents(tab)[x]]
  BY DEF Contents
<1>8. Contents(put) = [Contents(tab) EXCEPT ![k] = v]
  BY <1>6, <1>7
<1> QED BY <1>8 DEF put

\* Tombstones keep every other key in its place.
LEMMA BuryIs ==
    ASSUME TableConstants, NEW tab, Good(tab), IsMap(tab), NEW D \in SUBSET Used(tab)
    PROVE  /\ IsMap(Bury(tab, D))
           /\ \A k \in Keys :
                 Contents(Bury(tab, D))[k] =
                    IF \E s \in D : tab.entries[s].k = k THEN Missing ELSE Contents(tab)[k]
<1> DEFINE n   == tab.capacity
           bur == Bury(tab, D)
<1>1. /\ DOMAIN tab.entries = Slots(n) /\ Tombstone # Empty /\ Tombstone.k = NoKey /\ n \in Nat
      /\ tab = [count |-> tab.count, capacity |-> tab.capacity, entries |-> tab.entries]
      /\ D \subseteq Slots(n)
  BY DEF Good, TableType, Tombstone, Empty, TableConstants, Used
<1>2. /\ bur.capacity = n
      /\ \A s \in Slots(n) : bur.entries[s] = IF s \in D THEN Tombstone ELSE tab.entries[s]
  BY <1>1 DEF Bury
<1>3. Good(bur) BY BuryGood
<1> HIDE DEF bur
<1>4. Unique(bur)
  BY <1>1, <1>2 DEF IsMap, Unique
<1>5. Linked(bur)
  <2> SUFFICES ASSUME NEW q \in Keys, NEW d \in Slots(n),
                      bur.entries[ProbeSlot(HashOf(q), n, d)].k = q, NEW e \in 0 .. d - 1
               PROVE  bur.entries[ProbeSlot(HashOf(q), n, e)] # Empty
    BY <1>2 DEF Linked
  <2>1. HashOf(q) \in Nat /\ q # NoKey BY DEF TableConstants, HashOf
  <2>2. e \in Slots(n) /\ n \in Nat \ {0} BY <1>1 DEF Slots
  <2>3. ProbeSlot(HashOf(q), n, d) \in Slots(n) /\ ProbeSlot(HashOf(q), n, e) \in Slots(n)
    BY <2>1, <2>2, ProbeSlotInTable
  <2>4. tab.entries[ProbeSlot(HashOf(q), n, d)].k = q BY <1>1, <1>2, <2>1, <2>3
  <2>5. tab.entries[ProbeSlot(HashOf(q), n, e)] # Empty BY <2>4 DEF IsMap, Linked
  <2> QED BY <1>1, <1>2, <2>3, <2>5
<1>6. ASSUME NEW k \in Keys
      PROVE  Contents(bur)[k] = IF \E s \in D : tab.entries[s].k = k THEN Missing ELSE Contents(tab)[k]
  <2>0. k # NoKey BY DEF TableConstants
  <2>1. ASSUME NEW s \in D, tab.entries[s].k = k PROVE Contents(bur)[k] = Missing
    <3>1. ASSUME NEW r \in Slots(n), bur.entries[r].k = k PROVE FALSE
      <4>1. r \notin D /\ tab.entries[r].k = k BY <1>1, <1>2, <2>0, <3>1
      <4>2. r = s BY <1>1, <2>0, <2>1, <4>1 DEF IsMap, Unique
      <4> QED BY <4>1, <4>2
    <3> QED BY <1>2, <3>1, ContentsFree DEF Holds
  <2>2. ASSUME ~ \E s \in D : tab.entries[s].k = k PROVE Contents(bur)[k] = Contents(tab)[k]
    <3>1. ASSUME NEW s \in Slots(n), tab.entries[s].k = k PROVE Contents(bur)[k] = Contents(tab)[k]
      <4>1. bur.entries[s] = tab.entries[s] BY <1>2, <2>2, <3>1
      <4>2. Contents(bur)[k] = bur.entries[s].v
        BY <1>2, <1>3, <1>4, <2>0, <3>1, <4>1, ContentsHeld
      <4>3. Contents(tab)[k] = tab.entries[s].v BY <2>0, <3>1, ContentsHeld DEF IsMap
      <4> QED BY <4>1, <4>2, <4>3
    <3>2. ASSUME ~ Holds(tab, k) PROVE Contents(bur)[k] = Contents(tab)[k]
      <4>1. ~ Holds(bur, k) BY <1>1, <1>2, <2>0, <3>2 DEF Holds
      <4> QED BY <3>2, <4>1, ContentsFree
    <3> QED BY <3>1, <3>2 DEF Holds
  <2> QED BY <2>1, <2>2
<1> QED BY <1>4, <1>5, <1>6 DEF IsMap, bur

\* A deletion (hashmap.c:84) forgets its key.
LEMMA RemoveContents ==
    ASSUME TableConstants, NEW tab, Good(tab), SafeLoad(tab), IsMap(tab), NEW k \in Keys
    PROVE  /\ IsMap(Remove(tab, k))
           /\ Contents(Remove(tab, k)) = [Contents(tab) EXCEPT ![k] = Missing]
<1> DEFINE gone == Remove(tab, k)
           f    == FindEntry(tab, k)
           D    == {f}
<1>1. Lookup(tab, k) = Contents(tab)[k] BY LookupIs
<1>2. CASE Lookup(tab, k) = Missing
  <2>1. gone = tab BY <1>2 DEF Remove
  <2>2. Contents(tab) = [x \in Keys |-> Contents(tab)[x]] BY DEF Contents
  <2>3. Contents(tab) = [Contents(tab) EXCEPT ![k] = Missing]
    BY <1>1, <1>2, <2>2, Zenon
  <2> QED BY <2>1, <2>3
<1>3. CASE Lookup(tab, k) # Missing
  <2>1. gone = Bury(tab, D) /\ D \in SUBSET Used(tab) /\ tab.count < tab.capacity
    BY <1>3, RemoveIs
  <2>2. Holds(tab, k) BY <1>1, <1>3, HeldIs DEF IsMap
  <2>3. PICK s \in Slots(tab.capacity) : tab.entries[s].k = k BY <2>2 DEF Holds
  <2>4. f = s BY <2>1, <2>3, FindsKey
  <2>5. \A q \in Keys : (\E r \in D : tab.entries[r].k = q) <=> q = k BY <2>3, <2>4
  <2> HIDE DEF D, f, gone
  <2>6. IsMap(gone) /\ \A q \in Keys : Contents(gone)[q] = IF q = k THEN Missing ELSE Contents(tab)[q]
    BY <2>1, <2>5, BuryIs
  <2>7. /\ Contents(gone) = [x \in Keys |-> Contents(gone)[x]]
        /\ Contents(tab) = [x \in Keys |-> Contents(tab)[x]]
    BY DEF Contents
  <2>8. Contents(gone) = [Contents(tab) EXCEPT ![k] = Missing] BY <2>6, <2>7
  <2> QED BY <2>6, <2>8 DEF gone
<1> QED BY <1>2, <1>3

\* The sweep of the intern table forgets the dead strings.
LEMMA SweepContents ==
    ASSUME TableConstants, NEW tab, Good(tab), IsMap(tab), NEW dead \in SUBSET Keys
    PROVE  /\ IsMap(Sweep(tab, dead))
           /\ Contents(Sweep(tab, dead)) =
                 [k \in Keys |-> IF k \in dead THEN Missing ELSE Contents(tab)[k]]
<1> DEFINE D     == {s \in Slots(tab.capacity) : tab.entries[s].k \in dead}
           swept == Sweep(tab, dead)
<1>1. D \in SUBSET Used(tab) /\ swept = Bury(tab, D) BY SweepIs
<1>2. \A k \in Keys : (\E s \in D : tab.entries[s].k = k) <=> k \in dead /\ Holds(tab, k)
  BY DEF Holds
<1> HIDE DEF D, swept
<1>3. IsMap(swept) /\ \A k \in Keys : Contents(swept)[k] =
         IF \E s \in D : tab.entries[s].k = k THEN Missing ELSE Contents(tab)[k]
  BY <1>1, BuryIs
<1>4. \A k \in Keys : ~ Holds(tab, k) => Contents(tab)[k] = Missing BY ContentsFree
<1>5. \A k \in Keys : Contents(swept)[k] = IF k \in dead THEN Missing ELSE Contents(tab)[k]
  BY <1>2, <1>3, <1>4
<1>6. Contents(swept) = [x \in Keys |-> Contents(swept)[x]] BY DEF Contents
<1> QED BY <1>3, <1>5, <1>6 DEF swept

\* A new table is the empty map.
LEMMA NewTableIsMap ==
    ASSUME TableConstants, NEW n \in Nat
    PROVE  IsMap(NewTable(n)) /\ \A k \in Keys : Contents(NewTable(n))[k] = Missing
<1>1. \A s \in Slots(n) : NewTable(n).entries[s].k = NoKey
  BY DEF NewTable, Empty
<1>2. NewTable(n).capacity = n BY DEF NewTable
<1>3. \A k \in Keys : ~ Holds(NewTable(n), k) BY <1>1, <1>2 DEF Holds, TableConstants
<1>4. Unique(NewTable(n)) BY <1>1, <1>2 DEF Unique
<1>5. Linked(NewTable(n))
  <2> SUFFICES ASSUME NEW k \in Keys, NEW d \in Slots(n),
                      NewTable(n).entries[ProbeSlot(HashOf(k), n, d)].k = k
               PROVE  FALSE
    BY <1>2 DEF Linked
  <2>1. HashOf(k) \in Nat /\ n \in Nat \ {0} BY DEF TableConstants, HashOf, Slots
  <2>2. ProbeSlot(HashOf(k), n, d) \in Slots(n) BY <2>1, ProbeSlotInTable
  <2> QED BY <1>1, <2>2 DEF TableConstants
<1> QED BY <1>3, <1>4, <1>5, ContentsFree DEF IsMap

\* hashmap_find_string finds a string of the text if the table has one (hashmap.c:103):
\* strings of one text have one home.
LEMMA FindStringIs ==
    ASSUME TableConstants, NEW tab, Good(tab), SafeLoad(tab), IsMap(tab), NEW c \in DOMAIN Hash
    PROVE  LET found == FindString(tab, c) IN
           IF \E k \in Keys : Holds(tab, k) /\ Chars[k] = c
           THEN found \in Keys /\ Holds(tab, found) /\ Chars[found] = c
           ELSE found = NoKey
<1> DEFINE n       == tab.capacity
           wanted  == {k \in Keys : Chars[k] = c}
           end     == Min(Stops(tab, Hash[c], wanted))
           last    == tab.entries[ProbeSlot(Hash[c], n, end)]
<1>1. FindString(tab, c) = IF tab.count = 0 THEN NoKey ELSE last.k
  BY DEF FindString
<1>2. CASE tab.count = 0
  BY <1>1, <1>2, CountZero
<1>3. CASE tab.count # 0
  <2>1. Hash[c] \in Nat /\ n \in Nat \ {0} /\ tab.count < n
    BY <1>3 DEF TableConstants, Good, TableType, SafeLoad
  <2>2. /\ end \in Slots(n)
        /\ last = Empty \/ last.k \in wanted
        /\ \A d \in Slots(n) : d < end => tab.entries[ProbeSlot(Hash[c], n, d)].k \notin wanted
    BY <2>1, ProbeEnd
  <2>3. ProbeSlot(Hash[c], n, end) \in Slots(n) BY <2>1, <2>2, ProbeSlotInTable
  <2>4. ASSUME NEW k \in Keys, Holds(tab, k), Chars[k] = c PROVE last.k \in wanted
    <3>1. PICK s \in Slots(n) : tab.entries[s].k = k BY <2>4 DEF Holds
    <3>2. PICK d \in Slots(n) : ProbeSlot(Hash[c], n, d) = s BY <2>1, EverySlotProbed
    <3>3. HashOf(k) = Hash[c] BY <2>4 DEF HashOf
    <3>4. \A e \in 0 .. d - 1 : tab.entries[ProbeSlot(Hash[c], n, e)] # Empty
      BY <3>1, <3>2, <3>3 DEF IsMap, Linked
    <3>5. ~ (d < end)
      <4>1. k \in wanted BY <2>4
      <4> HIDE DEF end, wanted
      <4> QED BY <2>2, <3>1, <3>2, <4>1
    <3>6. CASE end = d BY <2>4, <3>1, <3>2, <3>6
    <3>7. CASE end # d
      <4>1. end \in 0 .. d - 1
        <5> HIDE DEF end
        <5> QED BY <2>1, <2>2, <3>2, <3>5, <3>7 DEF Slots
      <4>2. last # Empty BY <3>4, <4>1
      <4> QED BY <2>2, <4>2
    <3> QED BY <3>6, <3>7
  <2>5. CASE last.k \in wanted
    <3>1. Holds(tab, last.k) BY <2>3 DEF Holds
    <3> HIDE DEF last
    <3> QED BY <1>1, <1>3, <2>5, <3>1
  <2>6. CASE last.k \notin wanted
    <3>1. last.k = NoKey BY <2>2, <2>6 DEF Empty
    <3> HIDE DEF last, wanted
    <3> QED BY <1>1, <1>3, <2>4, <2>6, <3>1
  <2> QED BY <2>5, <2>6
<1> QED BY <1>2, <1>3
-----------------------------------------------------------------------------
(***************************************************************************)
(* The invariant of the tables as maps. A table being filled holds what    *)
(* the loop has passed; the key being set is not yet in its table, or is   *)
(* an interned string; and a copy has passed only what its target has.     *)
(***************************************************************************)
AllMaps == (\A t \in Tables : IsMap(tables[t])) /\ IsMap(fresh)

KeysInterned == \A t \in Tables \ {Strings} : KeysIn(tables[t]) \subseteq Interned

InSet == pc \in {"grow", "rehash", "store"}

SetKnown ==
    InSet => /\ args.op # "none" /\ (args.op = "intern" <=> args.t = Strings)
             /\ IF args.op = "intern"
                THEN args.v = Null /\ \A x \in Interned : Chars[x] # Chars[args.k]
                ELSE args.k \in Interned

Rehashed ==
    pc = "rehash" =>
        \A k \in Keys :
            Contents(fresh)[k] = IF \E s \in Slots(i) : tables[args.t].entries[s].k = k
                                 THEN Contents(tables[args.t])[k] ELSE Missing

CopiedTo(n) ==
    \A s \in Slots(n) :
        LET e == tables[copy.from].entries[s]
        IN  e.k # NoKey => Contents(tables[copy.to])[e.k] = e.v

CopyKnown ==
    /\ pc = "copy" \/ (InSet /\ args.op = "copy") =>
          copy.from # Strings /\ copy.to # Strings /\ copy.from # copy.to
    /\ pc = "copy" => CopiedTo(copy.j)
    /\ InSet /\ args.op = "copy" =>
          /\ copy.j >= 1 /\ args.t = copy.to
          /\ tables[copy.from].entries[copy.j - 1] = [k |-> args.k, v |-> args.v]
          /\ CopiedTo(copy.j - 1)

MapsInv == AllMaps /\ KeysInterned /\ OneObjectPerText /\ SetKnown /\ Rehashed /\ CopyKnown

\* The maps of KVStore that the tables stand for, and a step of KVStore.
Maps   == [t \in Tables |-> Contents(tables[t])]
KVStep == KV!Next \/ UNCHANGED <<Maps, ret>>

\* Every table and the one being filled, one fact at a time.
LEMMA TableFacts ==
    ASSUME TableConstants, Parts, AllMaps
    PROVE  /\ Strings \in Tables
           /\ \A t \in Tables : /\ Good(tables[t]) /\ SafeLoad(tables[t]) /\ IsMap(tables[t])
                                /\ tables[t].capacity \in Nat
           /\ Good(fresh) /\ IsMap(fresh)
           /\ args.t \in Tables /\ args.v \in Values /\ i \in Nat
           /\ copy.from \in Tables /\ copy.to \in Tables /\ copy.j \in Nat
           /\ DOMAIN tables = Tables
  BY DEF Parts, TablesGood, CallType, AllMaps, TableConstants, Good, TableType

\* The keys of a table are those its map has a value for.
LEMMA KeysAre ==
    ASSUME TableConstants, NEW tab, Good(tab), IsMap(tab)
    PROVE  KeysIn(tab) = {k \in Keys : Contents(tab)[k] # Missing}
<1>1. KeysIn(tab) \subseteq Keys BY KeysInKeys
<1>2. \A k \in Keys : k \in KeysIn(tab) <=> Contents(tab)[k] # Missing
  BY HeldIs DEF IsMap
<1> QED BY <1>1, <1>2

LEMMA InternedIs ==
    ASSUME TableConstants, Parts, AllMaps
    PROVE  /\ Interned = {k \in Keys : Contents(tables[Strings])[k] # Missing}
           /\ Interned = KV!Interned
<1>1. Interned = {k \in Keys : Contents(tables[Strings])[k] # Missing}
  BY TableFacts, KeysAre DEF Interned
<1>2. KV!Interned = {k \in Keys : Contents(tables[Strings])[k] # Missing}
  BY TableFacts DEF KV!Interned
<1> QED BY <1>1, <1>2

\* A step that only answers.
LEMMA AnswerMaps ==
    ASSUME MapsInv, UNCHANGED <<tables, pc, args, fresh, i, copy>>
    PROVE  MapsInv' /\ UNCHANGED Maps
<1>1. AllMaps' BY DEF MapsInv, AllMaps
<1>2. Interned' = Interned BY DEF Interned
<1>3. KeysInterned' BY <1>2 DEF MapsInv, KeysInterned
<1>4. OneObjectPerText' BY <1>2 DEF MapsInv, OneObjectPerText
<1>5. SetKnown' BY <1>2 DEF MapsInv, SetKnown, InSet
<1>6. Rehashed' BY DEF MapsInv, Rehashed
<1>7. CopyKnown' BY DEF MapsInv, CopyKnown, CopiedTo, InSet
<1>8. UNCHANGED Maps BY DEF Maps
<1> QED BY <1>1, <1>3, <1>4, <1>5, <1>6, <1>7, <1>8 DEF MapsInv

\* A hashmap_set begins (hashmap.c:62); op "copy" is hashmap_copy_all's.
LEMMA EnterSetMaps ==
    ASSUME MapsInv, NEW op \in {"intern", "set", "assign", "copy"}, NEW t, NEW k, NEW v,
           EnterSet(op, t, k, v), op = "intern" <=> t = Strings,
           op = "intern" => v = Null /\ \A x \in Interned : Chars[x] # Chars[k],
           op # "intern" => k \in Interned,
           op = "copy" => CopyKnown'
    PROVE  MapsInv' /\ UNCHANGED Maps
<1>1. /\ args'.op = op /\ args'.t = t /\ args'.k = k /\ args'.v = v
      /\ UNCHANGED <<tables, fresh, i, ret>> /\ pc' \in {"grow", "store"}
  BY DEF EnterSet
<1>2. AllMaps' BY <1>1 DEF MapsInv, AllMaps
<1>3. Interned' = Interned BY <1>1 DEF Interned
<1>4. KeysInterned' BY <1>1, <1>3 DEF MapsInv, KeysInterned
<1>5. OneObjectPerText' BY <1>3 DEF MapsInv, OneObjectPerText
<1>6. SetKnown' BY <1>1, <1>3 DEF SetKnown
<1>7. Rehashed' BY <1>1 DEF Rehashed
<1>8. CopyKnown' BY <1>1 DEF CopyKnown
<1>9. UNCHANGED Maps BY <1>1 DEF Maps
<1> QED BY <1>2, <1>4, <1>5, <1>6, <1>7, <1>8, <1>9 DEF MapsInv

\* copy_string and take_string (object.c:126, 136): the string of this text, if there
\* is one, and otherwise the start of a hashmap_set.
LEMMA InternMaps ==
    ASSUME TableConstants, Parts, MapsInv, NEW k \in Keys, Intern(k)
    PROVE  MapsInv' /\ KVStep
<1> DEFINE c     == Chars[k]
           found == FindString(tables[Strings], c)
<1>1. AllMaps BY DEF MapsInv
<1>2. c \in DOMAIN Hash BY DEF TableConstants
<1>3. IF \E x \in Keys : Holds(tables[Strings], x) /\ Chars[x] = c
      THEN found \in Keys /\ Holds(tables[Strings], found) /\ Chars[found] = c
      ELSE found = NoKey
  <2> HIDE DEF c
  <2> QED BY <1>1, <1>2, TableFacts, FindStringIs
<1>4. \A x \in Keys : Holds(tables[Strings], x) <=> x \in Interned
  BY <1>1, TableFacts, HeldIs DEF Interned, IsMap
<1>5. Interned \subseteq Keys /\ Interned = KV!Interned BY <1>1, InternedIs
<1>6. CASE found # NoKey
  <2>1. ret' = <<"intern", found>> /\ UNCHANGED <<tables, pc, args, fresh, i, copy>>
    BY <1>6 DEF Intern
  <2>2. MapsInv' /\ UNCHANGED Maps BY <2>1, AnswerMaps
  <2> HIDE DEF found
  <2>3. found \in KV!Interned /\ found \in Keys BY <1>3, <1>4, <1>5, <1>6
  <2>4. KV!InternHit(found) BY <2>1, <2>2, <2>3 DEF KV!InternHit, Maps
  <2> QED BY <2>2, <2>3, <2>4 DEF KVStep, KV!Next
<1>7. CASE found = NoKey
  <2>1. EnterSet("intern", Strings, k, Null) /\ UNCHANGED copy BY <1>7 DEF Intern
  <2>2. \A x \in Interned : Chars[x] # Chars[k]
    <3>1. NoKey \notin Keys BY DEF TableConstants
    <3> QED BY <1>3, <1>4, <1>5, <1>7, <3>1
  <2>3. MapsInv' /\ UNCHANGED Maps BY <2>1, <2>2, EnterSetMaps
  <2>4. ret' = ret BY <2>1 DEF EnterSet
  <2> QED BY <2>3, <2>4 DEF KVStep
<1> QED BY <1>6, <1>7

LEMMA StartSetMaps ==
    ASSUME TableConstants, Parts, MapsInv, NEW op \in {"set", "assign"},
           NEW t \in Tables \ {Strings}, NEW k \in Interned, NEW v, StartSet(op, t, k, v)
    PROVE  MapsInv' /\ KVStep
<1>1. EnterSet(op, t, k, v) BY DEF StartSet
<1>2. MapsInv' /\ UNCHANGED Maps BY <1>1, EnterSetMaps
<1>3. ret' = ret BY <1>1 DEF EnterSet
<1> QED BY <1>2, <1>3 DEF KVStep

\* hashmap_get answers what the map holds.
LEMMA GetMaps ==
    ASSUME TableConstants, Parts, MapsInv, NEW t \in Tables \ {Strings}, NEW k \in Interned,
           Get(t, k)
    PROVE  MapsInv' /\ KVStep
<1>1. MapsInv' /\ UNCHANGED Maps BY AnswerMaps DEF Get
<1>2. k \in Keys /\ k \in KV!Interned BY InternedIs DEF MapsInv
<1>3. Lookup(tables[t], k) = Contents(tables[t])[k]
  BY <1>2, TableFacts, LookupIs DEF MapsInv
<1>4. KV!Get(t, k) BY <1>1, <1>3 DEF KV!Get, Get, Maps
<1> QED BY <1>1, <1>2, <1>4 DEF KVStep, KV!Next

\* The rest of the invariant between calls, when one table has been replaced.
LEMMA IdleMaps ==
    ASSUME TableConstants, MapsInv, pc' = "idle", NEW t \in Tables, NEW tab,
           tables' = [tables EXCEPT ![t] = tab], DOMAIN tables = Tables, IsMap(tab),
           fresh' = fresh, KeysInterned', OneObjectPerText'
    PROVE  MapsInv' /\ Maps' = [Maps EXCEPT ![t] = Contents(tab)]
<1>1. \A u \in Tables : tables'[u] = IF u = t THEN tab ELSE tables[u] OBVIOUS
<1>2. AllMaps' BY <1>1 DEF MapsInv, AllMaps
<1>3. SetKnown' /\ Rehashed' /\ CopyKnown' BY DEF SetKnown, Rehashed, CopyKnown, InSet
<1>4. Maps' = [Maps EXCEPT ![t] = Contents(tab)] BY <1>1 DEF Maps
<1> QED BY <1>2, <1>3, <1>4 DEF MapsInv

\* The keys of the ordinary tables are interned, in terms of the maps.
LEMMA KeysInternedIs ==
    ASSUME TableConstants, Parts, AllMaps
    PROVE  KeysInterned <=> \A t \in Tables \ {Strings}, k \in Keys :
              Contents(tables[t])[k] # Missing => Contents(tables[Strings])[k] # Missing
<1>1. \A t \in Tables : KeysIn(tables[t]) = {k \in Keys : Contents(tables[t])[k] # Missing}
  BY TableFacts, KeysAre
<1>2. Interned = {k \in Keys : Contents(tables[Strings])[k] # Missing}
  BY InternedIs
<1> QED BY <1>1, <1>2 DEF KeysInterned

\* ... and so in the next state.
LEMMA KeysInternedNext ==
    ASSUME TableConstants, Parts', AllMaps',
           \A t \in Tables \ {Strings}, k \in Keys :
              Contents(tables'[t])[k] # Missing => Contents(tables'[Strings])[k] # Missing
    PROVE  KeysInterned'
<1>1. Strings \in Tables BY DEF TableConstants
<1>2. \A t \in Tables : KeysIn(tables'[t]) = {k \in Keys : Contents(tables'[t])[k] # Missing}
  BY KeysAre DEF Parts, TablesGood, AllMaps
<1>3. Interned' = {k \in Keys : Contents(tables'[Strings])[k] # Missing}
  BY <1>1, <1>2 DEF Interned
<1> QED BY <1>2, <1>3 DEF KeysInterned

\* Strings that are forgotten leave those of the others different.
LEMMA FewerStrings ==
    ASSUME OneObjectPerText, Interned' \subseteq Interned
    PROVE  OneObjectPerText'
  BY DEF OneObjectPerText

\* hashmap_delete (hashmap.c:84).
LEMMA DeleteMaps ==
    ASSUME TableConstants, Parts, MapsInv, Parts', NEW t \in Tables \ {Strings},
           NEW k \in Interned, Delete(t, k)
    PROVE  MapsInv' /\ KVStep
<1> DEFINE tab == Remove(tables[t], k)
<1>1. AllMaps BY DEF MapsInv
<1>2. k \in Keys /\ k \in KV!Interned BY <1>1, InternedIs
<1>3. /\ tables' = [tables EXCEPT ![t] = tab] /\ pc' = "idle" /\ fresh' = fresh
      /\ ret' = <<"delete", k, Lookup(tables[t], k) # Missing>>
  BY <1>1, TableFacts DEF Delete
<1>4. IsMap(tab) /\ Contents(tab) = [Contents(tables[t]) EXCEPT ![k] = Missing]
  BY <1>1, <1>2, TableFacts, RemoveContents
<1>5. Lookup(tables[t], k) = Contents(tables[t])[k] BY <1>1, <1>2, TableFacts, LookupIs
<1> HIDE DEF tab
<1>6. /\ DOMAIN tables = Tables /\ Strings \in Tables
      /\ \A u \in Tables : tables'[u] = IF u = t THEN tab ELSE tables[u]
  BY <1>1, <1>3, TableFacts
<1>7. AllMaps' BY <1>1, <1>3, <1>4, <1>6 DEF AllMaps
<1>8. \A u \in Tables \ {Strings}, q \in Keys :
          Contents(tables'[u])[q] # Missing => Contents(tables[u])[q] # Missing
  <2>1. Contents(tables[t]) = [q \in Keys |-> Contents(tables[t])[q]] BY DEF Contents
  <2>2. \A q \in Keys : Contents(tab)[q] = IF q = k THEN Missing ELSE Contents(tables[t])[q]
    BY <1>4, <2>1
  <2> QED BY <1>6, <2>2
<1>9. tables'[Strings] = tables[Strings] BY <1>6
<1>10. KeysInterned'
  <2>1. \A u \in Tables \ {Strings}, q \in Keys :
           Contents(tables[u])[q] # Missing => Contents(tables[Strings])[q] # Missing
    BY <1>1, KeysInternedIs DEF MapsInv
  <2> QED BY <1>7, <1>8, <1>9, <2>1, KeysInternedNext
<1>11. OneObjectPerText' BY <1>9, FewerStrings DEF MapsInv, Interned
<1>12. MapsInv' /\ Maps' = [Maps EXCEPT ![t] = Contents(tab)]
  BY <1>3, <1>4, <1>6, <1>10, <1>11, IdleMaps
<1>13. KV!Delete(t, k)
  <2>1. Maps' = [Maps EXCEPT ![t] = [Contents(tables[t]) EXCEPT ![k] = Missing]]
    BY <1>4, <1>12
  <2>2. Maps[t] = Contents(tables[t]) /\ t \in Tables BY DEF Maps
  <2>3. Maps' = [Maps EXCEPT ![t][k] = Missing] BY <2>1, <2>2
  <2>4. ret' = <<"delete", k, Maps[t][k] # Missing>> BY <1>3, <1>5, <2>2
  <2> QED BY <2>3, <2>4 DEF KV!Delete, Maps
<1> QED BY <1>2, <1>12, <1>13 DEF KVStep, KV!Next

\* A sweep, between calls or in the allocation of adjust_capacity, forgets strings
\* that no table has for a key (memory.c: hashmap_remove_white).
LEMMA SweepMaps ==
    ASSUME TableConstants, Parts, MapsInv, Parts', NEW dead \in SUBSET Collectable,
           tables' = [tables EXCEPT ![Strings] = Sweep(@, dead)], IsMap(fresh'), ret' = ret
    PROVE  /\ AllMaps' /\ KeysInterned' /\ OneObjectPerText'
           /\ Interned' = Interned \ dead
           /\ \A u \in Tables \ {Strings} : tables'[u] = tables[u]
           /\ KVStep
<1> DEFINE tab == Sweep(tables[Strings], dead)
<1>1. AllMaps /\ DOMAIN tables = Tables /\ Strings \in Tables BY TableFacts DEF MapsInv
<1>2. tables' = [tables EXCEPT ![Strings] = tab] BY <1>1
<1>3. dead \in SUBSET Keys /\ dead \subseteq Interned
  BY CollectableKeys DEF Collectable
<1>4. /\ IsMap(tab) /\ Good(tab)
      /\ Contents(tab) = [k \in Keys |-> IF k \in dead THEN Missing ELSE Contents(tables[Strings])[k]]
  BY <1>1, <1>3, TableFacts, SweepContents, SweepGood
<1> HIDE DEF tab
<1>5. \A u \in Tables : tables'[u] = IF u = Strings THEN tab ELSE tables[u] BY <1>1, <1>2
<1>6. AllMaps' BY <1>1, <1>4, <1>5 DEF AllMaps
<1>7. Interned = {k \in Keys : Contents(tables[Strings])[k] # Missing} /\ Interned = KV!Interned
  BY <1>1, InternedIs
<1>8. Interned' = Interned \ dead
  <2>1. Interned' = {k \in Keys : Contents(tab)[k] # Missing}
    BY <1>1, <1>4, <1>5, KeysAre DEF Interned
  <2> QED BY <1>4, <1>7, <2>1
<1>9. \A u \in Tables \ {Strings} : KeysIn(tables[u]) \cap dead = {} BY DEF Collectable
<1>10. KeysInterned' BY <1>5, <1>8, <1>9 DEF MapsInv, KeysInterned
<1>11. OneObjectPerText' BY <1>8, FewerStrings DEF MapsInv
<1>12. KV!Forget(dead)
  <2>1. \A k \in dead, u \in Tables \ {Strings} : Contents(tables[u])[k] = Missing
    BY <1>1, <1>3, <1>9, TableFacts, KeysAre
  <2>2. Maps' = [Maps EXCEPT ![Strings] = [k \in Keys |-> IF k \in dead THEN Missing ELSE Maps[Strings][k]]]
    BY <1>1, <1>4, <1>5 DEF Maps
  <2> QED BY <2>1, <2>2 DEF KV!Forget, Maps
<1>13. KVStep BY <1>3, <1>7, <1>12 DEF KVStep, KV!Next
<1> QED BY <1>5, <1>6, <1>8, <1>10, <1>11, <1>13

LEMMA CollectMaps ==
    ASSUME TableConstants, Parts, MapsInv, Parts', NEW dead \in SUBSET Collectable, Collect(dead)
    PROVE  MapsInv' /\ KVStep
<1>1. /\ tables' = [tables EXCEPT ![Strings] = Sweep(@, dead)] /\ pc' = "idle"
      /\ fresh' = fresh /\ ret' = ret
  BY DEF Collect
<1>2. IsMap(fresh') BY <1>1 DEF MapsInv, AllMaps
<1>3. AllMaps' /\ KeysInterned' /\ OneObjectPerText' /\ KVStep BY <1>1, <1>2, SweepMaps
<1>4. SetKnown' /\ Rehashed' /\ CopyKnown' BY <1>1 DEF SetKnown, Rehashed, CopyKnown, InSet
<1> QED BY <1>3, <1>4 DEF MapsInv

\* The key that is being set survives the collection in adjust_capacity: the caller
\* has it on the stack (object.c:111).
LEMMA AllocateMaps ==
    ASSUME TableConstants, Parts, MapsInv, Parts', NEW dead \in SUBSET Collectable, Allocate(dead)
    PROVE  MapsInv' /\ KVStep
<1> DEFINE n == Grow(tables[args.t].capacity)
<1>1. /\ tables' = [tables EXCEPT ![Strings] = Sweep(@, dead)] /\ pc' = "rehash" /\ pc = "grow"
      /\ fresh' = NewTable(n) /\ i' = 0 /\ UNCHANGED <<args, copy, ret>> /\ args.k \notin dead
  BY DEF Allocate
<1>2. AllMaps BY DEF MapsInv
<1>3. n \in Nat BY <1>2, TableFacts DEF Grow, TableConstants
<1>4. IsMap(NewTable(n)) /\ \A k \in Keys : Contents(NewTable(n))[k] = Missing
  BY <1>3, NewTableIsMap
<1> HIDE DEF n
<1>5. /\ AllMaps' /\ KeysInterned' /\ OneObjectPerText' /\ Interned' = Interned \ dead
      /\ \A u \in Tables \ {Strings} : tables'[u] = tables[u]
      /\ KVStep
  BY <1>1, <1>4, SweepMaps
<1>6. SetKnown' BY <1>1, <1>5 DEF MapsInv, SetKnown, InSet
<1>7. Rehashed'
  <2>1. Slots(i') = {} BY <1>1 DEF Slots
  <2> QED BY <1>1, <1>4, <2>1 DEF Rehashed
<1>8. CopyKnown'
  <2>1. CASE args.op = "copy"
    <3>1. /\ copy.from # Strings /\ copy.to # Strings /\ copy.from # copy.to
          /\ copy.j >= 1 /\ args.t = copy.to
          /\ tables[copy.from].entries[copy.j - 1] = [k |-> args.k, v |-> args.v]
          /\ CopiedTo(copy.j - 1)
      BY <1>1, <2>1 DEF MapsInv, CopyKnown, InSet
    <3>2. tables'[copy.from] = tables[copy.from] /\ tables'[copy.to] = tables[copy.to]
      BY <1>2, <1>5, <3>1, TableFacts
    <3> QED BY <1>1, <3>1, <3>2 DEF CopyKnown, CopiedTo, InSet
  <2>2. CASE args.op # "copy" BY <1>1, <2>2 DEF CopyKnown
  <2> QED BY <2>1, <2>2
<1> QED BY <1>5, <1>6, <1>7, <1>8 DEF MapsInv

\* The start and the end of hashmap_copy_all (hashmap.c:94), and the slots it skips.
LEMMA StartCopyMaps ==
    ASSUME TableConstants, Parts, MapsInv, NEW from \in Tables \ {Strings},
           NEW to \in Tables \ {Strings}, StartCopy(from, to)
    PROVE  MapsInv' /\ KVStep
<1>1. /\ from # to /\ copy'.from = from /\ copy'.to = to /\ copy'.j = 0 /\ pc' = "copy"
      /\ UNCHANGED <<tables, args, fresh, i, ret>>
  BY DEF StartCopy
<1>2. AllMaps' BY <1>1 DEF MapsInv, AllMaps
<1>3. Interned' = Interned BY <1>1 DEF Interned
<1>4. KeysInterned' BY <1>1, <1>3 DEF MapsInv, KeysInterned
<1>5. OneObjectPerText' BY <1>3 DEF MapsInv, OneObjectPerText
<1>6. SetKnown' /\ Rehashed' BY <1>1 DEF SetKnown, Rehashed, InSet
<1>7. CopyKnown'
  <2>1. Slots(0) = {} BY DEF Slots
  <2> QED BY <1>1, <2>1 DEF CopyKnown, CopiedTo, InSet
<1>8. UNCHANGED Maps BY <1>1 DEF Maps
<1> QED BY <1>1, <1>2, <1>4, <1>5, <1>6, <1>7, <1>8 DEF MapsInv, KVStep

LEMMA CopyEntryMaps ==
    ASSUME TableConstants, Parts, MapsInv, CopyEntry
    PROVE  MapsInv' /\ KVStep
<1> DEFINE from == tables[copy.from]
           e    == from.entries[copy.j]
<1>1. /\ pc = "copy" /\ copy.from # Strings /\ copy.to # Strings /\ copy.from # copy.to
      /\ CopiedTo(copy.j)
  BY DEF CopyEntry, MapsInv, CopyKnown
<1>2. AllMaps BY DEF MapsInv
<1>3. CASE copy.j = from.capacity
  <2>1. pc' = "idle" /\ UNCHANGED <<tables, args, fresh, i, ret>> BY <1>3 DEF CopyEntry
  <2>2. AllMaps' BY <2>1 DEF MapsInv, AllMaps
  <2>3. Interned' = Interned BY <2>1 DEF Interned
  <2>4. KeysInterned' BY <2>1, <2>3 DEF MapsInv, KeysInterned
  <2>5. OneObjectPerText' BY <2>3 DEF MapsInv, OneObjectPerText
  <2>6. SetKnown' /\ Rehashed' /\ CopyKnown' BY <2>1 DEF SetKnown, Rehashed, CopyKnown, InSet
  <2>7. UNCHANGED Maps BY <2>1 DEF Maps
  <2> QED BY <2>1, <2>2, <2>4, <2>5, <2>6, <2>7 DEF MapsInv, KVStep
<1>4. CASE copy.j # from.capacity
  <2>1. /\ copy' = [copy EXCEPT !.j = @ + 1]
        /\ IF e.k # NoKey THEN EnterSet("copy", copy.to, e.k, e.v)
           ELSE UNCHANGED <<tables, pc, args, fresh, i, ret>>
    BY <1>4 DEF CopyEntry
  <2>2. copy.j \in Slots(from.capacity)
    BY <1>2, <1>4, TableFacts DEF Parts, CopyInRange, Slots
  <2>3. copy'.from = copy.from /\ copy'.to = copy.to /\ copy'.j = copy.j + 1 /\ copy.j \in Nat
    BY <1>2, <2>1, TableFacts DEF Parts, CallType
  <2>4. e = [k |-> e.k, v |-> e.v] /\ e.k \in Keys \cup {NoKey}
    <3>1. from.entries \in [Slots(from.capacity) -> [k : Keys \cup {NoKey}, v : Values]]
      BY <1>2, TableFacts DEF Good, TableType
    <3>2. e \in [k : Keys \cup {NoKey}, v : Values] BY <2>2, <3>1
    <3> HIDE DEF e
    <3> QED BY <3>2
  <2>5. CASE e.k # NoKey
    <3>1. EnterSet("copy", copy.to, e.k, e.v) BY <2>1, <2>5
    <3>2. e.k \in Interned
      <4>1. e.k \in KeysIn(from) BY <2>2, <2>5 DEF KeysIn
      <4> QED BY <1>1, <1>2, <4>1, TableFacts DEF MapsInv, KeysInterned
    <3>3. /\ args'.op = "copy" /\ args'.t = copy.to /\ args'.k = e.k /\ args'.v = e.v
          /\ tables' = tables /\ ret' = ret /\ pc' # "copy"
      BY <3>1 DEF EnterSet
    <3>4. CopyKnown'
      <4>1. copy'.j >= 1 /\ copy'.j - 1 = copy.j BY <2>3
      <4>2. tables'[copy'.from].entries[copy'.j - 1] = [k |-> args'.k, v |-> args'.v]
        BY <2>3, <2>4, <3>3, <4>1
      <4>3. CopiedTo(copy.j - 1)' BY <1>1, <2>3, <3>3, <4>1 DEF CopiedTo
      <4>4. copy'.from # Strings /\ copy'.to # Strings /\ copy'.from # copy'.to /\ args'.t = copy'.to
        BY <1>1, <2>3, <3>3
      <4> QED BY <3>3, <4>1, <4>2, <4>3, <4>4 DEF CopyKnown
    <3> HIDE DEF e
    <3>5. MapsInv' /\ UNCHANGED Maps BY <1>1, <3>1, <3>2, <3>4, EnterSetMaps
    <3> QED BY <3>3, <3>5 DEF KVStep
  <2>6. CASE e.k = NoKey
    <3>1. UNCHANGED <<tables, pc, args, fresh, i, ret>> BY <2>1, <2>6
    <3>2. AllMaps' BY <3>1 DEF MapsInv, AllMaps
    <3>3. Interned' = Interned BY <3>1 DEF Interned
    <3>4. KeysInterned' BY <3>1, <3>3 DEF MapsInv, KeysInterned
    <3>5. OneObjectPerText' BY <3>3 DEF MapsInv, OneObjectPerText
    <3>6. SetKnown' /\ Rehashed' BY <1>1, <3>1 DEF SetKnown, Rehashed, InSet
    <3>7. CopyKnown'
      <4>1. \A s \in Slots(copy.j + 1) : s \in Slots(copy.j) \/ s = copy.j
        BY <2>3 DEF Slots
      <4>2. CopiedTo(copy.j + 1) BY <1>1, <2>6, <4>1 DEF CopiedTo
      <4>3. CopiedTo(copy.j)' BY <2>3, <3>1, <4>2 DEF CopiedTo
      <4> QED BY <1>1, <2>3, <3>1, <4>3 DEF CopyKnown, InSet
    <3>8. UNCHANGED Maps BY <3>1 DEF Maps
    <3> QED BY <3>1, <3>2, <3>4, <3>5, <3>6, <3>7, <3>8 DEF MapsInv, KVStep
  <2> QED BY <2>5, <2>6
<1> QED BY <1>3, <1>4

\* A turn of adjust_capacity's loop (hashmap.c:48) adds the next entry to the new table.
LEMMA RehashMaps ==
    ASSUME TableConstants, Parts, MapsInv, Rehash
    PROVE  MapsInv' /\ KVStep
<1> DEFINE tab == tables[args.t]
           e   == tab.entries[i]
<1>1. /\ pc = "rehash" /\ i < tab.capacity /\ i' = i + 1 /\ UNCHANGED <<tables, pc, args, copy, ret>>
      /\ fresh' = IF e.k = NoKey THEN fresh ELSE Put(fresh, e.k, e.v)
  BY DEF Rehash
<1>2. AllMaps BY DEF MapsInv
<1>3. /\ Good(tab) /\ IsMap(tab) /\ Good(fresh) /\ IsMap(fresh) /\ i \in Slots(tab.capacity)
      /\ tab.capacity \in Nat /\ i \in Nat /\ SafeLoad(tab)
  BY <1>1, <1>2, TableFacts DEF Slots
<1>4. fresh.count < fresh.capacity
  <2>1. fresh.capacity = Grow(tab.capacity) /\ fresh.count <= i
    BY <1>1 DEF Parts, RoomForSet
  <2>2. Grow(tab.capacity) \in Nat /\ Grow(tab.capacity) > tab.capacity
    BY <1>3, GrowRoom DEF SafeLoad
  <2>3. fresh.count \in Nat BY <1>3 DEF Good, TableType
  <2> QED BY <1>1, <1>3, <2>1, <2>2, <2>3
<1>5. e.k \in Keys \cup {NoKey} /\ e.v \in Values BY <1>3 DEF Good, TableType
<1>6. \A k \in Keys : Contents(fresh)[k] = IF \E s \in Slots(i) : tab.entries[s].k = k
                                           THEN Contents(tab)[k] ELSE Missing
  BY <1>1 DEF MapsInv, Rehashed
<1>7. \A s : s \in Slots(i + 1) <=> s \in Slots(i) \/ s = i BY <1>3 DEF Slots
<1>8. IsMap(fresh') /\ \A k \in Keys :
         Contents(fresh')[k] = IF \E s \in Slots(i + 1) : tab.entries[s].k = k
                               THEN Contents(tab)[k] ELSE Missing
  <2>1. CASE e.k = NoKey
    <3>1. fresh' = fresh BY <1>1, <2>1
    <3>2. \A k \in Keys : k # NoKey BY DEF TableConstants
    <3> QED BY <1>3, <1>6, <1>7, <2>1, <3>1, <3>2
  <2>2. CASE e.k # NoKey
    <3>1. fresh' = Put(fresh, e.k, e.v) /\ e.k \in Keys BY <1>1, <1>5, <2>2
    <3>2. Contents(tab)[e.k] = e.v BY <1>3, <2>2, <3>1, ContentsHeld DEF IsMap
    <3> HIDE DEF e
    <3>3. IsMap(fresh') /\ Contents(fresh') = [Contents(fresh) EXCEPT ![e.k] = e.v]
      BY <1>3, <1>4, <1>5, <3>1, PutIsMap, PutContents
    <3>4. Contents(fresh) = [k \in Keys |-> Contents(fresh)[k]] BY DEF Contents
    <3>5. \A k \in Keys : Contents(fresh')[k] = IF k = e.k THEN e.v ELSE Contents(fresh)[k]
      BY <3>3, <3>4
    <3>6. e = tab.entries[i] BY DEF e
    <3> HIDE DEF tab
    <3>7. ASSUME NEW k \in Keys
          PROVE  Contents(fresh')[k] = IF \E s \in Slots(i + 1) : tab.entries[s].k = k
                                       THEN Contents(tab)[k] ELSE Missing
      <4>1. CASE k = e.k
        <5>1. \E s \in Slots(i + 1) : tab.entries[s].k = k BY <1>7, <3>6, <4>1
        <5> QED BY <3>2, <3>5, <4>1, <5>1
      <4>2. CASE k # e.k
        <5>1. (\E s \in Slots(i + 1) : tab.entries[s].k = k) <=> \E s \in Slots(i) : tab.entries[s].k = k
          BY <1>7, <3>6, <4>2
        <5> QED BY <1>6, <3>5, <4>2, <5>1
      <4> QED BY <4>1, <4>2
    <3> QED BY <3>3, <3>7
  <2> QED BY <2>1, <2>2
<1> HIDE DEF e
<1>9. AllMaps' BY <1>1, <1>8 DEF MapsInv, AllMaps
<1>10. Interned' = Interned BY <1>1 DEF Interned
<1>11. KeysInterned' BY <1>1, <1>10 DEF MapsInv, KeysInterned
<1>12. OneObjectPerText' BY <1>10 DEF MapsInv, OneObjectPerText
<1>13. SetKnown' BY <1>1, <1>10 DEF MapsInv, SetKnown, InSet
<1>14. Rehashed' BY <1>1, <1>8 DEF Rehashed
<1>15. CopyKnown' BY <1>1 DEF MapsInv, CopyKnown, CopiedTo, InSet
<1>16. UNCHANGED Maps BY <1>1 DEF Maps
<1> QED BY <1>1, <1>9, <1>11, <1>12, <1>13, <1>14, <1>15, <1>16 DEF MapsInv, KVStep

\* At its end the new table holds what the old one held.
LEMMA InstallMaps ==
    ASSUME TableConstants, Parts, MapsInv, Parts', Install
    PROVE  MapsInv' /\ KVStep
<1> DEFINE t == args.t
<1>1. /\ pc = "rehash" /\ i = tables[t].capacity /\ tables' = [tables EXCEPT ![t] = fresh]
      /\ fresh' = NewTable(0) /\ pc' = "store" /\ UNCHANGED <<args, copy, ret>>
  BY DEF Install
<1>2. AllMaps BY DEF MapsInv
<1>3. /\ t \in Tables /\ DOMAIN tables = Tables /\ Strings \in Tables /\ IsMap(fresh) /\ Good(fresh)
      /\ Good(tables[t]) /\ IsMap(tables[t])
  BY <1>2, TableFacts
<1>4. Contents(fresh) = Contents(tables[t])
  <2>1. \A k \in Keys : Contents(fresh)[k] = IF Holds(tables[t], k) THEN Contents(tables[t])[k]
                                             ELSE Missing
    BY <1>1 DEF MapsInv, Rehashed, Holds
  <2>2. \A k \in Keys : Contents(fresh)[k] = Contents(tables[t])[k]
    BY <2>1, ContentsFree
  <2>3. /\ Contents(fresh) = [k \in Keys |-> Contents(fresh)[k]]
        /\ Contents(tables[t]) = [k \in Keys |-> Contents(tables[t])[k]]
    BY DEF Contents
  <2> QED BY <2>2, <2>3
<1> HIDE DEF t
<1>5. \A u \in Tables : tables'[u] = IF u = t THEN fresh ELSE tables[u] BY <1>1, <1>3
<1>6. \A u \in Tables : Contents(tables'[u]) = Contents(tables[u]) BY <1>4, <1>5
<1>7. AllMaps'
  <2>1. IsMap(fresh') BY <1>1, NewTableIsMap
  <2> QED BY <1>2, <1>5, <2>1 DEF AllMaps
<1>8. Interned' = Interned
  <2>1. Interned = {k \in Keys : Contents(tables[Strings])[k] # Missing}
    BY <1>2, InternedIs
  <2>2. Good(tables'[Strings]) /\ IsMap(tables'[Strings])
    BY <1>3, <1>7 DEF Parts, TablesGood, AllMaps
  <2> QED BY <1>3, <1>6, <2>1, <2>2, KeysAre DEF Interned
<1>9. KeysInterned'
  <2>1. \A u \in Tables \ {Strings}, q \in Keys :
           Contents(tables[u])[q] # Missing => Contents(tables[Strings])[q] # Missing
    BY <1>2, KeysInternedIs DEF MapsInv
  <2> QED BY <1>3, <1>6, <1>7, <2>1, KeysInternedNext
<1>10. OneObjectPerText' BY <1>8 DEF MapsInv, OneObjectPerText
<1>11. SetKnown' BY <1>1, <1>8 DEF MapsInv, SetKnown, InSet
<1>12. Rehashed' BY <1>1 DEF Rehashed
<1>13. CopyKnown'
  <2>1. CASE args.op = "copy"
    <3>1. /\ copy.from # Strings /\ copy.to # Strings /\ copy.from # copy.to
          /\ copy.j >= 1 /\ t = copy.to
          /\ tables[copy.from].entries[copy.j - 1] = [k |-> args.k, v |-> args.v]
          /\ CopiedTo(copy.j - 1)
      BY <1>1, <2>1 DEF MapsInv, CopyKnown, InSet, t
    <3>2. tables'[copy.from] = tables[copy.from] /\ Contents(tables'[copy.to]) = Contents(tables[copy.to])
      BY <1>2, <1>5, <1>6, <3>1, TableFacts
    <3> QED BY <1>1, <3>1, <3>2 DEF CopyKnown, CopiedTo, InSet, t
  <2>2. CASE args.op # "copy" BY <1>1, <2>2 DEF CopyKnown
  <2> QED BY <2>1, <2>2
<1>14. UNCHANGED Maps BY <1>6 DEF Maps
<1> QED BY <1>1, <1>7, <1>9, <1>10, <1>11, <1>12, <1>13, <1>14 DEF MapsInv, KVStep

\* The end of hashmap_set: what it stores, and the deletion of a global that was not
\* defined (vm.c:1084). This is where the maps change.
LEMMA StoreMaps ==
    ASSUME TableConstants, Parts, MapsInv, Parts', Store
    PROVE  MapsInv' /\ KVStep
<1> DEFINE t   == args.t
           k   == args.k
           new == IsNewKey(tables[t], k)
           put == Put(tables[t], k, args.v)
           tab == IF args.op = "assign" /\ new THEN Remove(put, k) ELSE put
           old == Contents(tables[t])[k]
<1>1. /\ pc = "store" /\ tables' = [tables EXCEPT ![t] = tab] /\ UNCHANGED <<fresh, i, copy>>
      /\ pc' = IF args.op = "copy" THEN "copy" ELSE "idle"
      /\ ret' = CASE args.op = "intern" -> <<"intern", k>>
                  [] args.op = "assign" -> <<"assign", k, new>>
                  [] OTHER -> <<"set", k, new>>
  BY DEF Store
<1>2. AllMaps BY DEF MapsInv
<1>3. /\ t \in Tables /\ DOMAIN tables = Tables /\ Strings \in Tables /\ args.v \in Values
      /\ Good(tables[t]) /\ IsMap(tables[t]) /\ SafeLoad(tables[t])
  BY <1>2, TableFacts
<1>4. k \in Keys /\ ~ Overloaded(tables[t]) BY <1>1 DEF Parts, RoomForSet
<1>5. tables[t].count < tables[t].capacity
  BY <1>3, <1>4 DEF Good, TableType, Overloaded
<1>6. new <=> old = Missing BY <1>3, <1>4, <1>5, LookupIs
<1>7. IsMap(put) /\ Contents(put) = [Contents(tables[t]) EXCEPT ![k] = args.v]
  BY <1>3, <1>4, <1>5, PutIsMap, PutContents
<1>8. Good(put) /\ SafeLoad(put)
  <2>1. /\ Good(put) /\ put.capacity = tables[t].capacity /\ put.count <= tables[t].count + 1
    BY <1>3, <1>4, <1>5, PutGood
  <2>2. /\ put.count \in Nat /\ tables[t].count \in Nat /\ tables[t].capacity \in Nat
        /\ 4 * (tables[t].count + 1) <= 3 * tables[t].capacity
    BY <1>3, <1>4, <2>1 DEF Good, TableType, Overloaded
  <2> HIDE DEF put, t
  <2> QED BY <1>3, <2>1, <2>2 DEF SafeLoad
<1>9. Contents(tables[t]) = [q \in Keys |-> Contents(tables[t])[q]] BY DEF Contents
<1>10. IsMap(tab) /\ \A q \in Keys :
          Contents(tab)[q] = IF q # k THEN Contents(tables[t])[q]
                             ELSE IF args.op = "assign" /\ new THEN Missing ELSE args.v
  <2>1. CASE args.op = "assign" /\ new
    <3>1. tab = Remove(put, k) BY <2>1
    <3> HIDE DEF tab, put, new, k, t
    <3>2. IsMap(tab) /\ Contents(tab) = [Contents(put) EXCEPT ![k] = Missing]
      BY <1>4, <1>7, <1>8, <3>1, RemoveContents
    <3>3. Contents(put) = [q \in Keys |-> Contents(put)[q]] BY DEF Contents
    <3> QED BY <1>7, <1>9, <2>1, <3>2, <3>3
  <2>2. CASE ~ (args.op = "assign" /\ new)
    <3>1. tab = put BY <2>2
    <3> HIDE DEF tab, put, new, k, t
    <3> QED BY <1>7, <1>9, <2>2, <3>1
  <2> QED BY <2>1, <2>2
<1>11. /\ args.op \in {"intern", "set", "assign", "copy"} /\ (args.op = "intern" <=> t = Strings)
       /\ args.op = "intern" => args.v = Null /\ \A x \in Interned : Chars[x] # Chars[k]
       /\ args.op # "intern" => k \in Interned
  BY <1>1 DEF MapsInv, SetKnown, InSet, Parts, CallType
<1> HIDE DEF tab, put, new, k, t, old
<1>12. \A u \in Tables : tables'[u] = IF u = t THEN tab ELSE tables[u] BY <1>1, <1>3
<1>13. AllMaps' BY <1>1, <1>2, <1>10, <1>12 DEF AllMaps
<1>14. Missing \notin Values /\ Null \in Values BY DEF TableConstants
<1>15. Interned = {x \in Keys : Contents(tables[Strings])[x] # Missing} /\ Interned = KV!Interned
  BY <1>2, InternedIs
<1>16. Interned' = IF args.op = "intern" THEN Interned \cup {k} ELSE Interned
  <2>1. Interned' = {x \in Keys : Contents(tables'[Strings])[x] # Missing}
    BY <1>3, <1>13, KeysAre DEF Interned, Parts, TablesGood, AllMaps
  <2>2. CASE args.op = "intern"
    <3>1. t = Strings /\ tables'[Strings] = tab BY <1>3, <1>11, <1>12, <2>2
    <3>2. \A x \in Keys : Contents(tab)[x] # Missing <=> x = k \/ Contents(tables[Strings])[x] # Missing
      BY <1>3, <1>4, <1>10, <1>14, <2>2, <3>1
    <3> QED BY <1>4, <1>15, <2>1, <2>2, <3>1, <3>2
  <2>3. CASE args.op # "intern"
    <3>1. tables'[Strings] = tables[Strings] BY <1>3, <1>11, <1>12, <2>3
    <3> QED BY <1>15, <2>1, <2>3, <3>1
  <2> QED BY <2>2, <2>3
<1>17. OneObjectPerText'
  <2>1. CASE args.op = "intern"
    <3> SUFFICES ASSUME NEW x \in Interned \cup {k}, NEW y \in Interned \cup {k}, Chars[x] = Chars[y]
                 PROVE  x = y
      BY <1>16, <2>1 DEF OneObjectPerText
    <3> QED BY <1>11, <2>1 DEF MapsInv, OneObjectPerText
  <2>2. CASE args.op # "intern" BY <1>16, <2>2, FewerStrings DEF MapsInv
  <2> QED BY <2>1, <2>2
<1>18. KeysInterned'
  <2>1. \A u \in Tables \ {Strings}, q \in Keys :
           Contents(tables[u])[q] # Missing => Contents(tables[Strings])[q] # Missing
    BY <1>2, KeysInternedIs DEF MapsInv
  <2>2. CASE args.op = "intern"
    <3>1. t = Strings BY <1>11, <2>2
    <3>2. \A q \in Keys : Contents(tables[Strings])[q] # Missing => Contents(tables'[Strings])[q] # Missing
      BY <1>3, <1>10, <1>12, <1>14, <2>2, <3>1
    <3>3. \A u \in Tables \ {Strings} : tables'[u] = tables[u] BY <1>12, <3>1
    <3> QED BY <1>13, <2>1, <3>2, <3>3, KeysInternedNext
  <2>3. CASE args.op # "intern"
    <3>1. tables'[Strings] = tables[Strings] /\ k \in Interned BY <1>3, <1>11, <1>12, <2>3
    <3>2. Contents(tables[Strings])[k] # Missing BY <1>15, <3>1
    <3>3. \A u \in Tables \ {Strings}, q \in Keys :
             Contents(tables'[u])[q] # Missing => q = k \/ Contents(tables[u])[q] # Missing
      BY <1>10, <1>12
    <3> QED BY <1>13, <2>1, <3>1, <3>2, <3>3, KeysInternedNext
  <2> QED BY <2>2, <2>3
<1>19. SetKnown' /\ Rehashed' BY <1>1 DEF SetKnown, Rehashed, InSet
<1>20. CopyKnown'
  <2>1. CASE args.op = "copy"
    <3>1. /\ copy.from # Strings /\ copy.to # Strings /\ copy.from # copy.to
          /\ copy.j >= 1 /\ t = copy.to /\ copy.j \in Nat
          /\ tables[copy.from].entries[copy.j - 1] = [k |-> k, v |-> args.v]
          /\ CopiedTo(copy.j - 1)
      BY <1>1, <1>2, <2>1, TableFacts DEF MapsInv, CopyKnown, InSet, t, k
    <3>2. tables'[copy.from] = tables[copy.from] /\ tables'[copy.to] = tab /\ copy.from \in Tables
      BY <1>2, <1>12, <3>1, TableFacts
    <3>3. ASSUME NEW s \in Slots(copy.j), tables[copy.from].entries[s].k # NoKey
          PROVE  Contents(tab)[tables[copy.from].entries[s].k] = tables[copy.from].entries[s].v
      <4>1. CASE s = copy.j - 1
        <5>1. Contents(tab)[k] = args.v BY <1>4, <1>10, <2>1
        <5> QED BY <3>1, <4>1, <5>1
      <4>2. CASE s # copy.j - 1
        <5>1. s \in Slots(copy.j - 1) BY <3>1, <4>2 DEF Slots
        <5>2. copy.j <= tables[copy.from].capacity /\ tables[copy.from].capacity \in Nat
          BY <1>2, TableFacts DEF Parts, CopyInRange
        <5>3. s \in Slots(tables[copy.from].capacity) /\ copy.j - 1 \in Slots(tables[copy.from].capacity)
          BY <3>1, <5>1, <5>2 DEF Slots
        <5>4. tables[copy.from].entries[s].k # k
          BY <1>2, <3>1, <3>2, <3>3, <4>2, <5>3 DEF AllMaps, IsMap, Unique
        <5>5. tables[copy.from].entries[s].k \in Keys
          BY <1>2, <3>2, <3>3, <5>3, TableFacts DEF Good, TableType
        <5>6. Contents(tables[copy.to])[tables[copy.from].entries[s].k] = tables[copy.from].entries[s].v
          BY <3>1, <3>3, <5>1 DEF CopiedTo
        <5> QED BY <1>10, <3>1, <5>4, <5>5, <5>6
      <4> QED BY <4>1, <4>2
    <3>4. CopiedTo(copy.j)' BY <1>1, <3>2, <3>3 DEF CopiedTo
    <3> QED BY <1>1, <2>1, <3>1, <3>4 DEF CopyKnown, InSet
  <2>2. CASE args.op # "copy" BY <1>1, <2>2 DEF CopyKnown, InSet
  <2> QED BY <2>1, <2>2
<1>21. KVStep
  <2>1. Maps[t] = Contents(tables[t]) /\ DOMAIN Maps = Tables BY <1>3 DEF Maps
  <2>2. Maps' = [Maps EXCEPT ![t] = Contents(tab)] BY <1>12 DEF Maps
  <2>3. Contents(tab) = [q \in Keys |-> Contents(tab)[q]] BY DEF Contents
  <2>4. CASE args.op = "intern"
    <3>1. t = Strings /\ args.v = Null /\ ret' = <<"intern", k>> BY <1>1, <1>11, <2>4
    <3>2. Contents(tab) = [Contents(tables[t]) EXCEPT ![k] = Null]
      BY <1>4, <1>9, <1>10, <2>3, <2>4, <3>1
    <3>3. Maps' = [Maps EXCEPT ![Strings][k] = Null] BY <1>3, <2>1, <2>2, <3>1, <3>2
    <3>4. \A x \in KV!Interned : Chars[x] # Chars[k] BY <1>11, <1>15, <2>4
    <3>5. KV!InternMiss(k) BY <3>1, <3>3, <3>4 DEF KV!InternMiss, Maps
    <3> QED BY <1>4, <3>5 DEF KVStep, KV!Next
  <2>5. CASE args.op \in {"set", "copy"}
    <3>1. t # Strings /\ k \in KV!Interned /\ ret' = <<"set", k, new>> BY <1>1, <1>11, <1>15, <2>5
    <3>2. Contents(tab) = [Contents(tables[t]) EXCEPT ![k] = args.v]
      BY <1>4, <1>9, <1>10, <2>3, <2>5
    <3>3. Maps' = [Maps EXCEPT ![t][k] = args.v] BY <1>3, <2>1, <2>2, <3>2
    <3>4. ret' = <<"set", k, Maps[t][k] = Missing>>
      <4>1. new = (Maps[t][k] = Missing) BY <1>6, <2>1 DEF old, new, IsNewKey
      <4> QED BY <3>1, <4>1
    <3>5. KV!Set(t, k, args.v) BY <3>3, <3>4 DEF KV!Set, Maps
    <3> QED BY <1>3, <3>1, <3>5 DEF KVStep, KV!Next
  <2>6. CASE args.op = "assign"
    <3>1. t # Strings /\ k \in KV!Interned /\ ret' = <<"assign", k, new>> BY <1>1, <1>11, <1>15, <2>6
    <3>2. new = (Maps[t][k] = Missing) BY <1>6, <2>1 DEF old, new, IsNewKey
    <3>3. CASE new
      <4>1. Contents(tab) = Contents(tables[t])
        BY <1>4, <1>6, <1>9, <1>10, <2>3, <2>6, <3>3 DEF old
      <4>2. Maps' = Maps BY <2>1, <2>2, <4>1 DEF Maps
      <4> QED BY <3>1, <3>2, <3>3, <4>2, <1>3 DEF KVStep, KV!Next, KV!Assign, Maps
    <3>4. CASE ~ new
      <4>1. Contents(tab) = [Contents(tables[t]) EXCEPT ![k] = args.v]
        BY <1>4, <1>9, <1>10, <2>3, <2>6, <3>4
      <4>2. Maps' = [Maps EXCEPT ![t][k] = args.v] BY <1>3, <2>1, <2>2, <4>1
      <4>3. KV!Assign(t, k, args.v) BY <3>1, <3>2, <3>4, <4>2 DEF KV!Assign, Maps
      <4> QED BY <1>3, <3>1, <4>3 DEF KVStep, KV!Next
    <3> QED BY <3>3, <3>4
  <2> QED BY <1>11, <2>4, <2>5, <2>6
<1> QED BY <1>13, <1>17, <1>18, <1>19, <1>20, <1>21 DEF MapsInv
-----------------------------------------------------------------------------
(* The theorems. *)

LEMMA InitMaps ==
    ASSUME TableConstants, Init
    PROVE  MapsInv /\ KV!Init
<1>1. IsMap(NewTable(0)) /\ \A k \in Keys : Contents(NewTable(0))[k] = Missing
  BY NewTableIsMap
<1>2. /\ Strings \in Tables /\ fresh = NewTable(0) /\ \A t \in Tables : tables[t] = NewTable(0)
      /\ pc = "idle" /\ ret = <<"none">>
  BY DEF Init, TableConstants
<1>3. AllMaps BY <1>1, <1>2 DEF AllMaps
<1>4. Slots(0) = {} BY DEF Slots
<1>5. \A t \in Tables : KeysIn(tables[t]) = {} BY <1>2, <1>4 DEF KeysIn, NewTable
<1>6. KeysInterned /\ OneObjectPerText
  BY <1>2, <1>5 DEF KeysInterned, OneObjectPerText, Interned
<1>7. SetKnown /\ Rehashed /\ CopyKnown BY <1>2 DEF SetKnown, Rehashed, CopyKnown, InSet
<1>8. Contents(NewTable(0)) = [k \in Keys |-> Missing]
  <2>1. Contents(NewTable(0)) = [k \in Keys |-> Contents(NewTable(0))[k]] BY DEF Contents
  <2> QED BY <1>1, <2>1
<1>9. KV!Init BY <1>2, <1>8 DEF KV!Init
<1> QED BY <1>3, <1>6, <1>7, <1>9 DEF MapsInv

\* Every step keeps the invariant, and is a step of the maps or leaves them alone.
LEMMA NextMaps ==
    ASSUME TableConstants, Parts, MapsInv, [Next]_vars
    PROVE  MapsInv' /\ KVStep
<1>0. Parts' BY NextParts
<1>1. ASSUME NEW k \in Keys, Intern(k) PROVE MapsInv' /\ KVStep BY <1>1, InternMaps
<1>2. ASSUME NEW t \in Tables \ {Strings}, NEW k \in Interned,
             \/ \E v \in Values, op \in {"set", "assign"} : StartSet(op, t, k, v)
             \/ Get(t, k)
             \/ Delete(t, k)
      PROVE  MapsInv' /\ KVStep
  <2>1. ASSUME NEW v \in Values, NEW op \in {"set", "assign"}, StartSet(op, t, k, v)
        PROVE  MapsInv' /\ KVStep
    BY <2>1, StartSetMaps
  <2>2. CASE Get(t, k) BY <2>2, GetMaps
  <2>3. CASE Delete(t, k) BY <1>0, <2>3, DeleteMaps
  <2> QED BY <1>2, <2>1, <2>2, <2>3
<1>3. ASSUME NEW from \in Tables \ {Strings}, NEW to \in Tables \ {Strings}, StartCopy(from, to)
      PROVE  MapsInv' /\ KVStep
  BY <1>3, StartCopyMaps
<1>4. CASE CopyEntry BY <1>4, CopyEntryMaps
<1>5. CASE Rehash BY <1>5, RehashMaps
<1>6. CASE Install BY <1>0, <1>6, InstallMaps
<1>7. CASE Store BY <1>0, <1>7, StoreMaps
<1>8. ASSUME NEW dead \in SUBSET Collectable, Allocate(dead) PROVE MapsInv' /\ KVStep
  BY <1>0, <1>8, AllocateMaps
<1>9. ASSUME NEW dead \in SUBSET Collectable, Collect(dead) PROVE MapsInv' /\ KVStep
  BY <1>0, <1>9, CollectMaps
<1>10. CASE UNCHANGED vars
  <2>1. UNCHANGED <<tables, pc, args, fresh, i, copy, ret>> BY <1>10 DEF vars
  <2> QED BY <2>1, AnswerMaps DEF KVStep
<1>11. CASE Call BY <1>11, <1>1, <1>2, <1>3 DEF Call
<1>12. CASE Return BY <1>12, <1>4, <1>5, <1>6, <1>7, <1>8 DEF Return
<1> QED BY <1>9, <1>10, <1>11, <1>12 DEF Next

\* The invariant behind the map: in every table a key is reached from its home, and
\* has one entry; what is being set, rehashed or copied is on its way to such a table.
THEOREM MapInvariant == Spec => [](Parts /\ MapsInv)
<1> USE TableConstants
<1>1. Init => Parts /\ MapsInv BY InitParts, InitMaps
<1>2. Parts /\ MapsInv /\ [Next]_vars => Parts' /\ MapsInv' BY NextParts, NextMaps
<1> QED BY <1>1, <1>2, PTL DEF Spec

\* No deletion, sweep, growth or reused tombstone makes find_entry miss a key
\* (hashmap.c:21): each entry is the one found for its key.
THEOREM KeysAreFound == Spec => []EveryKeyFound
<1> USE TableConstants
<1>1. ASSUME Parts, MapsInv, NEW tab \in AllTables, NEW s \in Slots(tab.capacity),
             tab.entries[s].k # NoKey
      PROVE  FindEntry(tab, tab.entries[s].k) = s
  <2>1. Good(tab) /\ IsMap(tab) BY <1>1, TableFacts DEF AllTables, MapsInv
  <2>2. tab.entries[s].k \in Keys BY <1>1, <2>1 DEF Good, TableType
  <2>3. tab.count < tab.capacity
    <3>1. CASE tab = fresh
      <4>1. tab.capacity # 0 BY <1>1 DEF Slots
      <4>2. pc = "rehash" BY <1>1, <3>1, <4>1 DEF Parts, RoomForSet
      <4>3. args.t \in Tables /\ Good(tables[args.t]) /\ SafeLoad(tables[args.t]) /\ i \in Nat
        BY <1>1, TableFacts DEF MapsInv
      <4>4. tables[args.t].capacity \in Nat /\ tab.count \in Nat
        BY <2>1, <4>3 DEF Good, TableType
      <4>5. /\ tab.capacity = Grow(tables[args.t].capacity)
            /\ i <= tables[args.t].capacity /\ tab.count <= i
        BY <1>1, <3>1, <4>2 DEF Parts, RoomForSet
      <4>6. Grow(tables[args.t].capacity) \in Nat
            /\ Grow(tables[args.t].capacity) > tables[args.t].capacity
        BY <4>3, <4>4, GrowRoom DEF SafeLoad
      <4> QED BY <4>3, <4>4, <4>5, <4>6
    <3>2. CASE \E t \in Tables : tab = tables[t]
      BY <1>1, <2>1, <3>2 DEF Parts, TablesGood, SafeLoad, Good, TableType, Slots
    <3> QED BY <1>1, <3>1, <3>2 DEF AllTables
  <2> QED BY <1>1, <2>1, <2>2, <2>3, FindsKey
<1>2. Parts /\ MapsInv => EveryKeyFound BY <1>1 DEF EveryKeyFound
<1> QED BY <1>2, MapInvariant, PTL

\* Strings may be compared by pointer: the intern table has one object for a text
\* (object.c:126), whatever was collected meanwhile.
THEOREM StringsAreUnique == Spec => []OneObjectPerText
<1>1. MapsInv => OneObjectPerText BY DEF MapsInv
<1> QED BY <1>1, MapInvariant, PTL

\* hashmap_copy_all has copied what it has passed (hashmap.c:94), over every growth of
\* the target between two of its turns.
THEOREM CopiesAreKept == Spec => []CopyKeeps
<1> USE TableConstants
<1>1. ASSUME Parts, MapsInv, pc = "copy", NEW s \in Slots(copy.j),
             tables[copy.from].entries[s].k # NoKey
      PROVE  Lookup(tables[copy.to], tables[copy.from].entries[s].k) = tables[copy.from].entries[s].v
  <2>1. AllMaps /\ CopiedTo(copy.j) BY <1>1 DEF MapsInv, CopyKnown
  <2>2. copy.j <= tables[copy.from].capacity BY <1>1 DEF Parts, CopyInRange
  <2>3. s \in Slots(tables[copy.from].capacity) BY <1>1, <2>1, <2>2, TableFacts DEF Slots
  <2>4. tables[copy.from].entries[s].k \in Keys
    <3>1. tables[copy.from].entries \in
             [Slots(tables[copy.from].capacity) -> [k : Keys \cup {NoKey}, v : Values]]
      BY <1>1, <2>1, TableFacts DEF Good, TableType
    <3> QED BY <1>1, <2>3, <3>1
  <2>5. Lookup(tables[copy.to], tables[copy.from].entries[s].k)
           = Contents(tables[copy.to])[tables[copy.from].entries[s].k]
    BY <1>1, <2>1, <2>4, TableFacts, LookupIs
  <2> QED BY <1>1, <2>1, <2>5 DEF CopiedTo
<1>2. Parts /\ MapsInv => CopyKeeps BY <1>1 DEF CopyKeeps
<1> QED BY <1>2, MapInvariant, PTL

\* src/hashmap.c implements maps: the tables hold what KVStore's maps hold, and every
\* call answers what it would answer over those.
THEOREM ImplementsMaps == Spec => ImplementsKVStore
<1> USE TableConstants
<1>1. Init => KV!Init BY InitMaps
<1>2. Parts /\ MapsInv /\ [Next]_vars
      => [KV!Next]_<<[t \in Tables |-> Contents(tables[t])], ret>>
  BY NextMaps DEF KVStep, Maps
<1> QED BY <1>1, <1>2, MapInvariant, PTL DEF Spec, ImplementsKVStore, KV!Spec
===============================================================================
