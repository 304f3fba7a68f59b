------------------------------ MODULE HashmapMC ------------------------------
(***************************************************************************)
(* Hashmap on small instances.                                             *)
(***************************************************************************)
EXTENDS Hashmap

Bits == INSTANCE Bitwise

\* Two of the texts hash to the same slot and one to the last slot, so that
\* probes collide and wrap around; two objects may carry the text "a".
MCChars == [k \in Keys |-> CASE k = "a1" -> "a" [] k = "a2" -> "a"
                             [] k = "b"  -> "b" [] OTHER -> "c"]
MCHash  == [c \in {"a", "b", "c"} |-> CASE c = "a" -> 3 [] c = "b" -> 7 [] OTHER -> 4]

-----------------------------------------------------------------------------
\* A probe starts at hash % capacity in find_entry, at hash & (capacity-1) in
\* find_string, and continues with & (capacity-1) (hashmap.c:22, 37, 106): these
\* are the same walk because growth keeps every capacity a power of two.
CapacityIsPowerOfTwo ==
    \A tab \in AllTables : tab.capacity > 0 => Bits!&(tab.capacity, tab.capacity - 1) = 0
==============================================================================
