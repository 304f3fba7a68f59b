------------------------------- MODULE KVStore -------------------------------
(***************************************************************************)
(* What canidae's hash tables promise the rest of the VM: each table is a  *)
(* map from interned strings to values, and one table, Strings, is the     *)
(* weak set of the strings that exist, at most one object per text.        *)
(* Nothing here knows about slots, probing, tombstones or growth; Hashmap  *)
(* is shown to implement this module.                                      *)
(***************************************************************************)
EXTENDS Naturals

CONSTANTS Tables, Strings, Keys, Chars, Values, Null, Missing, NoKey

VARIABLES maps,    \* maps[t][k] is the value table t holds for k, or Missing
          ret      \* what the last completed call returned to its caller

Interned == {k \in Keys : maps[Strings][k] # Missing}

Init == /\ maps = [t \in Tables |-> [k \in Keys |-> Missing]]
        /\ ret = <<"none">>

\* copy_string and take_string on a text that already exists return its object.
InternHit(k) == /\ k \in Interned
                /\ ret' = <<"intern", k>>
                /\ UNCHANGED maps

\* ... and otherwise make the object of that text, the only one there is.
InternMiss(k) == /\ \A x \in Interned : Chars[x] # Chars[k]
                 /\ maps' = [maps EXCEPT ![Strings][k] = Null]
                 /\ ret' = <<"intern", k>>

\* hashmap_set tells whether the key is new.
Set(t, k, v) == /\ maps' = [maps EXCEPT ![t][k] = v]
                /\ ret' = <<"set", k, maps[t][k] = Missing>>

\* Assignment to a global changes it only when it is defined.
Assign(t, k, v) == /\ maps' = IF maps[t][k] = Missing THEN maps
                              ELSE [maps EXCEPT ![t][k] = v]
                   /\ ret' = <<"assign", k, maps[t][k] = Missing>>

Get(t, k) == /\ ret' = <<"get", k, maps[t][k]>>
             /\ UNCHANGED maps

Delete(t, k) == /\ maps' = [maps EXCEPT ![t][k] = Missing]
                /\ ret' = <<"delete", k, maps[t][k] # Missing>>

\* The collector forgets strings nobody refers to: never one that is a key of
\* another table.
Forget(dead) ==
    /\ \A k \in dead, t \in Tables \ {Strings} : maps[t][k] = Missing
    /\ maps' = [maps EXCEPT ![Strings] =
                   [k \in Keys |-> IF k \in dead THEN Missing ELSE @[k]]]
    /\ UNCHANGED ret

Next == \/ \E k \in Keys : InternHit(k) \/ InternMiss(k)
        \/ \E t \in Tables \ {Strings}, k \in Interned :
              \/ \E v \in Values : Set(t, k, v) \/ Assign(t, k, v)
              \/ Get(t, k) \/ Delete(t, k)
        \/ \E dead \in SUBSET Interned : Forget(dead)

Spec == Init /\ [][Next]_<<maps, ret>>
==============================================================================
