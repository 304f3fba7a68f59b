------------------------------ MODULE ArrayStore ------------------------------
(***************************************************************************)
(* What a canidae program expects of arrays: each is a sequence of values  *)
(* that grows by push and by assignment beyond its end, where the elements *)
(* skipped are null, and x[i] op= e writes to the element it has read.     *)
(* Nothing here knows about capacities or memory; Arrays is shown to       *)
(* implement this module for the programs its OrderlySpec describes.       *)
(***************************************************************************)
EXTENDS Naturals, Sequences

CONSTANTS Arrays, Values, Null, Unmade, NoUpdate, MaxLength

VARIABLES contents,  \* contents[a] is the sequence of a's elements, or Unmade
          update     \* the element x[i] op= e has read and will write, or NoUpdate

Made == {a \in Arrays : contents[a] # Unmade}

Init == contents = [a \in Arrays |-> Unmade] /\ update = NoUpdate

\* An array display, or the concatenation of two arrays: a new array.
Make(a, s) == /\ a \notin Made
              /\ contents' = [contents EXCEPT ![a] = s]
              /\ UNCHANGED update

Push(a, v) == /\ contents' = [contents EXCEPT ![a] = Append(@, v)]
              /\ UNCHANGED update

Pop(a) == /\ contents[a] # <<>>
          /\ contents' = [contents EXCEPT ![a] = SubSeq(@, 1, Len(@) - 1)]
          /\ UNCHANGED update

\* The sequence s with v at position i, null where it had no element before.
Padded(s, i, v) == [k \in 1 .. (IF i > Len(s) THEN i ELSE Len(s)) |->
                       IF k = i THEN v ELSE IF k <= Len(s) THEN s[k] ELSE Null]

Assign(a, i, v) == /\ contents' = [contents EXCEPT ![a] = Padded(@, i, v)]
                   /\ UNCHANGED update

BeginUpdate(a, i) == /\ i <= Len(contents[a])
                     /\ update' = [array |-> a, element |-> i]
                     /\ UNCHANGED contents

EndUpdate(v) ==
    /\ update # NoUpdate
    /\ contents' = [contents EXCEPT ![update.array] = Padded(@, update.element, v)]
    /\ update' = NoUpdate

\* An error in e leaves the update undone.
AbandonUpdate == update # NoUpdate /\ update' = NoUpdate /\ UNCHANGED contents

\* The program has lost its last reference to an array.
Discard(a) == /\ update # NoUpdate => update.array # a
              /\ contents' = [contents EXCEPT ![a] = Unmade]
              /\ UNCHANGED update

Short == UNION {[1 .. n -> Values] : n \in 0 .. MaxLength}

Next == \/ \E a \in Arrays, s \in Short : Make(a, s)
        \/ \E a \in Made : \/ \E v \in Values : Push(a, v)
                           \/ Pop(a)
                           \/ Discard(a)
                           \/ \E i \in 1 .. MaxLength : \/ BeginUpdate(a, i)
                                                        \/ \E v \in Values : Assign(a, i, v)
        \/ \E v \in Values : EndUpdate(v)
        \/ AbandonUpdate

Spec == Init /\ [][Next]_<<contents, update>>
===============================================================================
