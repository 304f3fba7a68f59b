-------------------------------- MODULE Arrays --------------------------------
(***************************************************************************)
(* Arrays (src/object.c, value.c, stdlib_arrays.c and the instructions of  *)
(* vm.c that use them): a block of slots, of which the first len are the   *)
(* elements, and what the slots above len hold: whatever realloc found     *)
(* there, null, or an element that was popped and that the collector no    *)
(* longer marks.                                                           *)
(*                                                                         *)
(* An index is a double. It is modelled in halves, so that -1 is minus one *)
(* half: what the code does with a fraction is to drop it.                 *)
(***************************************************************************)
EXTENDS Integers, Sequences

CONSTANTS Arrays,      \* the array objects a program may have at a time
          Objects,     \* the other heap objects that may be elements
          Null, Junk, None,
          MinCapacity, \* 8, the least capacity GROW_CAPACITY answers
          MaxCapacity, \* bound on the capacity of an array
          MaxDisplay,  \* bound on the elements of an array display
          Indices      \* the indices a program uses, in halves

ASSUME ArrayConstants ==
    /\ MinCapacity \in Nat \ {0} /\ MaxCapacity \in Nat /\ MaxDisplay \in 0 .. MaxCapacity
    /\ Indices \subseteq Int
    /\ Null \notin Objects /\ Junk \notin Objects /\ Null # Junk
    /\ None \notin Seq(Objects \cup {Null, Junk})
    /\ None \notin [array : Arrays, index : Int, element : Nat]
    /\ None \notin [array : Arrays, element : Nat]

VARIABLES len, cap,  \* of each array; no array has capacity 0 once it is made
          slots,     \* the values of each array's block
          alive,     \* the objects the collector has not freed
          held,      \* the objects the stack and the variables refer to
          update     \* x[i] op= e, between the read and the write, or None

vars == <<len, cap, slots, alive, held, update>>
-----------------------------------------------------------------------------
Values   == Objects \cup {Null}
Position == 0 .. MaxCapacity - 1
Made     == {a \in Arrays : cap[a] > 0}
InHand   == held \cup {Null}     \* the values an instruction can find on the stack

Elements(a) == [k \in 1 .. len[a] |-> slots[a][k - 1]]

PowersOfTwo == {p \in 1 .. MaxCapacity : \E k \in 0 .. MaxCapacity : p = 2^k}

Grow(n) == IF n < MinCapacity THEN MinCapacity ELSE 2 * n

Init == /\ len = [a \in Arrays |-> 0] /\ cap = [a \in Arrays |-> 0]
        /\ slots = [a \in Arrays |-> [i \in Position |-> Junk]]
        /\ alive = {} /\ held = {} /\ update = None

\* The program makes an object (a string, say); it may get the address of one
\* that was freed. It forgets one; the collector frees what is not reachable,
\* which of an array are its elements.
NewObject(o) ==
    /\ o \notin alive
    /\ alive' = alive \cup {o} /\ held' = held \cup {o}
    /\ UNCHANGED <<len, cap, slots, update>>

Forget(o) ==
    /\ o \in held
    /\ held' = held \ {o}
    /\ UNCHANGED <<len, cap, slots, alive, update>>

\* Fault: the last element is not marked.
Marked_OneShort(a) == {slots[a][i] : i \in 0 .. len[a] - 2}

Marked(a) == {slots[a][i] : i \in 0 .. len[a] - 1}

Collect ==
    /\ alive' = alive \cap (held \cup UNION {Marked(a) : a \in Made})
    /\ alive' # alive
    /\ UNCHANGED <<len, cap, slots, held, update>>

\* Fault: an array that only the stack refers to is freed.
Discard_InUse(a) ==
    /\ a \in Made
    /\ len' = [len EXCEPT ![a] = 0] /\ cap' = [cap EXCEPT ![a] = 0]
    /\ slots' = [slots EXCEPT ![a] = [i \in Position |-> Junk]]
    /\ UNCHANGED <<alive, held, update>>

\* The array itself is garbage, and is freed with its block.
Discard(a) ==
    /\ a \in Made
    /\ update # None => update.array # a
    /\ len' = [len EXCEPT ![a] = 0] /\ cap' = [cap EXCEPT ![a] = 0]
    /\ slots' = [slots EXCEPT ![a] = [i \in Position |-> Junk]]
    /\ UNCHANGED <<alive, held, update>>

\* allocate_array: the block is extended to the next power of two.
AllocateArray(a, s) ==
    /\ cap[a] = 0
    /\ \E pow \in PowersOfTwo :
          /\ Len(s) <= pow /\ pow <= MaxCapacity
          /\ pow > 1 => pow < 2 * Len(s)
          /\ cap' = [cap EXCEPT ![a] = pow]
    /\ len' = [len EXCEPT ![a] = Len(s)]
    /\ slots' = [slots EXCEPT ![a] = [i \in Position |-> IF i < Len(s) THEN s[i + 1] ELSE Junk]]

\* OP_MAKE_ARRAY; OP_ADD of two arrays.
MakeArray(a, s) == AllocateArray(a, s) /\ UNCHANGED <<alive, held, update>>

Concatenate(a, b, c) ==
    /\ AllocateArray(c, Elements(a) \o Elements(b))
    /\ UNCHANGED <<alive, held, update>>

\* Fault: a slot too late.
Push_GrowsLate(a, v) ==
    /\ len[a] < MaxCapacity
    /\ cap' = [cap EXCEPT ![a] = IF len[a] > @ THEN Grow(@) ELSE @]
    /\ slots' = [slots EXCEPT ![a][len[a]] = v]
    /\ len' = [len EXCEPT ![a] = @ + 1]
    /\ UNCHANGED <<alive, held, update>>

\* push(): a full block grows, by slots that are not cleared.
Push(a, v) ==
    /\ cap' = [cap EXCEPT ![a] = IF len[a] >= @ THEN Grow(@) ELSE @]
    /\ cap'[a] <= MaxCapacity
    /\ slots' = [slots EXCEPT ![a][len[a]] = v]
    /\ len' = [len EXCEPT ![a] = @ + 1]
    /\ UNCHANGED <<alive, held, update>>

\* pop(): the element stays in its slot.
Pop(a) ==
    /\ len[a] > 0
    /\ len' = [len EXCEPT ![a] = @ - 1]
    /\ held' = held \cup ({slots[a][len[a] - 1]} \cap Objects)
    /\ UNCHANGED <<cap, slots, alive, update>>

\* An index from the end is counted from len, then the fraction is dropped.
FromStart(a, index) == IF index < 0 THEN index + 2 * len[a] ELSE index

Slot(a, index) == FromStart(a, index) \div 2

InRange(a, index) == FromStart(a, index) >= 0 /\ Slot(a, index) < len[a]

\* OP_ARRAY_GET, and OP_ARRAY_GET_KEEP_REF, which leaves the array and the index
\* on the stack for the OP_ARRAY_SET that ends x[index] op= e.
ArrayGet(a, index) ==
    /\ InRange(a, index)
    /\ held' = held \cup ({slots[a][Slot(a, index)]} \cap Objects)
    /\ UNCHANGED <<len, cap, slots, alive, update>>

ArrayGetKeepRef(a, index) ==
    /\ InRange(a, index) /\ update = None
    /\ held' = held \cup ({slots[a][Slot(a, index)]} \cap Objects)
    /\ update' = [array |-> a, index |-> index, element |-> Slot(a, index)]
    /\ UNCHANGED <<len, cap, slots, alive>>

\* Fault: what the block grows by is left as it is.
ArraySet_NotCleared(a, i, v) ==
    /\ i < MaxCapacity
    /\ cap' = [cap EXCEPT ![a] = IF i < @ THEN @ ELSE MaxCapacity]
    /\ slots' = [slots EXCEPT ![a][i] = v]
    /\ len' = [len EXCEPT ![a] = IF @ < i + 1 THEN i + 1 ELSE @]

\* The capacity after the loop that grows a block until it has slot i.
GrownTo(c, i) ==
    IF i < c THEN {c}
    ELSE {n \in {Grow(c) * p : p \in PowersOfTwo} : i < n /\ (n = Grow(c) \/ n \div 2 <= i)}

\* array_set: grow until the slot exists and clear what the block grows by. The
\* slots that were there already keep what they hold.
ArraySet(a, i, v) ==
    /\ \E new \in GrownTo(cap[a], i) :
          /\ new <= MaxCapacity
          /\ cap' = [cap EXCEPT ![a] = new]
          /\ slots' = [slots EXCEPT ![a] =
                [s \in Position |-> IF s = i THEN v
                                    ELSE IF s \in cap[a] .. new - 1 THEN Null
                                    ELSE @[s]]]
    /\ len' = [len EXCEPT ![a] = IF @ < i + 1 THEN i + 1 ELSE @]

\* OP_ARRAY_SET, for x[index] = v and for the end of an update. An index from the
\* end is counted from the len of now.
Assign(a, index, v) ==
    /\ FromStart(a, index) >= 0
    /\ ArraySet(a, Slot(a, index), v)
    /\ UNCHANGED <<alive, held, update>>

EndUpdate(v) ==
    /\ update # None
    /\ FromStart(update.array, update.index) >= 0
    /\ ArraySet(update.array, Slot(update.array, update.index), v)
    /\ update' = None
    /\ UNCHANGED <<alive, held>>

\* An error between the read and the write (an index out of range among them)
\* takes the array and the index off the stack.
AbandonUpdate == /\ update # None /\ update' = None
                 /\ UNCHANGED <<len, cap, slots, alive, held>>

Displays == UNION {[1 .. n -> InHand] : n \in 0 .. MaxDisplay}

Heap == (\E o \in Objects : NewObject(o) \/ Forget(o)) \/ Collect

Next == \/ Heap
        \/ \E a \in Arrays, s \in Displays : MakeArray(a, s)
        \/ \E a, b \in Made, c \in Arrays : Concatenate(a, b, c)
        \/ \E a \in Made : \/ Discard(a) \/ Pop(a)
                           \/ \E v \in InHand : Push(a, v)
                           \/ \E index \in Indices :
                                 \/ ArrayGet(a, index) \/ ArrayGetKeepRef(a, index)
                                 \/ \E v \in InHand : Assign(a, index, v)
        \/ \E v \in InHand : EndUpdate(v)
        \/ AbandonUpdate

Spec == Init /\ [][Next]_vars
-----------------------------------------------------------------------------
(***************************************************************************)
(* Arrays are what programs expect as long as no assignment beyond the end *)
(* skips slots the block already has, and no array changes its length      *)
(* while an update counts from its end.                                    *)
(***************************************************************************)
SkipsOldSlots == \E a \in Made : len'[a] > len[a] + 1 /\ len[a] < cap[a]

EndMovesInUpdate == update # None /\ update.index < 0 /\ len'[update.array] # len[update.array]

OrderlyNext == Next /\ ~SkipsOldSlots /\ ~EndMovesInUpdate
OrderlySpec == Init /\ [][OrderlyNext]_vars
-----------------------------------------------------------------------------
TypeOK ==
    /\ len \in [Arrays -> 0 .. MaxCapacity] /\ cap \in [Arrays -> 0 .. MaxCapacity]
    /\ slots \in [Arrays -> [Position -> Values \cup {Junk}]]
    /\ alive \subseteq Objects /\ held \subseteq Objects
    /\ update # None => /\ update.array \in Made /\ update.index \in Int
                        /\ update.element \in Position

\* The elements lie inside the block (value.c:14, object.c:176): what the loops
\* over len read, the collector's among them, was allocated.
LenWithinCapacity == \A a \in Arrays : len[a] <= cap[a]

\* An array never holds an object that was freed, nor an uninitialised slot,
\* although popped elements and fresh memory stay behind its end and the
\* collector marks only what is below it (memory.c:164).
ElementsLive == \A a \in Made : \A i \in 0 .. len[a] - 1 : slots[a][i] \in alive \cup {Null}

\* What an orderly step relies on: the stack refers to no freed object, and an
\* update still means the element it has read.
UpdateSteady ==
    update # None => /\ FromStart(update.array, update.index) >= 0
                     /\ Slot(update.array, update.index) = update.element

OrderlyInv == /\ TypeOK /\ LenWithinCapacity /\ ElementsLive
              /\ held \subseteq alive
              /\ UpdateSteady

Contents == [a \in Arrays |-> IF cap[a] = 0 THEN None ELSE Elements(a)]

Updated == IF update = None THEN None
           ELSE [array |-> update.array, element |-> update.element + 1]

Store == INSTANCE ArrayStore WITH
            contents <- Contents, update <- Updated,
            Unmade <- None, NoUpdate <- None, MaxLength <- MaxCapacity

\* Arrays are sequences: growth, popped slots and collections cannot be seen.
ImplementsArrayStore == Store!Spec

\* test/arrays/array_index_set.can:5 expects [0, 2, 3, 5, null, 6] of an assignment
\* beyond the end: the elements it skips are null.
SkippedElementsAreNull ==
    [][\A a \in Made : \A i \in len[a] .. len'[a] - 2 : slots'[a][i] = Null]_vars
===============================================================================
