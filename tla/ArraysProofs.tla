----------------------------- MODULE ArraysProofs -----------------------------
(***************************************************************************)
(* What holds of canidae's arrays for any number of arrays and objects and *)
(* any growth: the elements lie inside the block, no array of an orderly   *)
(* program holds a freed object, and arrays are sequences.                 *)
(***************************************************************************)
EXTENDS Arrays, TLAPS, SequenceTheorems

\* A made array's block is not empty, so that one without a block has no elements.
Sized == TypeOK /\ LenWithinCapacity
-----------------------------------------------------------------------------
\* Growth enlarges a block, whatever its capacity.
LEMMA GrowLarger ==
    ASSUME NEW n \in Nat
    PROVE  Grow(n) \in Nat /\ Grow(n) > n /\ Grow(n) > 0
  BY ArrayConstants DEF ArrayConstants, Grow

\* The loop of array_set ends with a block that has the slot, and never shrinks it.
LEMMA GrownToHolds ==
    ASSUME NEW c \in Nat, NEW i \in Nat, NEW n \in GrownTo(c, i), n <= MaxCapacity
    PROVE  n \in Nat /\ i < n /\ c <= n
<1>1. CASE i < c BY <1>1 DEF GrownTo
<1>2. CASE ~(i < c)
  <2>1. PICK p \in PowersOfTwo : n = Grow(c) * p /\ i < n BY <1>2 DEF GrownTo
  <2>2. p \in Nat BY ArrayConstants DEF ArrayConstants, PowersOfTwo
  <2>3. Grow(c) * p \in Nat BY <2>2, GrowLarger
  <2> QED BY <1>2, <2>1, <2>3
<1> QED BY <1>1, <1>2

\* array_set keeps the block and the elements in order.
LEMMA ArraySetSized ==
    ASSUME Sized, NEW a \in Arrays, NEW i \in Nat, NEW v \in Values, ArraySet(a, i, v)
    PROVE  /\ len' \in [Arrays -> 0 .. MaxCapacity] /\ cap' \in [Arrays -> 0 .. MaxCapacity]
           /\ slots' \in [Arrays -> [Position -> Values \cup {Junk}]]
           /\ \A b \in Arrays : len'[b] <= cap'[b] /\ cap[b] <= cap'[b]
<1>1. PICK n \in GrownTo(cap[a], i) :
          /\ n <= MaxCapacity
          /\ cap' = [cap EXCEPT ![a] = n]
          /\ slots' = [slots EXCEPT ![a] =
                [s \in Position |-> IF s = i THEN v
                                    ELSE IF s \in cap[a] .. n - 1 THEN Null
                                    ELSE @[s]]]
  BY DEF ArraySet
<1>2. len' = [len EXCEPT ![a] = IF @ < i + 1 THEN i + 1 ELSE @] BY DEF ArraySet
<1>3. n \in Nat /\ i < n /\ cap[a] <= n
  BY <1>1, GrownToHolds DEF Sized, TypeOK
<1>4. MaxCapacity \in Nat BY ArrayConstants DEF ArrayConstants
<1>5. cap' \in [Arrays -> 0 .. MaxCapacity] BY <1>1, <1>3, <1>4 DEF Sized, TypeOK
<1>6. len' \in [Arrays -> 0 .. MaxCapacity]
  BY <1>1, <1>2, <1>3, <1>4 DEF Sized, TypeOK
<1>7. slots' \in [Arrays -> [Position -> Values \cup {Junk}]]
  BY <1>1 DEF Sized, TypeOK, Values
<1>8. \A b \in Arrays : len'[b] <= cap'[b] /\ cap[b] <= cap'[b]
  BY <1>1, <1>2, <1>3, <1>4 DEF Sized, TypeOK, LenWithinCapacity
<1> QED BY <1>5, <1>6, <1>7, <1>8

\* allocate_array makes a block that holds the elements.
LEMMA AllocateSized ==
    ASSUME Sized, NEW a \in Arrays, NEW s \in Seq(Values \cup {Junk}), AllocateArray(a, s)
    PROVE  /\ len' \in [Arrays -> 0 .. MaxCapacity] /\ cap' \in [Arrays -> 0 .. MaxCapacity]
           /\ slots' \in [Arrays -> [Position -> Values \cup {Junk}]]
           /\ \A b \in Arrays : len'[b] <= cap'[b] /\ cap[b] <= cap'[b]
<1>1. PICK pow \in PowersOfTwo : /\ Len(s) <= pow /\ pow <= MaxCapacity
                                /\ cap' = [cap EXCEPT ![a] = pow]
  BY DEF AllocateArray
<1>2. /\ cap[a] = 0
      /\ len' = [len EXCEPT ![a] = Len(s)]
      /\ slots' = [slots EXCEPT ![a] =
             [i \in Position |-> IF i < Len(s) THEN s[i + 1] ELSE Junk]]
  BY DEF AllocateArray
<1>3. pow \in Nat /\ MaxCapacity \in Nat /\ Len(s) \in Nat
  BY ArrayConstants DEF ArrayConstants, PowersOfTwo
<1>4. \A i \in Position : i < Len(s) => s[i + 1] \in Values \cup {Junk}
  BY <1>3 DEF Position
<1>5. slots' \in [Arrays -> [Position -> Values \cup {Junk}]]
  BY <1>2, <1>4 DEF Sized, TypeOK
<1>6. len' \in [Arrays -> 0 .. MaxCapacity] /\ cap' \in [Arrays -> 0 .. MaxCapacity]
  BY <1>1, <1>2, <1>3 DEF Sized, TypeOK
<1>7. \A b \in Arrays : len'[b] <= cap'[b] /\ cap[b] <= cap'[b]
  BY <1>1, <1>2, <1>3 DEF Sized, TypeOK, LenWithinCapacity
<1> QED BY <1>5, <1>6, <1>7

\* The elements of an array are values of its slots.
LEMMA ElementsType ==
    ASSUME Sized, NEW a \in Arrays
    PROVE  Elements(a) \in Seq(Values \cup {Junk})
<1>1. len[a] \in Nat /\ len[a] <= MaxCapacity /\ MaxCapacity \in Nat
  BY ArrayConstants DEF ArrayConstants, Sized, TypeOK
<1>2. \A k \in 1 .. len[a] : slots[a][k - 1] \in Values \cup {Junk}
  BY <1>1 DEF Sized, TypeOK, Position
<1> QED BY <1>1, <1>2 DEF Elements

\* The slot of an index within range is one of the elements.
LEMMA SlotInRange ==
    ASSUME Sized, NEW a \in Arrays, NEW index \in Int, FromStart(a, index) >= 0
    PROVE  /\ Slot(a, index) \in Nat
           /\ InRange(a, index) => Slot(a, index) \in 0 .. len[a] - 1
                                /\ Slot(a, index) \in Position
<1>1. len[a] \in Nat /\ len[a] <= MaxCapacity /\ MaxCapacity \in Nat
  BY ArrayConstants DEF ArrayConstants, Sized, TypeOK
<1>2. FromStart(a, index) \in Int BY <1>1 DEF FromStart
<1>3. Slot(a, index) \in Nat BY <1>2 DEF Slot
<1> QED BY <1>1, <1>3 DEF InRange, Position

\* The empty heap.
LEMMA InitSized == Init => Sized
<1>1. MaxCapacity \in Nat BY ArrayConstants DEF ArrayConstants
<1> QED BY <1>1 DEF Init, Sized, TypeOK, LenWithinCapacity, Made, Values

\* Every step keeps the types and the elements inside their blocks.
LEMMA NextSized ==
    ASSUME Sized, [Next]_vars
    PROVE  Sized'
<1> USE DEF Sized
<1>0. MaxCapacity \in Nat /\ Indices \subseteq Int BY ArrayConstants DEF ArrayConstants
<1>1. CASE Heap
  <2>1. len' = len /\ cap' = cap /\ slots' = slots /\ update' = update
    BY <1>1 DEF Heap, NewObject, Forget, Collect
  <2>2. alive' \subseteq Objects /\ held' \subseteq Objects
    BY <1>1 DEF Heap, NewObject, Forget, Collect, TypeOK
  <2>3. LenWithinCapacity' BY <2>1 DEF LenWithinCapacity
  <2>4. TypeOK' BY <2>1, <2>2 DEF TypeOK, Made
  <2> QED BY <2>3, <2>4
<1>2. ASSUME NEW a \in Arrays, NEW s \in Displays, MakeArray(a, s) PROVE Sized'
  <2>1. s \in Seq(Values \cup {Junk})
    BY <1>0, ArrayConstants DEF ArrayConstants, Displays, InHand, TypeOK, Values
  <2>2. AllocateArray(a, s) /\ UNCHANGED <<alive, held, update>> BY <1>2 DEF MakeArray
  <2> QED BY <2>1, <2>2, AllocateSized DEF TypeOK, LenWithinCapacity, Made
<1>3. ASSUME NEW a \in Made, NEW b \in Made, NEW c \in Arrays, Concatenate(a, b, c)
      PROVE  Sized'
  <2>1. Elements(a) \o Elements(b) \in Seq(Values \cup {Junk})
    BY ElementsType DEF Made
  <2>2. AllocateArray(c, Elements(a) \o Elements(b)) /\ UNCHANGED <<alive, held, update>>
    BY <1>3 DEF Concatenate
  <2>3. /\ len' \in [Arrays -> 0 .. MaxCapacity] /\ cap' \in [Arrays -> 0 .. MaxCapacity]
        /\ slots' \in [Arrays -> [Position -> Values \cup {Junk}]]
        /\ \A d \in Arrays : len'[d] <= cap'[d] /\ cap[d] <= cap'[d]
    BY <2>1, <2>2, AllocateSized
  <2> QED BY <1>0, <2>2, <2>3 DEF TypeOK, LenWithinCapacity, Made
<1>4. ASSUME NEW a \in Made, Discard(a) PROVE Sized'
  BY <1>4, <1>0 DEF Discard, TypeOK, LenWithinCapacity, Made
<1>5. ASSUME NEW a \in Made, Pop(a) PROVE Sized'
  BY <1>5, <1>0 DEF Pop, TypeOK, LenWithinCapacity, Made
<1>6. ASSUME NEW a \in Made, NEW v \in InHand, Push(a, v) PROVE Sized'
  <2>1. v \in Values BY DEF InHand, Values, TypeOK
  <2>2. len[a] \in Nat /\ cap[a] \in Nat /\ len[a] <= cap[a] /\ a \in Arrays
    BY <1>0 DEF TypeOK, LenWithinCapacity, Made
  <2>3. Grow(cap[a]) \in Nat /\ Grow(cap[a]) > cap[a] BY <2>2, GrowLarger
  <2>4. cap' = [cap EXCEPT ![a] = IF len[a] >= @ THEN Grow(@) ELSE @] /\ cap'[a] <= MaxCapacity
        /\ slots' = [slots EXCEPT ![a][len[a]] = v] /\ len' = [len EXCEPT ![a] = @ + 1]
        /\ UNCHANGED <<alive, held, update>>
    BY <1>6 DEF Push
  <2>5. cap'[a] \in 0 .. MaxCapacity /\ cap[a] <= cap'[a] /\ len[a] + 1 <= cap'[a]
    BY <2>2, <2>3, <2>4, <1>0 DEF TypeOK
  <2>6. cap' \in [Arrays -> 0 .. MaxCapacity] /\ len' \in [Arrays -> 0 .. MaxCapacity]
    BY <2>2, <2>4, <2>5, <1>0 DEF TypeOK
  <2>7. slots' \in [Arrays -> [Position -> Values \cup {Junk}]]
    BY <2>1, <2>4 DEF TypeOK
  <2>8. \A b \in Arrays : len'[b] <= cap'[b] /\ cap[b] <= cap'[b]
    BY <2>2, <2>4, <2>5, <1>0 DEF TypeOK, LenWithinCapacity
  <2> QED BY <2>4, <2>6, <2>7, <2>8, <1>0 DEF TypeOK, LenWithinCapacity, Made
<1>7. ASSUME NEW a \in Made, NEW index \in Indices, ArrayGet(a, index) PROVE Sized'
  BY <1>7 DEF ArrayGet, TypeOK, LenWithinCapacity, Made
<1>8. ASSUME NEW a \in Made, NEW index \in Indices, ArrayGetKeepRef(a, index) PROVE Sized'
  <2>1. InRange(a, index) BY <1>8 DEF ArrayGetKeepRef
  <2>2. Slot(a, index) \in Position
    BY <1>0, <2>1, SlotInRange DEF Made, InRange
  <2> QED BY <1>8, <1>0, <2>2 DEF ArrayGetKeepRef, TypeOK, LenWithinCapacity, Made
<1>9. ASSUME NEW a \in Made, NEW index \in Indices, NEW v \in InHand, Assign(a, index, v)
      PROVE  Sized'
  <2>1. ArraySet(a, Slot(a, index), v) /\ Slot(a, index) \in Nat
    BY <1>9, <1>0, SlotInRange DEF Assign, Made
  <2>2. v \in Values BY DEF InHand, Values, TypeOK
  <2>3. UNCHANGED <<alive, held, update>> BY <1>9 DEF Assign
  <2> QED BY <1>0, <2>1, <2>2, <2>3, ArraySetSized DEF TypeOK, LenWithinCapacity, Made
<1>10. ASSUME NEW v \in InHand, EndUpdate(v) PROVE Sized'
  <2>1. update # None /\ FromStart(update.array, update.index) >= 0
    BY <1>10 DEF EndUpdate
  <2>2. update.array \in Arrays /\ update.index \in Int BY <2>1 DEF TypeOK, Made
  <2>3. /\ ArraySet(update.array, Slot(update.array, update.index), v)
        /\ Slot(update.array, update.index) \in Nat
    BY <1>10, <2>1, <2>2, SlotInRange DEF EndUpdate
  <2>4. v \in Values BY DEF InHand, Values, TypeOK
  <2>5. UNCHANGED <<alive, held>> /\ update' = None BY <1>10 DEF EndUpdate
  <2> QED BY <2>2, <2>3, <2>4, <2>5, ArraySetSized DEF TypeOK, LenWithinCapacity
<1>11. CASE AbandonUpdate
  BY <1>11 DEF AbandonUpdate, TypeOK, LenWithinCapacity
<1>12. CASE UNCHANGED vars
  BY <1>12 DEF vars, TypeOK, LenWithinCapacity, Made
<1> QED BY <1>1, <1>2, <1>3, <1>4, <1>5, <1>6, <1>7, <1>8, <1>9, <1>10, <1>11, <1>12 DEF Next

\* Arrays keep their types.
THEOREM ArraysTypeCorrect == Spec => []TypeOK
<1>1. Sized => TypeOK BY DEF Sized
<1> QED BY <1>1, InitSized, NextSized, PTL DEF Spec

\* The elements of every array lie inside its block (value.c:14, object.c:176),
\* whatever is pushed, popped, assigned and collected.
THEOREM ElementsInsideBlock == Spec => []LenWithinCapacity
<1>1. Sized => LenWithinCapacity BY DEF Sized
<1> QED BY <1>1, InitSized, NextSized, PTL DEF Spec
-----------------------------------------------------------------------------
(* Orderly programs. *)

\* What array_set leaves in the elements of the array, when it skips no old slot:
\* the new value, the old ones, and null between them.
LEMMA ArraySetElements ==
    ASSUME OrderlyInv, NEW a \in Made, NEW i \in Nat, NEW v \in InHand, ArraySet(a, i, v),
           ~ (len'[a] > len[a] + 1 /\ len[a] < cap[a])
    PROVE  /\ len' = [len EXCEPT ![a] = IF @ < i + 1 THEN i + 1 ELSE @]
           /\ \A b \in Arrays \ {a} : cap'[b] = cap[b] /\ slots'[b] = slots[b]
           /\ cap'[a] > 0 /\ len'[a] <= cap'[a]
           /\ \A k \in 0 .. len'[a] - 1 :
                 slots'[a][k] = IF k = i THEN v ELSE IF k < len[a] THEN slots[a][k] ELSE Null
<1>1. PICK n \in GrownTo(cap[a], i) :
          /\ n <= MaxCapacity
          /\ cap' = [cap EXCEPT ![a] = n]
          /\ slots' = [slots EXCEPT ![a] =
                [s \in Position |-> IF s = i THEN v
                                    ELSE IF s \in cap[a] .. n - 1 THEN Null
                                    ELSE @[s]]]
  BY DEF ArraySet
<1>2. len' = [len EXCEPT ![a] = IF @ < i + 1 THEN i + 1 ELSE @] BY DEF ArraySet
<1>3. /\ a \in Arrays /\ cap[a] \in Nat /\ len[a] \in Nat /\ len[a] <= cap[a] /\ cap[a] > 0
      /\ len \in [Arrays -> 0 .. MaxCapacity] /\ cap \in [Arrays -> 0 .. MaxCapacity]
      /\ slots \in [Arrays -> [Position -> Values \cup {Junk}]]
  BY ArrayConstants DEF ArrayConstants, OrderlyInv, TypeOK, LenWithinCapacity, Made
<1>4. n \in Nat /\ i < n /\ cap[a] <= n BY <1>1, <1>3, GrownToHolds
<1>5. MaxCapacity \in Nat BY ArrayConstants DEF ArrayConstants
<1>6. len'[a] = IF len[a] < i + 1 THEN i + 1 ELSE len[a] BY <1>2, <1>3
<1>7. ASSUME NEW k \in 0 .. len'[a] - 1
      PROVE  slots'[a][k] = IF k = i THEN v ELSE IF k < len[a] THEN slots[a][k] ELSE Null
  <2>1. k \in Position BY <1>1, <1>3, <1>4, <1>5, <1>6 DEF Position
  <2>2. slots'[a][k] = IF k = i THEN v
                       ELSE IF k \in cap[a] .. n - 1 THEN Null ELSE slots[a][k]
    BY <1>1, <1>3, <2>1
  <2>3. CASE k < len[a] BY <1>3, <2>2, <2>3
  <2>4. CASE ~ (k < len[a]) /\ k # i
    <3>1. len'[a] = i + 1 /\ k < i BY <1>3, <1>6, <2>4
    <3>2. len'[a] > len[a] + 1 BY <1>3, <2>4, <3>1
    <3>3. ~ (len[a] < cap[a]) BY <3>2
    <3>4. cap[a] \in Nat /\ len[a] \in Nat /\ len[a] <= cap[a] BY <1>3
    <3>5. len[a] = cap[a] BY <3>3, <3>4
    <3> QED BY <1>3, <1>4, <2>2, <2>4, <3>1, <3>5
  <2> QED BY <2>2, <2>3, <2>4
<1>8. cap'[a] > 0 /\ len'[a] <= cap'[a] BY <1>1, <1>3, <1>4, <1>6
<1>9. \A b \in Arrays \ {a} : cap'[b] = cap[b] /\ slots'[b] = slots[b] BY <1>1, <1>3
<1> QED BY <1>2, <1>7, <1>8, <1>9

\* The elements of a new array are those it was made of.
LEMMA AllocateElements ==
    ASSUME OrderlyInv, NEW a \in Arrays, NEW s \in Seq(Values \cup {Junk}), AllocateArray(a, s)
    PROVE  /\ len' = [len EXCEPT ![a] = Len(s)] /\ Len(s) <= MaxCapacity
           /\ cap[a] = 0 /\ cap'[a] > 0
           /\ \A b \in Arrays \ {a} : cap'[b] = cap[b] /\ slots'[b] = slots[b]
           /\ \A k \in 0 .. Len(s) - 1 : slots'[a][k] = s[k + 1]
<1>1. PICK pow \in PowersOfTwo : /\ Len(s) <= pow /\ pow <= MaxCapacity
                                /\ cap' = [cap EXCEPT ![a] = pow]
  BY DEF AllocateArray
<1>2. /\ cap[a] = 0
      /\ len' = [len EXCEPT ![a] = Len(s)]
      /\ slots' = [slots EXCEPT ![a] =
             [i \in Position |-> IF i < Len(s) THEN s[i + 1] ELSE Junk]]
  BY DEF AllocateArray
<1>3. pow \in Nat \ {0} /\ MaxCapacity \in Nat /\ Len(s) \in Nat
  BY ArrayConstants DEF ArrayConstants, PowersOfTwo
<1>4. /\ len \in [Arrays -> 0 .. MaxCapacity] /\ cap \in [Arrays -> 0 .. MaxCapacity]
      /\ slots \in [Arrays -> [Position -> Values \cup {Junk}]]
  BY DEF OrderlyInv, TypeOK
<1>5. \A k \in 0 .. Len(s) - 1 : k \in Position BY <1>1, <1>3 DEF Position
<1>6. \A k \in 0 .. Len(s) - 1 : slots'[a][k] = s[k + 1] BY <1>2, <1>3, <1>4, <1>5
<1>7. \A b \in Arrays \ {a} : cap'[b] = cap[b] /\ slots'[b] = slots[b]
  BY <1>1, <1>2, <1>4
<1> QED BY <1>1, <1>2, <1>3, <1>4, <1>6, <1>7

\* The elements of an array, the ones that end up on the stack among them, are
\* live objects and null.
LEMMA LiveElement ==
    ASSUME OrderlyInv, NEW a \in Made, NEW k \in 0 .. len[a] - 1
    PROVE  slots[a][k] \in alive \cup {Null} /\ slots[a][k] \in Values
  BY DEF OrderlyInv, ElementsLive, TypeOK, Values

\* While the end of its array does not move, an update means the same element.
LEMMA UpdateKept ==
    ASSUME OrderlyInv, ~EndMovesInUpdate, update' = update
    PROVE  UpdateSteady'
<1>1. CASE update = None BY <1>1 DEF UpdateSteady
<1>2. CASE update # None
  <2>1. update.index \in Int /\ FromStart(update.array, update.index) >= 0
        /\ Slot(update.array, update.index) = update.element
    BY <1>2 DEF OrderlyInv, TypeOK, UpdateSteady
  <2>2. update.index < 0 => len'[update.array] = len[update.array]
    BY <1>2 DEF EndMovesInUpdate
  <2> QED BY <2>1, <2>2 DEF UpdateSteady, FromStart, Slot
<1> QED BY <1>1, <1>2

\* An empty heap is orderly.
LEMMA InitOrderly == Init => OrderlyInv
<1>1. Init => Sized BY InitSized
<1> QED BY <1>1 DEF Init, OrderlyInv, Sized, ElementsLive, UpdateSteady, Made

\* A step of an orderly program keeps freed objects out of its arrays, and the
\* elements of its updates.
LEMMA NextOrderly ==
    ASSUME OrderlyInv, [OrderlyNext]_vars
    PROVE  OrderlyInv'
<1> DEFINE Live == /\ ElementsLive' /\ held' \subseteq alive'
                   /\ UpdateSteady'
<1>0. /\ TypeOK /\ LenWithinCapacity /\ ElementsLive /\ held \subseteq alive /\ UpdateSteady
      /\ MaxCapacity \in Nat /\ Indices \subseteq Int
      /\ \A a \in Arrays : len[a] \in Nat /\ cap[a] \in Nat
  BY ArrayConstants DEF ArrayConstants, OrderlyInv, TypeOK
<1>a. Sized' BY NextSized DEF OrderlyNext, OrderlyInv, Sized
<1>b. UpdateSteady' \/ update' # update
  <2>1. CASE OrderlyNext BY <2>1, UpdateKept DEF OrderlyNext
  <2>2. CASE UNCHANGED vars
    <3>1. ~EndMovesInUpdate BY <2>2 DEF EndMovesInUpdate, vars
    <3> QED BY <2>2, <3>1, UpdateKept DEF vars
  <2> QED BY <2>1, <2>2
<1>1. ASSUME NEW o \in Objects, NewObject(o) \/ Forget(o) PROVE Live
  <2>1. len' = len /\ cap' = cap /\ slots' = slots /\ update' = update
    BY <1>1 DEF NewObject, Forget
  <2>2. alive \subseteq alive' /\ held' \subseteq alive' BY <1>1, <1>0 DEF NewObject, Forget
  <2>3. ElementsLive' BY <1>0, <2>1, <2>2 DEF ElementsLive, Made
  <2> QED BY <1>b, <2>1, <2>2, <2>3
<1>2. ASSUME Collect PROVE Live
  <2>1. len' = len /\ cap' = cap /\ slots' = slots /\ update' = update /\ held' = held
        /\ alive' = alive \cap (held \cup UNION {Marked(a) : a \in Made})
    BY <1>2 DEF Collect
  <2>2. ASSUME NEW a \in Made, NEW k \in 0 .. len[a] - 1
        PROVE  slots[a][k] \in alive' \cup {Null}
    <3>1. slots[a][k] \in Marked(a) BY DEF Marked
    <3> QED BY <2>1, <3>1, LiveElement
  <2>3. ElementsLive' BY <2>1, <2>2 DEF ElementsLive, Made
  <2> QED BY <1>0, <1>b, <2>1, <2>3
<1>3. ASSUME NEW a \in Arrays, NEW s \in Seq(InHand \cup alive), AllocateArray(a, s),
             UNCHANGED <<alive, held, update>>
      PROVE  Live
  <2>1. s \in Seq(Values \cup {Junk}) BY <1>0 DEF TypeOK, InHand, Values
  <2>2. /\ len' = [len EXCEPT ![a] = Len(s)]
        /\ cap[a] = 0 /\ cap'[a] > 0
        /\ \A b \in Arrays \ {a} : cap'[b] = cap[b] /\ slots'[b] = slots[b]
        /\ \A k \in 0 .. Len(s) - 1 : slots'[a][k] = s[k + 1]
    BY <1>3, <2>1, AllocateElements
  <2>3. \A k \in 0 .. Len(s) - 1 : s[k + 1] \in alive \cup {Null}
    BY <1>0, <2>1 DEF InHand
  <2>4. len'[a] = Len(s) /\ \A b \in Arrays \ {a} : len'[b] = len[b]
    BY <1>0, <2>2 DEF TypeOK
  <2>5. ElementsLive' BY <1>0, <1>3, <2>2, <2>3, <2>4 DEF ElementsLive, Made
  <2> QED BY <1>0, <1>3, <1>b, <2>5
<1>4. ASSUME NEW a \in Arrays, NEW s \in Displays, MakeArray(a, s) PROVE Live
  <2>1. s \in Seq(InHand \cup alive) BY <1>0, ArrayConstants DEF ArrayConstants, Displays
  <2> QED BY <1>3, <1>4, <2>1 DEF MakeArray
<1>5. ASSUME NEW a \in Made, NEW b \in Made, NEW c \in Arrays, Concatenate(a, b, c) PROVE Live
  <2>1. ASSUME NEW d \in Made PROVE Elements(d) \in Seq(InHand \cup alive)
    <3>1. len[d] \in Nat BY <1>0 DEF Made
    <3>2. \A k \in 1 .. len[d] : slots[d][k - 1] \in InHand \cup alive
      BY <3>1, LiveElement DEF InHand
    <3> QED BY <3>1, <3>2 DEF Elements
  <2>2. Elements(a) \o Elements(b) \in Seq(InHand \cup alive) BY <2>1
  <2> QED BY <1>3, <1>5, <2>2 DEF Concatenate
<1>6. ASSUME NEW a \in Made, Discard(a) PROVE Live
  <2>1. /\ \A b \in Made' : b \in Made /\ len'[b] = len[b] /\ slots'[b] = slots[b]
        /\ alive' = alive /\ held' = held /\ update' = update
    BY <1>0, <1>6 DEF Discard, Made, TypeOK
  <2> QED BY <1>0, <1>b, <2>1 DEF ElementsLive
<1>7. ASSUME NEW a \in Made, Pop(a) PROVE Live
  <2>1. /\ a \in Arrays /\ len[a] > 0 /\ len' = [len EXCEPT ![a] = @ - 1]
        /\ held' = held \cup ({slots[a][len[a] - 1]} \cap Objects)
        /\ cap' = cap /\ slots' = slots /\ alive' = alive /\ update' = update
    BY <1>7 DEF Pop, Made
  <2>2. slots[a][len[a] - 1] \in alive \cup {Null} BY <1>0, <2>1, LiveElement
  <2>3. held' \subseteq alive'
    BY <1>0, <2>1, <2>2, ArrayConstants DEF ArrayConstants
  <2>4. \A b \in Made : len'[b] \in Nat /\ len'[b] <= len[b]
    BY <1>0, <2>1 DEF Made, TypeOK
  <2>5. ElementsLive' BY <1>0, <2>1, <2>4 DEF ElementsLive, Made
  <2> QED BY <1>b, <2>1, <2>3, <2>5
<1>8. ASSUME NEW a \in Made, NEW v \in InHand, Push(a, v) PROVE Live
  <2>1. /\ slots' = [slots EXCEPT ![a][len[a]] = v] /\ len' = [len EXCEPT ![a] = @ + 1]
        /\ alive' = alive /\ held' = held /\ update' = update
        /\ \A b \in Arrays \ {a} : cap'[b] = cap[b]
    BY <1>0, <1>8 DEF Push, TypeOK
  <2>2. a \in Arrays /\ len[a] \in Nat /\ len[a] \in Position
    <3>1. a \in Arrays /\ len'[a] = len[a] + 1 /\ len[a] \in Nat
      BY <1>0, <2>1 DEF Made, TypeOK
    <3>2. len'[a] <= MaxCapacity BY <1>a, <3>1 DEF Sized, TypeOK
    <3> QED BY <1>0, <3>1, <3>2 DEF Position
  <2>3. ASSUME NEW b \in Made', NEW k \in 0 .. len'[b] - 1
        PROVE  slots'[b][k] \in alive' \cup {Null}
    <3>1. CASE b = a /\ k = len[a] BY <1>0, <2>1, <2>2, <3>1 DEF InHand, TypeOK
    <3>2. CASE b # a
      <4>1. b \in Made /\ len'[b] = len[b] /\ slots'[b] = slots[b]
        BY <1>0, <2>1, <3>2 DEF Made, TypeOK
      <4> QED BY <2>1, <4>1, LiveElement
    <3>3. CASE b = a /\ k # len[a]
      <4>1. len'[a] = len[a] + 1 BY <1>0, <2>1, <2>2 DEF TypeOK
      <4>2. k \in 0 .. len[a] - 1 BY <2>2, <3>3, <4>1
      <4>3. slots'[a][k] = slots[a][k] BY <1>0, <2>1, <2>2, <3>3 DEF TypeOK
      <4> QED BY <2>1, <3>3, <4>2, <4>3, LiveElement
    <3> QED BY <3>1, <3>2, <3>3
  <2> QED BY <1>0, <1>b, <2>1, <2>3 DEF ElementsLive
<1>9. ASSUME NEW a \in Made, NEW index \in Indices, InRange(a, index),
             held' = held \cup ({slots[a][Slot(a, index)]} \cap Objects),
             UNCHANGED <<len, cap, slots, alive>>, UpdateSteady'
      PROVE  Live
  <2>1. Slot(a, index) \in 0 .. len[a] - 1
    BY <1>0, <1>9, SlotInRange DEF Made, InRange, Sized
  <2>2. slots[a][Slot(a, index)] \in alive \cup {Null} BY <2>1, LiveElement
  <2>3. held' \subseteq alive'
    BY <1>0, <1>9, <2>2, ArrayConstants DEF ArrayConstants
  <2>4. ElementsLive' BY <1>0, <1>9 DEF ElementsLive, Made
  <2> QED BY <1>9, <2>3, <2>4
<1>10. ASSUME NEW a \in Made, NEW index \in Indices, ArrayGet(a, index) PROVE Live
  BY <1>b, <1>9, <1>10 DEF ArrayGet
<1>11. ASSUME NEW a \in Made, NEW index \in Indices, ArrayGetKeepRef(a, index) PROVE Live
  <2>1. /\ update' = [array |-> a, index |-> index, element |-> Slot(a, index)]
        /\ len' = len /\ InRange(a, index)
    BY <1>11 DEF ArrayGetKeepRef
  <2>2. UpdateSteady' BY <2>1 DEF UpdateSteady, InRange, FromStart, Slot
  <2> QED BY <1>9, <1>11, <2>2 DEF ArrayGetKeepRef
<1>12. ASSUME NEW a \in Made, NEW i \in Nat, NEW v \in InHand, ArraySet(a, i, v), ~SkipsOldSlots,
              UNCHANGED <<alive, held>>
       PROVE  ElementsLive' /\ held' \subseteq alive'
  <2>1. ~ (len'[a] > len[a] + 1 /\ len[a] < cap[a]) BY <1>12 DEF SkipsOldSlots
  <2>2. /\ len' = [len EXCEPT ![a] = IF @ < i + 1 THEN i + 1 ELSE @]
        /\ \A b \in Arrays \ {a} : cap'[b] = cap[b] /\ slots'[b] = slots[b]
        /\ \A k \in 0 .. len'[a] - 1 :
              slots'[a][k] = IF k = i THEN v ELSE IF k < len[a] THEN slots[a][k] ELSE Null
    BY <1>12, <2>1, ArraySetElements
  <2>3. ASSUME NEW b \in Made', NEW k \in 0 .. len'[b] - 1
        PROVE  slots'[b][k] \in alive' \cup {Null}
    <3>1. CASE b # a
      <4>1. b \in Made /\ len'[b] = len[b] /\ slots'[b] = slots[b]
        BY <1>0, <2>2, <3>1 DEF Made, TypeOK
      <4> QED BY <1>12, <4>1, LiveElement
    <3>2. CASE b = a
      <4>1. v \in alive \cup {Null} BY <1>0 DEF InHand
      <4>2. k < len[a] => slots[a][k] \in alive \cup {Null}
        <5>1. k \in 0 .. len'[a] - 1 /\ a \in Arrays BY <3>2 DEF Made
        <5>2. k \in Nat BY <1>a, <5>1 DEF Sized, TypeOK
        <5> QED BY <1>0, <5>1, <5>2, LiveElement
      <4> QED BY <1>12, <2>2, <3>2, <4>1, <4>2
    <3> QED BY <3>1, <3>2
  <2> QED BY <1>0, <1>12, <2>3 DEF ElementsLive
<1>13. ASSUME NEW a \in Made, NEW index \in Indices, NEW v \in InHand, Assign(a, index, v),
              ~SkipsOldSlots
       PROVE  Live
  <2>1. Slot(a, index) \in Nat /\ ArraySet(a, Slot(a, index), v)
        /\ UNCHANGED <<alive, held>> /\ update' = update
    BY <1>0, <1>13, SlotInRange DEF Assign, Made, Sized
  <2> QED BY <1>12, <1>13, <1>b, <2>1
<1>14. ASSUME NEW v \in InHand, EndUpdate(v), ~SkipsOldSlots PROVE Live
  <2>1. update # None /\ update.array \in Made /\ update.index \in Int
        /\ FromStart(update.array, update.index) >= 0
    BY <1>0, <1>14 DEF EndUpdate, TypeOK
  <2>2. Slot(update.array, update.index) \in Nat BY <1>0, <2>1, SlotInRange DEF Made, Sized
  <2>3. ArraySet(update.array, Slot(update.array, update.index), v)
        /\ UNCHANGED <<alive, held>> /\ update' = None
    BY <1>14 DEF EndUpdate
  <2> QED BY <1>12, <1>14, <2>1, <2>2, <2>3 DEF UpdateSteady
<1>15. ASSUME AbandonUpdate PROVE Live
  BY <1>0, <1>15 DEF AbandonUpdate, ElementsLive, UpdateSteady, Made
<1>16. ASSUME UNCHANGED vars PROVE Live
  BY <1>0, <1>16, <1>b DEF vars, ElementsLive, Made
<1>17. Live
  <2> HIDE DEF Live
  <2>1. CASE OrderlyNext
    BY <2>1, <1>1, <1>2, <1>4, <1>5, <1>6, <1>7, <1>8, <1>10, <1>11, <1>13, <1>14, <1>15
       DEF OrderlyNext, Next, Heap
  <2> QED BY <2>1, <1>16
<1> QED BY <1>a, <1>17 DEF OrderlyInv, Sized

\* In orderly programs no array holds an object the collector has freed or a slot
\* nobody wrote (memory.c:164, object.c:181), although both lie behind its end.
THEOREM ElementsStayLive == OrderlySpec => []ElementsLive
<1>1. OrderlyInv => ElementsLive BY DEF OrderlyInv
<1> QED BY <1>1, InitOrderly, NextOrderly, PTL DEF OrderlySpec
-----------------------------------------------------------------------------
(* Orderly programs see sequences. *)

AbstractVars == <<Contents, Updated>>

\* A sequence is the function of its elements.
LEMMA SeqAsFunction == ASSUME NEW S, NEW s \in Seq(S) PROVE s = [k \in 1 .. Len(s) |-> s[k]]
  OBVIOUS

\* A made array shows the sequence of its elements, which are values.
LEMMA ContentsOfMade ==
    ASSUME OrderlyInv, NEW a \in Made
    PROVE  /\ Contents[a] = Elements(a) /\ Contents[a] # None
           /\ Elements(a) \in [1 .. len[a] -> Values] /\ Elements(a) \in Seq(Values)
           /\ Len(Elements(a)) = len[a] /\ len[a] \in 0 .. MaxCapacity
           /\ \A k \in 1 .. len[a] : Elements(a)[k] = slots[a][k - 1]
<1>1. len[a] \in 0 .. MaxCapacity /\ MaxCapacity \in Nat /\ a \in Arrays
  BY ArrayConstants DEF ArrayConstants, OrderlyInv, TypeOK, Made
<1>2. \A k \in 1 .. len[a] : slots[a][k - 1] \in Values BY <1>1, LiveElement
<1>3. Elements(a) \in [1 .. len[a] -> Values] BY <1>2 DEF Elements
<1>4. Elements(a) \in Seq(Objects \cup {Null, Junk}) BY <1>1, <1>2 DEF Elements, Values
<1>5. Elements(a) # None BY <1>4, ArrayConstants DEF ArrayConstants
<1>6. Contents[a] = Elements(a) BY <1>1, ArrayConstants DEF Contents, Made
<1>7. Elements(a) \in Seq(Values) BY <1>1, <1>2 DEF Elements
<1> QED BY <1>1, <1>3, <1>5, <1>6, <1>7 DEF Elements

\* The arrays of the abstract specification are those that are made.
LEMMA MadeIsMade == ASSUME OrderlyInv PROVE Store!Made = Made
<1>1. \A a \in Arrays : cap[a] \in Nat BY ArrayConstants DEF ArrayConstants, OrderlyInv, TypeOK
<1>2. ASSUME NEW a \in Arrays, a \notin Made PROVE Contents[a] = None
  <2>1. cap[a] = 0 BY <1>1, <1>2 DEF Made
  <2> QED BY <2>1 DEF Contents
<1>3. \A a \in Made : Contents[a] # None BY ContentsOfMade
<1>4. Made \subseteq Arrays BY DEF Made
<1> QED BY <1>2, <1>3, <1>4 DEF Store!Made

\* A step that leaves the other arrays alone changes the contents of one.
LEMMA OneArrayChanges ==
    ASSUME NEW a \in Arrays, NEW s, cap'[a] \in Nat \ {0}, Elements(a)' = s,
           \A b \in Arrays \ {a} : cap'[b] = cap[b] /\ slots'[b] = slots[b] /\ len'[b] = len[b]
    PROVE  Contents' = [Contents EXCEPT ![a] = s]
<1>1. \A b \in Arrays \ {a} : Elements(b)' = Elements(b) BY DEF Elements
<1>2. Contents' = [b \in Arrays |-> IF b = a THEN s ELSE Contents[b]]
  BY <1>1 DEF Contents
<1> QED BY <1>2 DEF Contents

\* Nothing of the arrays changes.
LEMMA NoArrayChanges ==
    ASSUME len' = len, cap' = cap, slots' = slots
    PROVE  Contents' = Contents
  BY DEF Contents, Elements

\* A new array.
LEMMA MakeRefines ==
    ASSUME OrderlyInv, OrderlyInv', NEW a \in Arrays, NEW s \in Seq(Values), AllocateArray(a, s),
           update' = update
    PROVE  Store!Next
<1>1. s \in Seq(Values \cup {Junk}) OBVIOUS
<1>2. /\ len' = [len EXCEPT ![a] = Len(s)] /\ Len(s) <= MaxCapacity
      /\ cap[a] = 0 /\ cap'[a] > 0
      /\ \A b \in Arrays \ {a} : cap'[b] = cap[b] /\ slots'[b] = slots[b]
      /\ \A k \in 0 .. Len(s) - 1 : slots'[a][k] = s[k + 1]
  BY <1>1, AllocateElements
<1>3. /\ len \in [Arrays -> 0 .. MaxCapacity] /\ cap' \in [Arrays -> 0 .. MaxCapacity]
      /\ MaxCapacity \in Nat
  BY ArrayConstants DEF ArrayConstants, OrderlyInv, TypeOK
<1>4. len'[a] = Len(s) /\ \A b \in Arrays \ {a} : len'[b] = len[b] BY <1>2, <1>3
<1>5. Elements(a)' = s
  <2>1. Len(s) \in Nat /\ s = [k \in 1 .. Len(s) |-> s[k]] OBVIOUS
  <2>2. \A k \in 1 .. Len(s) : slots'[a][k - 1] = s[k] BY <1>2, <2>1
  <2> QED BY <1>4, <2>1, <2>2 DEF Elements
<1>6. Contents' = [Contents EXCEPT ![a] = s]
  BY <1>2, <1>3, <1>4, <1>5, OneArrayChanges
<1>7. a \notin Store!Made BY <1>2, MadeIsMade DEF Made
<1>8. s \in Store!Short
  <2>1. s \in [1 .. Len(s) -> Values] /\ Len(s) \in 0 .. MaxCapacity BY <1>2, <1>3
  <2> QED BY <2>1 DEF Store!Short
<1>9. Updated' = Updated BY DEF Updated
<1>10. Store!Make(a, s) BY <1>6, <1>7, <1>9 DEF Store!Make
<1> QED BY <1>8, <1>10 DEF Store!Next

\* push() appends.
LEMMA PushRefines ==
    ASSUME OrderlyInv, OrderlyInv', NEW a \in Made, NEW v \in InHand, Push(a, v)
    PROVE  Store!Next
<1>1. /\ len \in [Arrays -> 0 .. MaxCapacity] /\ cap \in [Arrays -> 0 .. MaxCapacity]
      /\ len' \in [Arrays -> 0 .. MaxCapacity] /\ cap' \in [Arrays -> 0 .. MaxCapacity]
      /\ slots \in [Arrays -> [Position -> Values \cup {Junk}]]
      /\ MaxCapacity \in Nat /\ a \in Arrays /\ v \in Values
      /\ len'[a] <= cap'[a]
  BY ArrayConstants
     DEF ArrayConstants, OrderlyInv, TypeOK, LenWithinCapacity, Made, InHand, Values
<1>2. /\ len' = [len EXCEPT ![a] = @ + 1] /\ slots' = [slots EXCEPT ![a][len[a]] = v]
      /\ \A b \in Arrays \ {a} : cap'[b] = cap[b]
      /\ update' = update
  BY <1>1 DEF Push
<1>3. len'[a] = len[a] + 1 /\ len[a] \in Nat /\ len[a] \in Position
      /\ cap'[a] \in Nat \ {0}
  BY <1>1, <1>2 DEF Position
<1>4. \A k \in 0 .. len[a] : slots'[a][k] = IF k = len[a] THEN v ELSE slots[a][k]
  BY <1>1, <1>2, <1>3
<1>5. Elements(a)' = Append(Elements(a), v)
  <2>1. /\ Elements(a) \in Seq(Values) /\ Len(Elements(a)) = len[a]
        /\ \A k \in 1 .. len[a] : Elements(a)[k] = slots[a][k - 1]
    BY ContentsOfMade
  <2> DEFINE appended == Append(Elements(a), v)
  <2>2. /\ appended \in Seq(Values) /\ Len(appended) = len[a] + 1
        /\ \A k \in 1 .. len[a] + 1 :
              appended[k] = IF k = len[a] + 1 THEN v ELSE Elements(a)[k]
    BY <1>1, <1>3, <2>1
  <2>3. \A k \in 1 .. len[a] + 1 : slots'[a][k - 1] = appended[k]
    BY <1>3, <1>4, <2>1, <2>2
  <2>4. Elements(a)' = [k \in 1 .. len[a] + 1 |-> slots'[a][k - 1]] BY <1>3 DEF Elements
  <2>5. Elements(a)' = [k \in 1 .. len[a] + 1 |-> appended[k]] BY <2>3, <2>4
  <2>6. appended = [k \in 1 .. len[a] + 1 |-> appended[k]]
    <3> HIDE DEF appended
    <3> QED BY <2>2, SeqAsFunction
  <2> QED BY <2>5, <2>6
<1>6. Contents' = [Contents EXCEPT ![a] = Append(Elements(a), v)]
  BY <1>1, <1>2, <1>3, <1>5, OneArrayChanges
<1>7. Contents' = [Contents EXCEPT ![a] = Append(@, v)] BY <1>1, <1>6, ContentsOfMade DEF Contents
<1>8. Updated' = Updated BY <1>2 DEF Updated
<1>9. Store!Push(a, v) BY <1>7, <1>8 DEF Store!Push
<1> QED BY <1>1, <1>9, MadeIsMade DEF Store!Next

\* pop() drops the last element.
LEMMA PopRefines ==
    ASSUME OrderlyInv, OrderlyInv', NEW a \in Made, Pop(a)
    PROVE  Store!Next
<1>1. /\ len \in [Arrays -> 0 .. MaxCapacity] /\ cap \in [Arrays -> 0 .. MaxCapacity]
      /\ MaxCapacity \in Nat /\ a \in Arrays /\ cap[a] > 0
  BY ArrayConstants DEF ArrayConstants, OrderlyInv, TypeOK, Made
<1>2. /\ len[a] > 0 /\ len' = [len EXCEPT ![a] = @ - 1]
      /\ cap' = cap /\ slots' = slots /\ update' = update
  BY DEF Pop
<1>3. len'[a] = len[a] - 1 /\ len[a] \in Nat \ {0} BY <1>1, <1>2
<1>4. /\ Elements(a) \in Seq(Values) /\ Len(Elements(a)) = len[a]
      /\ \A k \in 1 .. len[a] : Elements(a)[k] = slots[a][k - 1]
  BY ContentsOfMade
<1>5. Elements(a)' = SubSeq(Elements(a), 1, Len(Elements(a)) - 1)
  <2>1. SubSeq(Elements(a), 1, len[a] - 1) = [k \in 1 .. len[a] - 1 |-> Elements(a)[k]]
    BY <1>3, <1>4
  <2>2. \A k \in 1 .. len[a] - 1 : slots'[a][k - 1] = Elements(a)[k] BY <1>2, <1>3, <1>4
  <2> QED BY <1>3, <1>4, <2>1, <2>2 DEF Elements
<1>6. Contents' = [Contents EXCEPT ![a] = SubSeq(Elements(a), 1, Len(Elements(a)) - 1)]
  BY <1>1, <1>2, <1>5, OneArrayChanges
<1>7. Contents' = [Contents EXCEPT ![a] = SubSeq(@, 1, Len(@) - 1)]
  BY <1>1, <1>6, ContentsOfMade DEF Contents
<1>8. Contents[a] # <<>> BY <1>3, <1>4, ContentsOfMade
<1>9. Updated' = Updated BY <1>2 DEF Updated
<1>10. Store!Pop(a) BY <1>7, <1>8, <1>9 DEF Store!Pop
<1> QED BY <1>10, MadeIsMade DEF Store!Next

\* array_set of an orderly program: the sequence is padded with null.
LEMMA ArraySetRefines ==
    ASSUME OrderlyInv, OrderlyInv', NEW a \in Made, NEW i \in Nat, NEW v \in InHand,
           ArraySet(a, i, v), ~SkipsOldSlots
    PROVE  /\ Contents' = [Contents EXCEPT ![a] = Store!Padded(@, i + 1, v)]
           /\ i < MaxCapacity /\ v \in Values
<1>1. ~ (len'[a] > len[a] + 1 /\ len[a] < cap[a]) BY DEF SkipsOldSlots
<1>2. /\ len' = [len EXCEPT ![a] = IF @ < i + 1 THEN i + 1 ELSE @]
      /\ \A b \in Arrays \ {a} : cap'[b] = cap[b] /\ slots'[b] = slots[b]
      /\ cap'[a] > 0 /\ len'[a] <= cap'[a]
      /\ \A k \in 0 .. len'[a] - 1 :
            slots'[a][k] = IF k = i THEN v ELSE IF k < len[a] THEN slots[a][k] ELSE Null
  BY <1>1, ArraySetElements
<1>3. /\ len \in [Arrays -> 0 .. MaxCapacity] /\ cap' \in [Arrays -> 0 .. MaxCapacity]
      /\ len' \in [Arrays -> 0 .. MaxCapacity]
      /\ MaxCapacity \in Nat /\ a \in Arrays /\ v \in Values
  BY ArrayConstants DEF ArrayConstants, OrderlyInv, TypeOK, Made, InHand, Values
<1>4. /\ len[a] \in Nat /\ len'[a] = IF len[a] < i + 1 THEN i + 1 ELSE len[a]
      /\ \A b \in Arrays \ {a} : len'[b] = len[b]
  BY <1>2, <1>3
<1>5. i < MaxCapacity BY <1>3, <1>4
<1>6. /\ Len(Elements(a)) = len[a] /\ Contents[a] = Elements(a)
      /\ \A k \in 1 .. len[a] : Elements(a)[k] = slots[a][k - 1]
  BY ContentsOfMade
<1>7. Elements(a)' = Store!Padded(Elements(a), i + 1, v)
  <2>1. \A k \in 1 .. len'[a] :
            slots'[a][k - 1] = IF k = i + 1 THEN v
                               ELSE IF k <= Len(Elements(a)) THEN Elements(a)[k] ELSE Null
    BY <1>2, <1>4, <1>6
  <2>2. len'[a] = IF i + 1 > Len(Elements(a)) THEN i + 1 ELSE Len(Elements(a))
    BY <1>4, <1>6
  <2> QED BY <2>1, <2>2 DEF Elements, Store!Padded
<1>8. cap'[a] \in Nat \ {0} BY <1>2, <1>3
<1>9. Contents' = [Contents EXCEPT ![a] = Store!Padded(Elements(a), i + 1, v)]
  BY <1>2, <1>3, <1>4, <1>7, <1>8, OneArrayChanges
<1> QED BY <1>3, <1>5, <1>6, <1>9 DEF Contents

\* The value of a record, not None, where an update is under way.
LEMMA UpdatedIs ==
    ASSUME OrderlyInv, update # None
    PROVE  /\ update.array \in Made /\ update.index \in Int /\ update.element \in Nat
           /\ Updated # None /\ Updated.array = update.array
           /\ Updated.element = update.element + 1
<1>1. update.array \in Made /\ update.index \in Int /\ update.element \in Nat
  BY ArrayConstants DEF ArrayConstants, OrderlyInv, TypeOK, Position
<1>2. Updated = [array |-> update.array, element |-> update.element + 1] BY DEF Updated
<1>3. Updated \in [array : Arrays, element : Nat] BY <1>1, <1>2 DEF Made
<1> QED BY <1>1, <1>2, <1>3, ArrayConstants DEF ArrayConstants

\* Every step of an orderly program is a step of the abstract specification or
\* changes nothing it knows of.
LEMMA NextRefines ==
    ASSUME OrderlyInv, OrderlyInv', [OrderlyNext]_vars
    PROVE  [Store!Next]_AbstractVars
<1> DEFINE Goal == Store!Next \/ UNCHANGED AbstractVars
<1>0. /\ MaxCapacity \in Nat /\ Indices \subseteq Int /\ held \subseteq Objects /\ Store!Made = Made
      /\ \A a \in Made : a \in Arrays /\ len[a] \in 0 .. MaxCapacity
  BY ArrayConstants, MadeIsMade DEF ArrayConstants, OrderlyInv, TypeOK, Made
<1>1. ASSUME len' = len, cap' = cap, slots' = slots, update' = update PROVE Goal
  BY <1>1, NoArrayChanges DEF AbstractVars, Updated
<1>2. ASSUME NEW a \in Arrays, NEW s \in Displays, MakeArray(a, s) PROVE Goal
  <2>1. s \in Seq(Values)
    BY <1>0, ArrayConstants DEF ArrayConstants, Displays, InHand, Values
  <2> QED BY <1>2, <2>1, MakeRefines DEF MakeArray
<1>3. ASSUME NEW a \in Made, NEW b \in Made, NEW c \in Arrays, Concatenate(a, b, c) PROVE Goal
  <2>1. Elements(a) \o Elements(b) \in Seq(Values)
    <3>1. Elements(a) \in Seq(Values) /\ Elements(b) \in Seq(Values) BY ContentsOfMade
    <3> QED BY <3>1
  <2> QED BY <1>3, <2>1, MakeRefines DEF Concatenate
<1>4. ASSUME NEW a \in Made, Discard(a) PROVE Goal
  <2>1. /\ a \in Arrays /\ len' = [len EXCEPT ![a] = 0] /\ cap' = [cap EXCEPT ![a] = 0]
        /\ slots' = [slots EXCEPT ![a] = [i \in Position |-> Junk]]
        /\ update' = update /\ (update # None => update.array # a)
    BY <1>0, <1>4 DEF Discard
  <2>2. \A b \in Arrays \ {a} : cap'[b] = cap[b] /\ slots'[b] = slots[b] /\ len'[b] = len[b]
    BY <2>1 DEF OrderlyInv, TypeOK
  <2>3. \A b \in Arrays \ {a} : Elements(b)' = Elements(b) BY <2>2 DEF Elements
  <2>4. cap'[a] = 0 BY <2>1 DEF OrderlyInv, TypeOK
  <2>5. Contents' = [b \in Arrays |-> IF b = a THEN None ELSE Contents[b]]
    BY <2>2, <2>3, <2>4 DEF Contents
  <2>6. Contents' = [Contents EXCEPT ![a] = None] BY <2>5 DEF Contents
  <2>7. Updated' = Updated BY <2>1 DEF Updated
  <2>8. Updated # None => Updated.array # a
    <3>1. CASE update = None BY <3>1 DEF Updated
    <3>2. CASE update # None BY <2>1, <3>2, UpdatedIs
    <3> QED BY <3>1, <3>2
  <2>9. Store!Discard(a) BY <2>6, <2>7, <2>8 DEF Store!Discard
  <2> QED BY <1>0, <2>9 DEF Store!Next
<1>5. ASSUME NEW a \in Made, NEW index \in Indices, ArrayGetKeepRef(a, index) PROVE Goal
  <2>1. /\ InRange(a, index) /\ update = None
        /\ len' = len /\ cap' = cap /\ slots' = slots
        /\ update' = [array |-> a, index |-> index, element |-> Slot(a, index)]
    BY <1>5 DEF ArrayGetKeepRef
  <2>2. Slot(a, index) \in 0 .. len[a] - 1
    BY <1>0, <2>1, SlotInRange DEF InRange, Sized, OrderlyInv
  <2>3. Slot(a, index) + 1 \in 1 .. MaxCapacity /\ Slot(a, index) \in Nat BY <1>0, <2>2
  <2>4. Slot(a, index) + 1 <= Len(Contents[a])
    BY <1>0, <2>2, ContentsOfMade
  <2>5. update' # None
    BY <1>0, <2>1, <2>3, ArrayConstants DEF ArrayConstants
  <2>6. Updated' = [array |-> a, element |-> Slot(a, index) + 1]
    BY <2>1, <2>5 DEF Updated
  <2>7. Contents' = Contents BY <2>1, NoArrayChanges
  <2>8. Store!BeginUpdate(a, Slot(a, index) + 1) BY <2>4, <2>6, <2>7 DEF Store!BeginUpdate
  <2> QED BY <1>0, <2>3, <2>8 DEF Store!Next
<1>6. ASSUME NEW a \in Made, NEW index \in Indices, NEW v \in InHand, Assign(a, index, v),
             ~SkipsOldSlots
      PROVE  Goal
  <2>1. Slot(a, index) \in Nat /\ ArraySet(a, Slot(a, index), v) /\ update' = update
    BY <1>0, <1>6, SlotInRange DEF Assign, Sized, OrderlyInv
  <2>2. /\ Contents' = [Contents EXCEPT ![a] = Store!Padded(@, Slot(a, index) + 1, v)]
        /\ Slot(a, index) + 1 \in 1 .. MaxCapacity /\ v \in Values
    BY <1>0, <1>6, <2>1, ArraySetRefines
  <2>3. Updated' = Updated BY <2>1 DEF Updated
  <2>4. Store!Assign(a, Slot(a, index) + 1, v) BY <2>2, <2>3 DEF Store!Assign
  <2> QED BY <1>0, <2>2, <2>4 DEF Store!Next
<1>7. ASSUME NEW v \in InHand, EndUpdate(v), ~SkipsOldSlots PROVE Goal
  <2>1. update # None /\ update' = None BY <1>7 DEF EndUpdate
  <2>2. /\ update.array \in Made /\ update.element \in Nat
        /\ Updated # None /\ Updated.array = update.array
        /\ Updated.element = update.element + 1
        /\ ArraySet(update.array, update.element, v)
    BY <1>7, <2>1, UpdatedIs DEF EndUpdate, OrderlyInv, UpdateSteady
  <2>3. /\ Contents' = [Contents EXCEPT ![Updated.array] =
                            Store!Padded(@, Updated.element, v)]
        /\ v \in Values
    BY <1>7, <2>2, ArraySetRefines
  <2>4. Updated' = None BY <2>1 DEF Updated
  <2>5. Store!EndUpdate(v) BY <2>2, <2>3, <2>4 DEF Store!EndUpdate
  <2> QED BY <2>3, <2>5 DEF Store!Next
<1>8. ASSUME AbandonUpdate PROVE Goal
  <2>1. update # None /\ update' = None /\ len' = len /\ cap' = cap /\ slots' = slots
    BY <1>8 DEF AbandonUpdate
  <2>2. Updated # None /\ Updated' = None /\ Contents' = Contents
    BY <2>1, UpdatedIs, NoArrayChanges DEF Updated
  <2> QED BY <2>2 DEF Store!Next, Store!AbandonUpdate
<1>9. ASSUME Heap PROVE Goal
  <2>1. len' = len /\ cap' = cap /\ slots' = slots /\ update' = update
    BY <1>9 DEF Heap, NewObject, Forget, Collect
  <2> QED BY <1>1, <2>1
<1>10. ASSUME NEW a \in Made, NEW index \in Indices, ArrayGet(a, index) PROVE Goal
  BY <1>1, <1>10 DEF ArrayGet
<1>11. ASSUME NEW a \in Made, Pop(a) PROVE Goal BY <1>11, PopRefines
<1>12. ASSUME NEW a \in Made, NEW v \in InHand, Push(a, v) PROVE Goal BY <1>12, PushRefines
<1>13. ASSUME UNCHANGED vars PROVE Goal BY <1>1, <1>13 DEF vars
<1>14. Goal
  <2> HIDE DEF Goal
  <2>1. CASE OrderlyNext
    BY <2>1, <1>2, <1>3, <1>4, <1>5, <1>6, <1>7, <1>8, <1>9, <1>10, <1>11, <1>12
       DEF OrderlyNext, Next
  <2> QED BY <2>1, <1>13
<1> QED BY <1>14

\* Arrays are sequences to orderly programs: no growth, popped slot, collection or
\* address that is used again can be seen, and an update writes what it has read.
THEOREM ArraysAreSequences == OrderlySpec => ImplementsArrayStore
<1>1. Init => Store!Init BY DEF Init, Store!Init, Contents, Updated
<1>2. OrderlySpec => []OrderlyInv BY InitOrderly, NextOrderly, PTL DEF OrderlySpec
<1>3. OrderlyInv /\ OrderlyInv' /\ [OrderlyNext]_vars => [Store!Next]_AbstractVars
  BY NextRefines
<1> QED BY <1>1, <1>2, <1>3, PTL DEF OrderlySpec, ImplementsArrayStore, Store!Spec, AbstractVars
===============================================================================
