---------------------------- MODULE ClosuresProofs ----------------------------
(***************************************************************************)
(* What holds of the stack, the frames and the open upvalues of src/vm.c   *)
(* for every size of the stack, every number of frames and upvalues, and   *)
(* every program: the open list falls, frames nest, and the closures of an *)
(* orderly program go on reading their variables.                          *)
(***************************************************************************)
EXTENDS Closures, OrderLemmas, SequenceTheorems

(***************************************************************************)
(* The invariants of every program and of the orderly ones. The entries of *)
(* the list are pointers into the stack, each upvalue listed once, and     *)
(* what OP_CLOSURE has still to capture are live slots: without this, a    *)
(* capture could put an upvalue on the list twice, or above the top.       *)
(***************************************************************************)
ListIsOpen ==
    \A k \in 1 .. Len(open) : /\ loc[open[k]] \in Slots \cup {Dangling}
                              /\ \A j \in 1 .. k - 1 : open[j] # open[k]

CapturesLive == \A k \in 1 .. Len(capturing) : capturing[k] < top

StackInv == TypeOK /\ OpenListFalls /\ FramesNest /\ ListIsOpen /\ CapturesLive

OrderlyInv == EveryOpenUpvalueListed /\ NoOpenUpvalueAboveTop /\ AllPointersUpdated
-----------------------------------------------------------------------------
(* The walks along the open list. *)

\* What SelectInSeq finds in a sequence with a sentinel behind it: where the test
\* first fails, B being the indices at which it does.
LEMMA FirstIndex ==
    ASSUME NEW n \in Nat, NEW B \in SUBSET (1 .. n)
    PROVE  LET I == B \cup {n + 1} IN
           /\ I # {} /\ Min(I) \in 1 .. n + 1
           /\ \A i \in 1 .. Min(I) - 1 : i \notin B
           /\ Min(I) - 1 < n => Min(I) \in B
<1> DEFINE I == B \cup {n + 1}
<1>1. I \subseteq Nat /\ I # {} OBVIOUS
<1>2. Min(I) \in I /\ \A x \in I : Min(I) <= x BY <1>1, MinIs
<1> HIDE DEF I
<1>3. \A x \in I : x \in 1 .. n + 1 BY DEF I
<1>4. Min(I) \in 1 .. n + 1 BY <1>2, <1>3
<1>5. \A i \in 1 .. Min(I) - 1 : i \notin B
  BY <1>2, <1>4 DEF I
<1> QED BY <1>1, <1>2, <1>4, <1>5 DEF I

\* A walk along the open list (vm.c:459, 480) passes the upvalues that are in the
\* set, and stops at one that is not, or at the end of the list.
LEMMA WalkStops ==
    ASSUME StackConstants, NEW s \in Seq(Upvalues), NEW us \in SUBSET Upvalues
    PROVE  /\ PrefixLength(s, us) \in 0 .. Len(s)
           /\ \A i \in 1 .. PrefixLength(s, us) : s[i] \in us
           /\ PrefixLength(s, us) < Len(s) => s[PrefixLength(s, us) + 1] \notin us
<1> DEFINE L == Len(s)
           t == s \o <<Unused>>
           B == {i \in 1 .. L : s[i] \notin us}
           I == {i \in 1 .. Len(t) : t[i] \notin us}
<1>1. L \in Nat /\ Len(t) = L + 1 /\ t[L + 1] = Unused /\ \A i \in 1 .. L : t[i] = s[i]
  OBVIOUS
<1>2. Unused \notin us
  BY DEF StackConstants
<1>3. I = B \cup {L + 1}
  <2> HIDE DEF t, L
  <2> QED BY <1>1, <1>2
<1>4. PrefixLength(s, us) = (IF I # {} THEN Min(I) ELSE 0) - 1
  BY DEF PrefixLength, SelectInSeq
<1> HIDE DEF t
<1>5. B \in SUBSET (1 .. L) OBVIOUS
<1> DEFINE n == PrefixLength(s, us)
<1> HIDE DEF I, B, L, n
<1>6. /\ B \cup {L + 1} # {} /\ Min(I) \in 1 .. L + 1
      /\ \A i \in 1 .. Min(I) - 1 : i \notin B
      /\ Min(I) - 1 < L => Min(I) \in B
  BY <1>1, <1>3, <1>5, FirstIndex
<1>7. n = Min(I) - 1 BY <1>3, <1>4, <1>6 DEF n
<1>8. n \in 0 .. L /\ (\A i \in 1 .. n : i \notin B) /\ (n < L => n + 1 \in B)
  BY <1>1, <1>6, <1>7
<1>9. n \in 0 .. L /\ (\A i \in 1 .. n : s[i] \in us) /\ (n < L => s[n + 1] \notin us)
  BY <1>1, <1>8 DEF B
<1> QED BY <1>9 DEF L, n
-----------------------------------------------------------------------------
(* The parts of steps. *)

\* The first n upvalues of the list.
Passed(n) == {open[i] : i \in 1 .. n}

\* The list loses its first n upvalues, and each of them gets a copy of its variable.
ClosesFront(n, slot, freed, junk) ==
    /\ Passed(n) \subseteq FromSlot(slot, freed)
    /\ n < Len(open) => open[n + 1] \notin FromSlot(slot, freed)
    /\ open' \in Seq(Upvalues) /\ Len(open') = Len(open) - n
    /\ \A i \in 1 .. Len(open') : open'[i] = open[n + i]
    /\ closed' = [u \in Upvalues |-> IF u \notin Passed(n) THEN closed[u]
                                     ELSE IF IsOpen(u) THEN memory[loc[u]] ELSE junk]
    /\ loc' = [u \in Upvalues |-> IF u \in Passed(n) THEN Closed ELSE loc[u]]

\* close_upvalues (vm.c:478) takes a front part of the list, the upvalues at or above
\* the slot, and gives each its own copy of its variable.
LEMMA CloseIs ==
    ASSUME StackConstants, StackInv, NEW slot, NEW freed, NEW junk, CloseFrom(slot, freed, junk)
    PROVE  \E n \in 0 .. Len(open) : ClosesFront(n, slot, freed, junk)
<1> DEFINE n == PrefixLength(open, FromSlot(slot, freed))
<1>1. open \in Seq(Upvalues) BY DEF StackInv, TypeOK
<1>2. FromSlot(slot, freed) \in SUBSET Upvalues BY DEF FromSlot, InStack
<1>3. /\ n \in 0 .. Len(open)
      /\ \A i \in 1 .. n : open[i] \in FromSlot(slot, freed)
      /\ n < Len(open) => open[n + 1] \notin FromSlot(slot, freed)
  BY <1>1, <1>2, WalkStops
<1>4. /\ open' = SubSeq(open, n + 1, Len(open))
      /\ closed' = [u \in Upvalues |-> IF u \notin ToSet(SubSeq(open, 1, n)) THEN closed[u]
                                       ELSE IF IsOpen(u) THEN memory[loc[u]] ELSE junk]
      /\ loc' = [u \in Upvalues |-> IF u \in ToSet(SubSeq(open, 1, n)) THEN Closed ELSE loc[u]]
  BY DEF CloseFrom
<1> HIDE DEF n
<1>5. ToSet(SubSeq(open, 1, n)) = Passed(n)
  <2>1. n \in Nat /\ \A i \in 1 .. n : open[i] \in Upvalues BY <1>1, <1>3
  <2>2. Len(SubSeq(open, 1, n)) = n /\ \A i \in 1 .. n : SubSeq(open, 1, n)[i] = open[i]
    BY <1>1, <1>3
  <2>3. DOMAIN SubSeq(open, 1, n) = 1 .. n BY <1>1, <1>3, <2>1
  <2> QED BY <2>2, <2>3 DEF ToSet, Passed
<1>6. /\ open' \in Seq(Upvalues) /\ Len(open') = Len(open) - n
      /\ \A i \in 1 .. Len(open') : open'[i] = open[n + i]
  BY <1>1, <1>3, <1>4
<1> QED BY <1>3, <1>4, <1>5, <1>6 DEF Passed, ClosesFront

\* What is closed was a pointer into the stack that is no other entry of the list.
LEMMA CloseKeepsList ==
    ASSUME StackConstants, StackInv, NEW slot, NEW freed, NEW junk \in Values,
           CloseFrom(slot, freed, junk)
    PROVE  /\ open' \in Seq(Upvalues) /\ closed' \in [Upvalues -> Values]
           /\ loc' \in [Upvalues -> Slots \cup {Closed, Dangling, Unused}]
           /\ OpenListFalls' /\ ListIsOpen'
<1>0. PICK n \in 0 .. Len(open) : ClosesFront(n, slot, freed, junk)
  BY CloseIs
<1>1. /\ open' \in Seq(Upvalues) /\ Len(open') = Len(open) - n
      /\ \A i \in 1 .. Len(open') : open'[i] = open[n + i]
      /\ closed' = [u \in Upvalues |-> IF u \notin Passed(n) THEN closed[u]
                                       ELSE IF IsOpen(u) THEN memory[loc[u]] ELSE junk]
      /\ loc' = [u \in Upvalues |-> IF u \in Passed(n) THEN Closed ELSE loc[u]]
  BY <1>0 DEF ClosesFront
<1>2. open \in Seq(Upvalues) /\ Len(open) \in Nat BY DEF StackInv, TypeOK
<1>3. closed' \in [Upvalues -> Values] BY <1>1 DEF StackInv, TypeOK, IsOpen
<1>4. loc' \in [Upvalues -> Slots \cup {Closed, Dangling, Unused}]
  BY <1>1 DEF StackInv, TypeOK
<1>5. \A i \in 1 .. Len(open') : /\ n + i \in 1 .. Len(open) /\ open'[i] = open[n + i]
                                 /\ open[n + i] \notin Passed(n) /\ open[n + i] \in Upvalues
                                 /\ loc'[open'[i]] = loc[open[n + i]]
  <2> TAKE i \in 1 .. Len(open')
  <2>1. n + i \in 1 .. Len(open) /\ open'[i] = open[n + i] BY <1>1, <1>2
  <2>2. \A j \in 1 .. n : j \in 1 .. (n + i) - 1 BY <1>2, <2>1
  <2>3. open[n + i] \notin Passed(n) BY <2>1, <2>2 DEF Passed, StackInv, ListIsOpen
  <2>4. open[n + i] \in Upvalues BY <1>2, <2>1
  <2> QED BY <1>1, <2>1, <2>3, <2>4
<1>6. ListIsOpen'
  <2> SUFFICES ASSUME NEW k \in 1 .. Len(open')
               PROVE  /\ loc'[open'[k]] \in Slots \cup {Dangling}
                      /\ \A j \in 1 .. k - 1 : open'[j] # open'[k]
    BY DEF ListIsOpen, Slots
  <2>1. loc'[open'[k]] \in Slots \cup {Dangling} BY <1>5 DEF StackInv, ListIsOpen
  <2>2. ASSUME NEW j \in 1 .. k - 1 PROVE open'[j] # open'[k]
    <3>1. j \in 1 .. Len(open') /\ n + j \in 1 .. (n + k) - 1 BY <1>1, <1>2
    <3> QED BY <1>5, <3>1 DEF StackInv, ListIsOpen
  <2> QED BY <2>1, <2>2
<1>7. OpenListFalls'
  <2> SUFFICES ASSUME NEW j \in 1 .. Len(open'), NEW k \in 1 .. Len(open'), j < k,
                      loc'[open'[j]] \in Slots, loc'[open'[k]] \in Slots
               PROVE  loc'[open'[j]] > loc'[open'[k]]
    BY DEF OpenListFalls, IsOpen, Slots
  <2>1. n + j < n + k BY <1>1, <1>2
  <2> QED BY <1>5, <2>1 DEF StackInv, OpenListFalls, IsOpen
<1> QED BY <1>1, <1>3, <1>4, <1>6, <1>7

\* resize_stack (vm.c:196) gives every upvalue of the list its slot in the new block.
LEMMA RelocatedIs ==
    ASSUME StackInv, NEW moved
    PROVE  /\ Relocated(moved) \in [Upvalues -> Slots \cup {Closed, Dangling, Unused}]
           /\ \A u \in Upvalues : \/ Relocated(moved)[u] = loc[u]
                                  \/ /\ Relocated(moved)[u] = Dangling /\ moved
                                     /\ IsOpen(u) /\ u \notin ToSet(open)
           /\ \A k \in 1 .. Len(open) : Relocated(moved)[open[k]] = loc[open[k]]
<1>1. open \in Seq(Upvalues) /\ loc \in [Upvalues -> Slots \cup {Closed, Dangling, Unused}]
  BY DEF StackInv, TypeOK
<1>2. \A k \in 1 .. Len(open) : open[k] \in ToSet(open) /\ open[k] \in Upvalues
  BY <1>1 DEF ToSet
<1> QED BY <1>1, <1>2 DEF Relocated

\* A step that only moves the block keeps the list.
LEMMA MoveKeepsList ==
    ASSUME StackInv, NEW moved, open' = open, loc' = Relocated(moved)
    PROVE  OpenListFalls' /\ ListIsOpen'
           /\ loc' \in [Upvalues -> Slots \cup {Closed, Dangling, Unused}]
<1>1. \A k \in 1 .. Len(open) : loc'[open[k]] = loc[open[k]] BY RelocatedIs
<1>2. ListIsOpen' BY <1>1 DEF StackInv, ListIsOpen, Slots
<1>3. OpenListFalls' BY <1>1 DEF StackInv, OpenListFalls, IsOpen, Slots
<1> QED BY <1>2, <1>3, RelocatedIs
-----------------------------------------------------------------------------
(* Every step of every program keeps StackInv. *)

\* What TypeOK says, one fact at a time.
LEMMA Types ==
    ASSUME StackConstants, StackInv
    PROVE  /\ memory \in [Slots -> Values] /\ top \in 1 .. MaxStack /\ capacity \in Nat
           /\ frames \in Seq(Slots) /\ Len(frames) \in 1 .. MaxFrames
           /\ frames[Len(frames)] \in Slots /\ frames[Len(frames)] < top /\ Base = frames[Len(frames)]
           /\ loc \in [Upvalues -> Slots \cup {Closed, Dangling, Unused}]
           /\ closed \in [Upvalues -> Values] /\ open \in Seq(Upvalues)
           /\ capturing \in Seq(Slots) /\ orderly \in BOOLEAN
           /\ MaxStack \in Nat \ {0} /\ MaxFrames \in Nat \ {0} /\ StackInitial \in Nat \ {0}
  BY DEF StackInv, TypeOK, FramesNest, StackConstants, Base, Last

\* A value is pushed onto a stack that may grow and move for it.
LEMMA PushStack ==
    ASSUME StackConstants, StackInv, NEW v \in Values, NEW moved \in BOOLEAN,
           Push(v, moved), orderly' \in BOOLEAN
    PROVE  StackInv'
<1>1. /\ top < MaxStack /\ top' = top + 1 /\ memory' = [memory EXCEPT ![top] = v]
      /\ capacity' = (IF top >= capacity THEN 2 * capacity ELSE capacity)
      /\ loc' = Relocated(moved) /\ UNCHANGED <<frames, open, closed, capturing>>
      /\ capturing = <<>>
  BY DEF Push, MakeRoom, Running
<1>2. OpenListFalls' /\ ListIsOpen' /\ loc' \in [Upvalues -> Slots \cup {Closed, Dangling, Unused}]
  BY <1>1, MoveKeepsList
<1>3. TypeOK' BY <1>1, <1>2, Types DEF TypeOK, Slots
<1>4. FramesNest' BY <1>1, Types DEF StackInv, FramesNest, Slots
<1>5. CapturesLive' BY <1>1 DEF CapturesLive
<1> QED BY <1>2, <1>3, <1>4, <1>5 DEF StackInv

\* The slots a closure names are live once the closure is on the stack.
LEMMA MakeClosureStack ==
    ASSUME StackConstants, StackInv, NEW v \in Values, NEW moved \in BOOLEAN,
           NEW slots \in CaptureLists, MakeClosure(v, slots, moved), orderly' \in BOOLEAN
    PROVE  StackInv'
<1>1. /\ top < MaxStack /\ top' = top + 1 /\ memory' = [memory EXCEPT ![top] = v]
      /\ capacity' = (IF top >= capacity THEN 2 * capacity ELSE capacity)
      /\ loc' = Relocated(moved) /\ UNCHANGED <<frames, open, closed>>
      /\ capturing' = slots
  BY DEF MakeClosure, MakeRoom
<1>2. OpenListFalls' /\ ListIsOpen' /\ loc' \in [Upvalues -> Slots \cup {Closed, Dangling, Unused}]
  BY <1>1, MoveKeepsList
<1>3. slots \in Seq(Slots) /\ \A k \in 1 .. Len(slots) : slots[k] \in Slots /\ slots[k] <= top
  <2>1. \A l \in Base .. top : l \in Slots /\ l <= top
    BY <1>1, Types DEF Slots
  <2>2. CASE slots = <<>> BY <2>2
  <2>3. ASSUME NEW l \in Base .. top, slots = <<l>>
        PROVE  slots \in Seq(Slots) /\ \A k \in 1 .. Len(slots) : slots[k] = l
    BY <2>1, <2>3
  <2>4. ASSUME NEW l \in Base .. top, NEW m \in Base .. top, slots = <<l, m>>
        PROVE  slots \in Seq(Slots) /\ \A k \in 1 .. Len(slots) : slots[k] \in {l, m}
    BY <2>1, <2>4
  <2>5. \/ slots = <<>>
        \/ \E l \in Base .. top : slots = <<l>>
        \/ \E l, m \in Base .. top : slots = <<l, m>>
    BY DEF CaptureLists
  <2> QED BY <2>1, <2>2, <2>3, <2>4, <2>5
<1>4. TypeOK'
  <2>1. capturing' \in Seq(Slots) BY <1>1, <1>3
  <2>2. memory' \in [Slots -> Values] BY <1>1, Types
  <2>3. top' \in 1 .. MaxStack /\ capacity' \in Nat BY <1>1, Types
  <2> QED BY <1>1, <1>2, <2>1, <2>2, <2>3, Types DEF TypeOK
<1>5. FramesNest' BY <1>1, Types DEF StackInv, FramesNest, Slots
<1>6. CapturesLive'
  <2>1. \A k \in 1 .. Len(slots) : slots[k] < top + 1 BY <1>3, Types DEF Slots
  <2> QED BY <1>1, <2>1 DEF CapturesLive
<1> QED BY <1>2, <1>4, <1>5, <1>6 DEF StackInv

\* The collector halves the block (memory.c:281).
LEMMA ShrinkStack ==
    ASSUME StackConstants, StackInv, NEW moved \in BOOLEAN, Shrink(moved), orderly' \in BOOLEAN
    PROVE  StackInv'
<1>1. /\ capacity' = capacity \div 2 /\ loc' = Relocated(moved)
      /\ UNCHANGED <<memory, top, frames, open, closed, capturing>>
  BY DEF Shrink
<1>2. OpenListFalls' /\ ListIsOpen' /\ loc' \in [Upvalues -> Slots \cup {Closed, Dangling, Unused}]
  BY <1>1, MoveKeepsList
<1>3. capacity' \in Nat BY <1>1, Types
<1>4. TypeOK' BY <1>1, <1>2, <1>3, Types DEF TypeOK
<1>5. FramesNest' BY <1>1 DEF StackInv, FramesNest
<1>6. CapturesLive' BY <1>1 DEF StackInv, CapturesLive
<1> QED BY <1>2, <1>4, <1>5, <1>6 DEF StackInv

\* capture_upvalue (vm.c:456): a new upvalue goes behind those above its slot, and
\* nothing comes behind it.
LEMMA CaptureStack ==
    ASSUME StackConstants, StackInv, NEW u \in Upvalues, NEW freed \in Freed,
           NEW shrunk \in BOOLEAN, NEW moved \in BOOLEAN, Capture(u, freed, shrunk, moved),
           orderly' \in BOOLEAN
    PROVE  StackInv'
<1> DEFINE slot  == Head(capturing)
           above == PrefixLength(open, HigherThan(slot, freed))
<1>1. /\ capturing # <<>> /\ capturing' = Tail(capturing)
      /\ UNCHANGED <<memory, top, frames, closed>>
  BY DEF Capture
<1>2. /\ slot \in Slots /\ slot < top
      /\ capturing' \in Seq(Slots) /\ CapturesLive'
  <2>1. /\ capturing \in Seq(Slots) /\ Len(capturing) \in Nat \ {0} /\ slot = capturing[1]
        /\ capturing' \in Seq(Slots) /\ Len(capturing') = Len(capturing) - 1
        /\ \A k \in 1 .. Len(capturing') : capturing'[k] = capturing[k + 1]
    BY <1>1, Types
  <2>2. \A k \in 1 .. Len(capturing) : capturing[k] < top BY DEF StackInv, CapturesLive
  <2>3. slot \in Slots /\ slot < top BY <2>1, <2>2
  <2> HIDE DEF slot
  <2> QED BY <1>1, <2>1, <2>2, <2>3 DEF CapturesLive
<1>3. FramesNest' BY <1>1 DEF StackInv, FramesNest
<1>4. CASE UNCHANGED <<open, loc, capacity>>
  <2>1. TypeOK' BY <1>1, <1>2, <1>4, Types DEF TypeOK
  <2>2. OpenListFalls' BY <1>4 DEF StackInv, OpenListFalls, IsOpen, Slots
  <2>3. ListIsOpen' BY <1>4 DEF StackInv, ListIsOpen, Slots
  <2> QED BY <1>2, <1>3, <2>1, <2>2, <2>3 DEF StackInv
<1>5. CASE /\ loc[u] = Unused
           /\ loc' = [Relocated(moved) EXCEPT ![u] = IF moved THEN Dangling ELSE slot]
           /\ open' = Append(SubSeq(open, 1, above), u)
           /\ capacity' = IF shrunk THEN capacity \div 2 ELSE capacity
  <2>1. /\ above \in 0 .. Len(open)
        /\ \A k \in 1 .. above : open[k] \in HigherThan(slot, freed)
    <3>1. HigherThan(slot, freed) \in SUBSET Upvalues BY DEF HigherThan, InStack
    <3> QED BY <3>1, Types, WalkStops
  <2> HIDE DEF slot, above
  <2>2. capacity' \in Nat BY <1>5, Types
  <2>3. /\ Relocated(moved) \in [Upvalues -> Slots \cup {Closed, Dangling, Unused}]
        /\ \A k \in 1 .. Len(open) : Relocated(moved)[open[k]] = loc[open[k]]
    BY RelocatedIs
  <2>4. /\ loc' \in [Upvalues -> Slots \cup {Closed, Dangling, Unused}]
        /\ loc'[u] = IF moved THEN Dangling ELSE slot
        /\ \A w \in Upvalues \ {u} : loc'[w] = Relocated(moved)[w]
    BY <1>2, <1>5, <2>3
  <2>5. /\ open' \in Seq(Upvalues) /\ Len(open') = above + 1 /\ open'[above + 1] = u
        /\ \A k \in 1 .. above : open'[k] = open[k] /\ open[k] \in Upvalues
    <3>1. /\ SubSeq(open, 1, above) \in Seq(Upvalues) /\ Len(SubSeq(open, 1, above)) = above
          /\ \A k \in 1 .. above : SubSeq(open, 1, above)[k] = open[k] /\ open[k] \in Upvalues
      BY <2>1, Types
    <3> QED BY <1>5, <2>1, <3>1
  <2>6. \A k \in 1 .. above : open[k] # u /\ loc'[open[k]] = loc[open[k]] /\ k \in 1 .. Len(open)
    <3> TAKE k \in 1 .. above
    <3>1. k \in 1 .. Len(open) BY <2>1, Types
    <3>2. loc[open[k]] \in Slots \cup {Dangling} BY <3>1 DEF StackInv, ListIsOpen
    <3>3. open[k] # u BY <1>5, <3>2 DEF StackConstants, Slots
    <3> QED BY <2>3, <2>4, <2>5, <3>1, <3>3
  <2>7. ListIsOpen'
    <3> SUFFICES ASSUME NEW k \in 1 .. Len(open')
                 PROVE  /\ loc'[open'[k]] \in Slots \cup {Dangling}
                        /\ \A j \in 1 .. k - 1 : open'[j] # open'[k]
      BY DEF ListIsOpen, Slots
    <3>1. CASE k = above + 1
      <4>1. \A j \in 1 .. k - 1 : open'[j] # open'[k] BY <2>1, <2>5, <2>6, <3>1
      <4> QED BY <1>2, <2>4, <2>5, <3>1, <4>1
    <3>2. CASE k \in 1 .. above
      <4>1. loc'[open'[k]] \in Slots \cup {Dangling}
        BY <2>5, <2>6, <3>2 DEF StackInv, ListIsOpen
      <4>2. ASSUME NEW j \in 1 .. k - 1 PROVE open'[j] # open'[k]
        <5>1. j \in 1 .. above BY <2>1, <3>2
        <5> QED BY <2>5, <2>6, <3>2, <5>1 DEF StackInv, ListIsOpen
      <4> QED BY <4>1, <4>2
    <3> QED BY <2>1, <2>5, <3>1, <3>2
  <2>8. OpenListFalls'
    <3> SUFFICES ASSUME NEW j \in 1 .. Len(open'), NEW k \in 1 .. Len(open'), j < k,
                        loc'[open'[j]] \in Slots, loc'[open'[k]] \in Slots
                 PROVE  loc'[open'[j]] > loc'[open'[k]]
      BY DEF OpenListFalls, IsOpen, Slots
    <3>1. j \in 1 .. above /\ loc'[open'[j]] = loc[open[j]] /\ j \in 1 .. Len(open)
      BY <2>1, <2>5, <2>6
    <3>2. CASE k = above + 1
      <4>1. loc[open[j]] > slot
        BY <2>1, <3>1 DEF HigherThan, InStack, Address, StackConstants, Slots
      <4>2. loc'[open'[k]] = slot BY <2>4, <2>5, <3>2 DEF StackConstants, Slots
      <4> QED BY <3>1, <4>1, <4>2
    <3>3. CASE k \in 1 .. above
      BY <2>5, <2>6, <3>1, <3>3 DEF StackInv, OpenListFalls, IsOpen
    <3> QED BY <2>1, <2>5, <3>2, <3>3
  <2>9. TypeOK' BY <1>1, <1>2, <2>2, <2>4, <2>5, Types DEF TypeOK
  <2> QED BY <1>2, <1>3, <2>7, <2>8, <2>9 DEF StackInv
<1> QED BY <1>4, <1>5 DEF Capture

\* The active frame starts above every other.
LEMMA ActiveIsHighest ==
    ASSUME StackConstants, StackInv
    PROVE  \A k \in 1 .. Len(frames) : /\ frames[k] \in Slots /\ frames[k] <= frames[Len(frames)]
                                       /\ frames[k] < top
<1> TAKE k \in 1 .. Len(frames)
<1>1. frames[k] \in Slots /\ Len(frames) \in 1 .. Len(frames) /\ frames[Len(frames)] \in Slots
  BY Types
<1>2. k < Len(frames) => frames[k] < frames[Len(frames)]
  BY <1>1 DEF StackInv, FramesNest
<1>3. k = Len(frames) \/ k < Len(frames) BY Types
<1>4. frames[k] < top BY DEF StackInv, FramesNest
<1> QED BY <1>1, <1>2, <1>3, <1>4 DEF Slots

\* The end of a scope closes what it must, and pops one variable of the frame.
LEMMA EndScopeStack ==
    ASSUME StackConstants, StackInv, NEW named \in BOOLEAN, NEW freed \in Freed,
           NEW junk \in Values, EndScope(named, freed, junk), orderly' \in BOOLEAN
    PROVE  StackInv'
<1>1. /\ top > Base + 1 /\ top' = top - 1 /\ capturing = <<>>
      /\ UNCHANGED <<memory, capacity, frames, capturing>>
  BY DEF EndScope, Running
<1>2. /\ open' \in Seq(Upvalues) /\ closed' \in [Upvalues -> Values]
      /\ loc' \in [Upvalues -> Slots \cup {Closed, Dangling, Unused}]
      /\ OpenListFalls' /\ ListIsOpen'
  <2>1. CASE CloseFrom(top - 1, freed, junk) BY <2>1, CloseKeepsList
  <2>2. CASE UNCHANGED <<open, closed, loc>>
    <3>1. OpenListFalls' BY <2>2 DEF StackInv, OpenListFalls, IsOpen, Slots
    <3>2. ListIsOpen' BY <2>2 DEF StackInv, ListIsOpen, Slots
    <3> QED BY <2>2, <3>1, <3>2, Types
  <2> QED BY <2>1, <2>2 DEF EndScope
<1>3. top' \in 1 .. MaxStack /\ \A k \in 1 .. Len(frames) : frames[k] < top'
  <2>1. \A k \in 1 .. Len(frames) : frames[k] <= frames[Len(frames)]
    BY ActiveIsHighest
  <2>2. top - 1 \in 1 .. MaxStack BY <1>1, Types DEF Slots
  <2>3. \A k \in 1 .. Len(frames) : frames[k] \in Slots BY Types
  <2> QED BY <1>1, <2>1, <2>2, <2>3, Types DEF Slots
<1>4. TypeOK' BY <1>1, <1>2, <1>3, Types DEF TypeOK
<1>5. FramesNest' BY <1>1, <1>3 DEF StackInv, FramesNest
<1>6. CapturesLive' BY <1>1 DEF CapturesLive
<1> QED BY <1>2, <1>4, <1>5, <1>6 DEF StackInv

\* A shorter stack of frames nests as the longer one did.
LEMMA FewerFrames ==
    ASSUME StackConstants, StackInv, NEW n \in 1 .. Len(frames), frames' = SubSeq(frames, 1, n)
    PROVE  /\ frames' \in Seq(Slots) /\ Len(frames') = n /\ n \in 1 .. MaxFrames
           /\ \A k \in 1 .. n : frames'[k] = frames[k]
           /\ \A k \in 1 .. n : frames[k] \in Slots /\ frames[k] <= frames[n]
           /\ \A j, k \in 1 .. Len(frames') : j < k => frames'[j] < frames'[k]
<1>1. /\ frames' \in Seq(Slots) /\ Len(frames') = n /\ n \in 1 .. MaxFrames
      /\ \A k \in 1 .. n : frames'[k] = frames[k] /\ frames[k] \in Slots /\ k \in 1 .. Len(frames)
  BY Types
<1>2. \A j, k \in 1 .. Len(frames) : j < k => frames[j] < frames[k]
  BY DEF StackInv, FramesNest
<1>3. \A k \in 1 .. n : frames[k] <= frames[n]
  BY <1>1, <1>2 DEF Slots
<1> QED BY <1>1, <1>2, <1>3

\* A jump or an exception pops variables and frames and leaves the list as it is.
LEMMA JumpStack ==
    ASSUME StackConstants, StackInv, NEW depth \in 1 .. Len(frames), NEW height \in 1 .. MaxStack,
           Jump(depth, height), orderly' \in BOOLEAN
    PROVE  StackInv'
<1>1. /\ height > frames[depth] /\ height < top /\ top' = height /\ capturing = <<>>
      /\ frames' = SubSeq(frames, 1, depth)
      /\ UNCHANGED <<memory, capacity, open, loc, closed, capturing>>
  BY DEF Jump, Running
<1>2. /\ frames' \in Seq(Slots) /\ Len(frames') = depth /\ depth \in 1 .. MaxFrames
      /\ \A k \in 1 .. depth : frames'[k] = frames[k]
      /\ \A k \in 1 .. depth : frames[k] \in Slots /\ frames[k] <= frames[depth]
      /\ \A j, k \in 1 .. Len(frames') : j < k => frames'[j] < frames'[k]
  BY <1>1, FewerFrames
<1>3. FramesNest' BY <1>1, <1>2 DEF FramesNest, Slots
<1>4. TypeOK' BY <1>1, <1>2, Types DEF TypeOK
<1>5. OpenListFalls' BY <1>1 DEF StackInv, OpenListFalls, IsOpen, Slots
<1>6. ListIsOpen' BY <1>1 DEF StackInv, ListIsOpen, Slots
<1>7. CapturesLive' BY <1>1 DEF CapturesLive
<1> QED BY <1>3, <1>4, <1>5, <1>6, <1>7 DEF StackInv

\* A call adds a frame that starts above the active one's callee (vm.c:316).
LEMMA CallStack ==
    ASSUME StackConstants, StackInv, NEW argc \in 0 .. 1, Call(argc), orderly' \in BOOLEAN
    PROVE  StackInv'
<1> DEFINE base == top - argc - 1
           n    == Len(frames)
<1>1. /\ n < MaxFrames /\ base > frames[n] /\ capturing = <<>>
      /\ frames' = Append(frames, base)
      /\ UNCHANGED <<memory, top, capacity, open, loc, closed, capturing>>
  BY Types DEF Call, Running
<1>2. base \in Slots /\ base < top BY <1>1, Types DEF Slots
<1> HIDE DEF base
<1>3. /\ frames' \in Seq(Slots) /\ Len(frames') = n + 1 /\ frames'[n + 1] = base
      /\ \A k \in 1 .. n : frames'[k] = frames[k] /\ frames[k] \in Slots
      /\ n \in Nat /\ n + 1 \in 1 .. MaxFrames
  BY <1>1, <1>2, Types
<1> HIDE DEF n
<1>4. \A k \in 1 .. n : frames[k] <= frames[n] /\ frames[k] < top
  BY ActiveIsHighest DEF n
<1>5. FramesNest'
  <2>1. \A k \in 1 .. Len(frames') : frames'[k] < top' BY <1>1, <1>2, <1>3, <1>4
  <2>2. ASSUME NEW j \in 1 .. Len(frames'), NEW k \in 1 .. Len(frames'), j < k
        PROVE  frames'[j] < frames'[k]
    <3>1. CASE k = n + 1
      <4>1. j \in 1 .. n BY <1>3, <2>2, <3>1
      <4>2. frames[j] < base BY <1>1, <1>2, <1>3, <1>4, <4>1, Types DEF Slots, n
      <4> QED BY <1>3, <3>1, <4>1, <4>2
    <3>2. CASE k \in 1 .. n
      <4>1. j \in 1 .. n BY <1>3, <2>2, <3>2
      <4> QED BY <1>3, <2>2, <3>2, <4>1 DEF StackInv, FramesNest, n
    <3> QED BY <1>3, <3>1, <3>2
  <2> QED BY <2>1, <2>2 DEF FramesNest
<1>6. TypeOK' BY <1>1, <1>3, Types DEF TypeOK
<1>7. OpenListFalls' BY <1>1 DEF StackInv, OpenListFalls, IsOpen, Slots
<1>8. ListIsOpen' BY <1>1 DEF StackInv, ListIsOpen, Slots
<1>9. CapturesLive' BY <1>1 DEF CapturesLive
<1> QED BY <1>5, <1>6, <1>7, <1>8, <1>9 DEF StackInv

\* A return closes the variables of its frame, and leaves its result in their place.
LEMMA ReturnStack ==
    ASSUME StackConstants, StackInv, NEW freed \in Freed, NEW junk \in Values,
           Return(freed, junk), orderly' \in BOOLEAN
    PROVE  StackInv'
<1>1. /\ Len(frames) > 1 /\ top > Base + 1 /\ top' = Base + 1 /\ capturing = <<>>
      /\ memory' = [memory EXCEPT ![Base] = memory[top - 1]]
      /\ frames' = SubSeq(frames, 1, Len(frames) - 1)
      /\ UNCHANGED <<capacity, capturing>>
      /\ CloseFrom(Base, freed, junk)
  BY DEF Return, Running, Front
<1>2. /\ open' \in Seq(Upvalues) /\ closed' \in [Upvalues -> Values]
      /\ loc' \in [Upvalues -> Slots \cup {Closed, Dangling, Unused}]
      /\ OpenListFalls' /\ ListIsOpen'
  BY <1>1, CloseKeepsList
<1>3. Len(frames) - 1 \in 1 .. Len(frames) BY <1>1, Types
<1>4. /\ frames' \in Seq(Slots) /\ Len(frames') = Len(frames) - 1
      /\ Len(frames) - 1 \in 1 .. MaxFrames
      /\ \A k \in 1 .. Len(frames) - 1 : frames'[k] = frames[k] /\ frames[k] \in Slots
      /\ \A j, k \in 1 .. Len(frames') : j < k => frames'[j] < frames'[k]
  BY <1>1, <1>3, FewerFrames
<1>5. \A k \in 1 .. Len(frames) - 1 : frames[k] < Base
  BY <1>3, Types DEF StackInv, FramesNest
<1>6. FramesNest' BY <1>1, <1>4, <1>5, Types DEF FramesNest, Slots
<1>7. top - 1 \in Slots /\ top' \in 1 .. MaxStack BY <1>1, Types DEF Slots
<1>8. memory' \in [Slots -> Values] BY <1>1, <1>7, Types
<1>9. TypeOK' BY <1>1, <1>2, <1>4, <1>7, <1>8, Types DEF TypeOK
<1>10. CapturesLive' BY <1>1 DEF CapturesLive
<1> QED BY <1>2, <1>6, <1>9, <1>10 DEF StackInv

\* Assignments to variables change values only.
LEMMA WriteStack ==
    ASSUME StackConstants, StackInv, Write, orderly' \in BOOLEAN
    PROVE  StackInv'
<1>1. /\ UNCHANGED <<top, capacity, frames, open, loc, capturing>>
      /\ memory' \in [Slots -> Values] /\ closed' \in [Upvalues -> Values]
  <2>1. ASSUME NEW v \in Values, NEW slot \in Locals, SetLocal(slot, v)
        PROVE  /\ UNCHANGED <<top, capacity, frames, open, loc, capturing>>
               /\ memory' \in [Slots -> Values] /\ closed' \in [Upvalues -> Values]
    BY <2>1, Types DEF SetLocal
  <2>2. ASSUME NEW v \in Values, NEW u \in Upvalues, SetUpvalue(u, v)
        PROVE  /\ UNCHANGED <<top, capacity, frames, open, loc, capturing>>
               /\ memory' \in [Slots -> Values] /\ closed' \in [Upvalues -> Values]
    BY <2>2, Types DEF SetUpvalue
  <2> QED BY <2>1, <2>2 DEF Write
<1>2. TypeOK' BY <1>1, Types DEF TypeOK
<1>3. OpenListFalls' BY <1>1 DEF StackInv, OpenListFalls, IsOpen, Slots
<1>4. ListIsOpen' BY <1>1 DEF StackInv, ListIsOpen, Slots
<1>5. CapturesLive' BY <1>1 DEF StackInv, CapturesLive
<1>6. FramesNest' BY <1>1 DEF StackInv, FramesNest
<1> QED BY <1>2, <1>3, <1>4, <1>5, <1>6 DEF StackInv

\* A new VM: the script's closure is on the stack.
LEMMA InitStack ==
    ASSUME StackConstants, Init
    PROVE  StackInv
<1>1. (CHOOSE v \in Values : TRUE) \in Values BY DEF StackConstants
<1>2. TypeOK BY <1>1 DEF Init, TypeOK, StackConstants, Slots
<1>3. OpenListFalls /\ ListIsOpen /\ CapturesLive
  BY DEF Init, OpenListFalls, ListIsOpen, CapturesLive
<1>4. FramesNest BY DEF Init, FramesNest
<1> QED BY <1>2, <1>3, <1>4 DEF StackInv

\* Each disjunct of Control.
LEMMA ControlStack ==
    ASSUME StackConstants, StackInv, Control, orderly' \in BOOLEAN
    PROVE  StackInv'
<1>1. ASSUME NEW v \in Values, NEW moved \in BOOLEAN, Push(v, moved) PROVE StackInv'
  BY <1>1, PushStack
<1>2. ASSUME NEW v \in Values, NEW moved \in BOOLEAN, NEW slots \in CaptureLists,
             MakeClosure(v, slots, moved)
      PROVE  StackInv'
  BY <1>2, MakeClosureStack
<1>3. ASSUME NEW moved \in BOOLEAN, Shrink(moved) PROVE StackInv'
  BY <1>3, ShrinkStack
<1>4. ASSUME NEW moved \in BOOLEAN, NEW u \in Upvalues, NEW freed \in Freed,
             NEW shrunk \in BOOLEAN, Capture(u, freed, shrunk, moved)
      PROVE  StackInv'
  BY <1>4, CaptureStack
<1>5. ASSUME NEW freed \in Freed, NEW v \in Values, NEW named \in BOOLEAN,
             EndScope(named, freed, v)
      PROVE  StackInv'
  BY <1>5, EndScopeStack
<1>6. ASSUME NEW freed \in Freed, NEW v \in Values, Return(freed, v) PROVE StackInv'
  BY <1>6, ReturnStack
<1>7. ASSUME NEW argc \in 0 .. 1, Call(argc) PROVE StackInv'
  BY <1>7, CallStack
<1> QED BY <1>1, <1>2, <1>3, <1>4, <1>5, <1>6, <1>7 DEF Control

\* Every step of every program keeps it.
LEMMA NextStack ==
    ASSUME StackConstants, StackInv, [Next]_vars
    PROVE  StackInv'
<1>1. CASE Write \/ Control
  <2>1. orderly \in BOOLEAN BY Types
  <2>2. orderly' \in BOOLEAN
    BY <1>1, <2>1 DEF Next, vars
  <2> QED BY <1>1, <2>2, WriteStack, ControlStack
<1>2. CASE Jumps /\ orderly' = (orderly /\ LeavesNoneOpen)
  <2>1. orderly' \in BOOLEAN BY <1>2, Types
  <2> QED BY <1>2, <2>1, JumpStack DEF Jumps
<1>3. CASE UNCHANGED vars
  <2>1. TypeOK' BY <1>3, Types DEF TypeOK, vars
  <2>2. OpenListFalls' BY <1>3 DEF StackInv, OpenListFalls, IsOpen, Slots, vars
  <2>3. ListIsOpen' BY <1>3 DEF StackInv, ListIsOpen, Slots, vars
  <2>4. CapturesLive' BY <1>3 DEF StackInv, CapturesLive, vars
  <2>5. FramesNest' BY <1>3 DEF StackInv, FramesNest, vars
  <2> QED BY <2>1, <2>2, <2>3, <2>4, <2>5 DEF StackInv
<1> QED BY <1>1, <1>2, <1>3 DEF Next
-----------------------------------------------------------------------------
(***************************************************************************)
(* Orderly programs: every pointer into the stack is on the list, so that  *)
(* it is closed with its variable and moved with the stack.                *)
(***************************************************************************)

\* Closures read what they read before the step.
VariablesKept == \A u \in Upvalues : loc[u] # Unused => Read(u)' = Read(u)

\* The upvalues of an orderly program: not dangling, and listed while open.
LEMMA OrderlyIs ==
    ASSUME StackConstants, StackInv, OrderlyInv, orderly
    PROVE  /\ \A u \in Upvalues : loc[u] \in Slots \cup {Closed, Unused}
           /\ \A u \in Upvalues : loc[u] \in Slots =>
                 loc[u] < top /\ \E k \in 1 .. Len(open) : open[k] = u
           /\ \A k \in 1 .. Len(open) : open[k] \in Upvalues /\ loc[open[k]] \in Slots
           /\ \A moved \in BOOLEAN : Relocated(moved) = loc
<1>1. \A u \in Upvalues : loc[u] \in Slots \cup {Closed, Unused}
  BY Types DEF OrderlyInv, AllPointersUpdated
<1>2. DOMAIN open = 1 .. Len(open) BY Types
<1>3. \A u \in Upvalues : loc[u] \in Slots =>
                 loc[u] < top /\ u \in ToSet(open) /\ \E k \in 1 .. Len(open) : open[k] = u
  BY <1>2 DEF OrderlyInv, EveryOpenUpvalueListed, NoOpenUpvalueAboveTop, IsOpen, ToSet
<1>4. \A k \in 1 .. Len(open) : open[k] \in Upvalues /\ loc[open[k]] \in Slots
  <2> TAKE k \in 1 .. Len(open)
  <2>1. open[k] \in Upvalues BY Types
  <2>2. loc[open[k]] \in Slots \cup {Dangling} BY DEF StackInv, ListIsOpen
  <2> QED BY <1>1, <2>1, <2>2 DEF StackConstants
<1>5. \A moved \in BOOLEAN : Relocated(moved) = loc
  BY <1>3, Types DEF Relocated, IsOpen
<1> QED BY <1>1, <1>3, <1>4, <1>5

\* What has to be shown of the next state, without the names of the properties.
LEMMA OrderlyNext ==
    ASSUME StackConstants, StackInv',
           \A u \in Upvalues : /\ loc'[u] # Dangling
                               /\ loc'[u] \in Slots =>
                                     loc'[u] < top' /\ \E k \in 1 .. Len(open') : open'[k] = u
    PROVE  OrderlyInv'
<1>1. open' \in Seq(Upvalues) BY DEF StackInv, TypeOK
<1>2. \A u \in Upvalues : loc'[u] \in Slots => u \in ToSet(open')
  BY <1>1 DEF ToSet
<1>3. EveryOpenUpvalueListed' BY <1>2 DEF EveryOpenUpvalueListed, IsOpen, Slots
<1>4. NoOpenUpvalueAboveTop' BY DEF NoOpenUpvalueAboveTop, IsOpen, Slots
<1>5. AllPointersUpdated' BY DEF AllPointersUpdated
<1> QED BY <1>3, <1>4, <1>5 DEF OrderlyInv

\* A step that leaves the list and what is below the variables' slots alone.
LEMMA SameList ==
    ASSUME StackConstants, StackInv, OrderlyInv, orderly, StackInv',
           UNCHANGED <<open, loc, closed>>,
           \A u \in Upvalues : loc[u] \in Slots => loc[u] < top',
           \A slot \in Slots : slot < top => memory'[slot] = memory[slot]
    PROVE  OrderlyInv' /\ VariablesKept
<1>1. OrderlyInv' BY OrderlyIs, OrderlyNext DEF StackConstants, Slots
<1>2. VariablesKept BY OrderlyIs DEF VariablesKept, Read, StackConstants, Slots
<1> QED BY <1>1, <1>2

\* close_upvalues in an orderly program: exactly the upvalues at and above the slot
\* are closed, since the list falls and leaves none out.
LEMMA ClosesFromSlot ==
    ASSUME StackConstants, StackInv, OrderlyInv, orderly, NEW slot \in Slots, NEW freed,
           NEW junk, CloseFrom(slot, freed, junk)
    PROVE  /\ \A u \in Upvalues :
                 IF loc[u] \in Slots /\ loc[u] >= slot
                 THEN loc'[u] = Closed /\ closed'[u] = memory[loc[u]]
                 ELSE loc'[u] = loc[u] /\ closed'[u] = closed[u]
           /\ \A u \in Upvalues : loc'[u] \in Slots => \E k \in 1 .. Len(open') : open'[k] = u
<1>1. PICK n \in 0 .. Len(open) : ClosesFront(n, slot, freed, junk) BY CloseIs
<1>2. /\ \A k \in 1 .. n : open[k] \in FromSlot(slot, freed)
      /\ n < Len(open) => open[n + 1] \notin FromSlot(slot, freed)
      /\ open' \in Seq(Upvalues) /\ Len(open') = Len(open) - n
      /\ \A i \in 1 .. Len(open') : open'[i] = open[n + i]
      /\ closed' = [u \in Upvalues |-> IF u \notin Passed(n) THEN closed[u]
                                       ELSE IF IsOpen(u) THEN memory[loc[u]] ELSE junk]
      /\ loc' = [u \in Upvalues |-> IF u \in Passed(n) THEN Closed ELSE loc[u]]
  BY <1>1 DEF ClosesFront, Passed
<1>3. Len(open) \in Nat /\ n \in Nat BY Types
<1>4. \A u \in Upvalues : u \in FromSlot(slot, freed) <=> loc[u] \in Slots /\ loc[u] >= slot
  BY OrderlyIs DEF FromSlot, InStack, Address, StackConstants, Slots
<1>5. ASSUME NEW k \in 1 .. Len(open), loc[open[k]] >= slot PROVE k \in 1 .. n
  <2>1. CASE k <= n BY <2>1, <1>3
  <2>2. CASE k > n
    <3>1. n + 1 \in 1 .. Len(open) /\ n < Len(open) BY <2>2, <1>3
    <3>2. /\ loc[open[n + 1]] \in Slots /\ loc[open[k]] \in Slots
          /\ open[n + 1] \in Upvalues
      BY <3>1, OrderlyIs
    <3>3. ~ (loc[open[n + 1]] >= slot) BY <1>2, <1>4, <3>1, <3>2
    <3>4. k = n + 1 \/ loc[open[n + 1]] > loc[open[k]]
      BY <1>3, <2>2, <3>1, <3>2 DEF StackInv, OpenListFalls, IsOpen
    <3> QED BY <1>5, <3>2, <3>3, <3>4 DEF Slots
  <2> QED BY <2>1, <2>2, <1>3
<1>6. \A u \in Upvalues : u \in Passed(n) <=> loc[u] \in Slots /\ loc[u] >= slot
  <2> TAKE u \in Upvalues
  <2>1. u \in Passed(n) => u \in FromSlot(slot, freed) BY <1>2 DEF Passed
  <2>2. ASSUME loc[u] \in Slots, loc[u] >= slot PROVE u \in Passed(n)
    <3>1. PICK k \in 1 .. Len(open) : open[k] = u BY <2>2, OrderlyIs
    <3>2. k \in 1 .. n BY <1>5, <2>2, <3>1
    <3> QED BY <3>1, <3>2 DEF Passed
  <2> QED BY <1>4, <2>1, <2>2
<1>7. ASSUME NEW u \in Upvalues, loc'[u] \in Slots
      PROVE  \E k \in 1 .. Len(open') : open'[k] = u
  <2>1. u \notin Passed(n) /\ loc[u] \in Slots BY <1>2, <1>7 DEF StackConstants, Slots
  <2>2. PICK k \in 1 .. Len(open) : open[k] = u BY <2>1, OrderlyIs
  <2>3. ~ (k \in 1 .. n) BY <2>1, <2>2 DEF Passed
  <2>4. k - n \in 1 .. Len(open') /\ n + (k - n) = k BY <1>2, <1>3, <2>3
  <2> QED BY <1>2, <2>2, <2>4
<1> QED BY <1>2, <1>6, <1>7, Types DEF IsOpen

\* An open upvalue stays below the top when the stack grows.
LEMMA BelowTop ==
    ASSUME StackConstants, StackInv, OrderlyInv, orderly, NEW u \in Upvalues, loc[u] \in Slots
    PROVE  loc[u] \in Int /\ top \in Int /\ loc[u] < top /\ loc[u] < top + 1
<1>1. loc[u] < top BY OrderlyIs
<1>2. loc[u] \in Int /\ top \in Int BY Types DEF Slots
<1> QED BY <1>1, <1>2

\* A step keeps a value at each live slot and no pointer changes.
LEMMA PushOrderly ==
    ASSUME StackConstants, StackInv, OrderlyInv, orderly, StackInv', NEW v \in Values,
           NEW moved \in BOOLEAN, Push(v, moved)
    PROVE  OrderlyInv' /\ VariablesKept
<1>1. /\ top' = top + 1 /\ memory' = [memory EXCEPT ![top] = v] /\ loc' = loc
      /\ UNCHANGED <<open, closed>>
  BY OrderlyIs DEF Push, MakeRoom
<1>2. \A u \in Upvalues : loc[u] \in Slots => loc[u] < top' BY <1>1, BelowTop
<1>3. \A slot \in Slots : slot < top => memory'[slot] = memory[slot]
  BY <1>1, Types DEF Slots
<1> QED BY <1>1, <1>2, <1>3, SameList

LEMMA MakeClosureOrderly ==
    ASSUME StackConstants, StackInv, OrderlyInv, orderly, StackInv', NEW v \in Values,
           NEW moved \in BOOLEAN, NEW slots, MakeClosure(v, slots, moved)
    PROVE  OrderlyInv' /\ VariablesKept
<1>1. /\ top' = top + 1 /\ memory' = [memory EXCEPT ![top] = v] /\ loc' = loc
      /\ UNCHANGED <<open, closed>>
  BY OrderlyIs DEF MakeClosure, MakeRoom
<1>2. \A u \in Upvalues : loc[u] \in Slots => loc[u] < top' BY <1>1, BelowTop
<1>3. \A slot \in Slots : slot < top => memory'[slot] = memory[slot]
  BY <1>1, Types DEF Slots
<1> QED BY <1>1, <1>2, <1>3, SameList

LEMMA ShrinkOrderly ==
    ASSUME StackConstants, StackInv, OrderlyInv, orderly, StackInv',
           NEW moved \in BOOLEAN, Shrink(moved)
    PROVE  OrderlyInv' /\ VariablesKept
<1>1. loc' = loc /\ UNCHANGED <<memory, top, open, closed>> BY OrderlyIs DEF Shrink
<1> QED BY <1>1, OrderlyIs, SameList

LEMMA CallOrderly ==
    ASSUME StackConstants, StackInv, OrderlyInv, orderly, StackInv', NEW argc, Call(argc)
    PROVE  OrderlyInv' /\ VariablesKept
<1>1. UNCHANGED <<loc, memory, top, open, closed>> BY DEF Call
<1> QED BY <1>1, OrderlyIs, SameList

\* No variable that a jump leaves has an open upvalue.
LEMMA JumpOrderly ==
    ASSUME StackConstants, StackInv, OrderlyInv, orderly, StackInv', NEW depth, NEW height,
           Jump(depth, height), LeavesNoneOpen
    PROVE  OrderlyInv' /\ VariablesKept
<1>1. UNCHANGED <<loc, memory, open, closed>> BY DEF Jump
<1>2. \A u \in Upvalues : loc[u] \in Slots => loc[u] < top'
  BY OrderlyIs DEF LeavesNoneOpen
<1> QED BY <1>1, <1>2, SameList

\* An assignment changes what closures read, and no pointer.
LEMMA WriteOrderly ==
    ASSUME StackConstants, StackInv, OrderlyInv, orderly, StackInv', Write
    PROVE  OrderlyInv'
<1>1. UNCHANGED <<loc, top, open>>
  BY DEF Write, SetLocal, SetUpvalue
<1>2. \A u \in Upvalues : loc[u] # Dangling BY OrderlyIs DEF StackConstants, Slots
<1>3. \A u \in Upvalues : loc'[u] # Dangling BY <1>1, <1>2
<1>4. \A u \in Upvalues : loc'[u] \in Slots =>
                             loc'[u] < top' /\ \E k \in 1 .. Len(open') : open'[k] = u
  BY <1>1, OrderlyIs
<1> QED BY <1>3, <1>4, OrderlyNext

\* A capture that goes downward puts its upvalue at the end of the list, and one that
\* is steady took its slot's address from the block in use.
LEMMA CaptureOrderly ==
    ASSUME StackConstants, StackInv, OrderlyInv, orderly, StackInv', NEW u \in Upvalues,
           NEW freed, NEW shrunk \in BOOLEAN, NEW moved \in BOOLEAN,
           Capture(u, freed, shrunk, moved), CapturesDownward, CaptureIsSteady
    PROVE  OrderlyInv' /\ VariablesKept
<1> DEFINE slot  == Head(capturing)
           above == PrefixLength(open, HigherThan(slot, freed))
           found == above < Len(open) /\ loc[open[above + 1]] = slot
<1>0. capturing # <<>> /\ (shrunk => Oversized) /\ (moved => shrunk)
  BY DEF Capture
<1>1. /\ UNCHANGED <<memory, top, closed>>
      /\ IF found
         THEN ~shrunk /\ u = open[above + 1] /\ UNCHANGED <<open, loc, capacity>>
         ELSE /\ loc[u] = Unused
              /\ loc' = [Relocated(moved) EXCEPT ![u] = IF moved THEN Dangling ELSE slot]
              /\ open' = Append(SubSeq(open, 1, above), u)
              /\ capacity' = IF shrunk THEN capacity \div 2 ELSE capacity
  BY DEF Capture
<1>2. slot = capturing[1] /\ slot \in Slots /\ slot < top
  <2>1. /\ capturing \in Seq(Slots) /\ Len(capturing) \in Nat /\ 1 \in 1 .. Len(capturing)
        /\ slot = capturing[1]
    BY <1>0, Types
  <2> QED BY <2>1 DEF StackInv, CapturesLive
<1>3. \A k \in 1 .. Len(open) : loc[open[k]] >= slot BY <1>0 DEF CapturesDownward
<1>4. HigherThan(slot, freed) \in SUBSET Upvalues BY DEF HigherThan, InStack
<1>5. /\ above \in 0 .. Len(open)
      /\ above < Len(open) => open[above + 1] \notin HigherThan(slot, freed)
  BY <1>4, WalkStops, Types
<1>6. ~found => above = Len(open)
  <2>1. ASSUME above < Len(open) PROVE loc[open[above + 1]] = slot
    <3>1. above + 1 \in 1 .. Len(open) BY <1>5, <2>1, Types
    <3>2. open[above + 1] \in Upvalues /\ loc[open[above + 1]] \in Slots BY <3>1, OrderlyIs
    <3>3. ~ (loc[open[above + 1]] > slot)
      BY <1>5, <2>1, <3>2 DEF HigherThan, InStack, Address, StackConstants, Slots
    <3>4. loc[open[above + 1]] >= slot BY <1>3, <3>1
    <3> HIDE DEF slot, above
    <3> QED BY <1>2, <3>2, <3>3, <3>4 DEF Slots
  <2> QED BY <1>5, <2>1, Types
<1>7. CASE found
  <2>1. UNCHANGED <<open, loc, closed, memory, top>> BY <1>1, <1>7
  <2> QED BY <2>1, OrderlyIs, SameList
<1>8. CASE ~found
  <2>1. ~shrunk /\ ~moved
    <3>1. capacity' = (IF shrunk THEN capacity \div 2 ELSE capacity) BY <1>1, <1>8
    <3>2. capacity' = capacity BY <1>0 DEF CaptureIsSteady
    <3>3. shrunk => capacity >= 2 BY <1>0, Types DEF Oversized
    <3>4. capacity \in Nat BY Types
    <3> QED BY <1>0, <3>1, <3>2, <3>3, <3>4
  <2>2. /\ loc[u] = Unused /\ loc' = [loc EXCEPT ![u] = slot]
        /\ open' = Append(SubSeq(open, 1, Len(open)), u)
    BY <1>1, <1>6, <1>8, <2>1, OrderlyIs
  <2>3. Len(open') = Len(open) + 1 /\ open'[Len(open) + 1] = u
        /\ \A k \in 1 .. Len(open) : open'[k] = open[k]
    BY <2>2, Types
  <2> HIDE DEF slot, above, found
  <2>4. \A w \in Upvalues : w # u => loc'[w] = loc[w] BY <2>2, Types
  <2>5. loc'[u] = slot BY <2>2, Types
  <2>6. ASSUME NEW w \in Upvalues
        PROVE  /\ loc'[w] # Dangling
               /\ loc'[w] \in Slots =>
                     loc'[w] < top' /\ \E k \in 1 .. Len(open') : open'[k] = w
    <3>1. CASE w = u
      <4>1. Len(open) + 1 \in 1 .. Len(open') BY <2>3, Types
      <4> QED BY <1>1, <1>2, <2>3, <2>5, <3>1, <4>1 DEF StackConstants, Slots
    <3>2. CASE w # u
      <4>1. loc'[w] = loc[w] /\ loc[w] # Dangling BY <2>4, <3>2, OrderlyIs DEF StackConstants, Slots
      <4>2. ASSUME loc[w] \in Slots PROVE loc[w] < top /\ \E k \in 1 .. Len(open') : open'[k] = w
        <5>1. PICK k \in 1 .. Len(open) : open[k] = w BY <4>2, OrderlyIs
        <5>2. k \in 1 .. Len(open') /\ open'[k] = w BY <2>3, <5>1, Types
        <5> QED BY <4>2, <5>2, OrderlyIs
      <4> QED BY <1>1, <4>1, <4>2
    <3> QED BY <3>1, <3>2
  <2>7. OrderlyInv' BY <2>6, OrderlyNext
  <2>8. VariablesKept BY <1>1, <2>2, <2>4 DEF VariablesKept, Read
  <2> QED BY <2>7, <2>8
<1> QED BY <1>7, <1>8

\* The end of a block closes its variable if some closure names it.
LEMMA EndScopeOrderly ==
    ASSUME StackConstants, StackInv, OrderlyInv, orderly, StackInv', NEW named \in BOOLEAN,
           NEW freed, NEW junk, EndScope(named, freed, junk)
    PROVE  OrderlyInv' /\ VariablesKept
<1>0. top > Base + 1 /\ (Captured(top - 1) => named)
  BY DEF EndScope
<1>1. /\ top' = top - 1 /\ UNCHANGED memory
      /\ IF named THEN CloseFrom(top - 1, freed, junk) ELSE UNCHANGED <<open, closed, loc>>
  BY DEF EndScope
<1>2. top - 1 \in Slots BY Types DEF Slots
<1>3. CASE named
  <2>1. CloseFrom(top - 1, freed, junk) BY <1>1, <1>3
  <2>2. /\ \A u \in Upvalues :
              IF loc[u] \in Slots /\ loc[u] >= top - 1
              THEN loc'[u] = Closed /\ closed'[u] = memory[loc[u]]
              ELSE loc'[u] = loc[u] /\ closed'[u] = closed[u]
        /\ \A u \in Upvalues : loc'[u] \in Slots => \E k \in 1 .. Len(open') : open'[k] = u
    BY <1>2, <2>1, ClosesFromSlot
  <2>3. ASSUME NEW u \in Upvalues
        PROVE  loc'[u] # Dangling /\ (loc'[u] \in Slots => loc'[u] < top')
    <3>1. CASE loc[u] \in Slots /\ loc[u] >= top - 1
      BY <2>2, <3>1 DEF StackConstants, Slots
    <3>2. CASE loc[u] \in Slots /\ ~ (loc[u] >= top - 1)
      <4>1. loc'[u] = loc[u] BY <2>2, <3>2
      <4>2. loc[u] \in Int /\ top \in Int BY <3>2, BelowTop
      <4>3. loc[u] < top' BY <1>1, <3>2, <4>2
      <4> QED BY <3>2, <4>1, <4>3 DEF StackConstants, Slots
    <3>3. CASE loc[u] \notin Slots
      BY <2>2, <3>3, OrderlyIs DEF StackConstants
    <3> QED BY <3>1, <3>2, <3>3
  <2>4. OrderlyInv' BY <2>2, <2>3, OrderlyNext
  <2>5. ASSUME NEW u \in Upvalues, loc[u] # Unused PROVE Read(u)' = Read(u)
    <3>1. CASE loc[u] \in Slots /\ loc[u] >= top - 1
      BY <2>2, <3>1 DEF Read, StackConstants, Slots
    <3>2. CASE ~ (loc[u] \in Slots /\ loc[u] >= top - 1)
      BY <1>1, <2>2, <3>2 DEF Read
    <3> QED BY <3>1, <3>2
  <2> QED BY <2>4, <2>5 DEF VariablesKept
<1>4. CASE ~named
  <2>1. UNCHANGED <<open, closed, loc, memory>> /\ ~ Captured(top - 1)
    BY <1>0, <1>1, <1>4
  <2>2. ASSUME NEW u \in Upvalues, loc[u] \in Slots PROVE loc[u] < top'
    <3>1. loc[u] # top - 1 BY <2>1 DEF Captured
    <3> QED BY <1>1, <2>2, <3>1, BelowTop
  <2> QED BY <2>1, <2>2, SameList
<1> QED BY <1>3, <1>4

\* A return closes the variables of its frame before their slots are reused.
LEMMA ReturnOrderly ==
    ASSUME StackConstants, StackInv, OrderlyInv, orderly, StackInv', NEW freed, NEW junk,
           Return(freed, junk)
    PROVE  OrderlyInv' /\ VariablesKept
<1>1. /\ top > Base + 1 /\ top' = Base + 1 /\ memory' = [memory EXCEPT ![Base] = memory[top - 1]]
      /\ CloseFrom(Base, freed, junk)
  BY DEF Return
<1>2. Base \in Slots BY Types
<1>3. /\ \A u \in Upvalues :
            IF loc[u] \in Slots /\ loc[u] >= Base
            THEN loc'[u] = Closed /\ closed'[u] = memory[loc[u]]
            ELSE loc'[u] = loc[u] /\ closed'[u] = closed[u]
      /\ \A u \in Upvalues : loc'[u] \in Slots => \E k \in 1 .. Len(open') : open'[k] = u
  BY <1>1, <1>2, ClosesFromSlot
<1>4. \A u \in Upvalues : loc'[u] # Dangling /\ (loc'[u] \in Slots => loc'[u] < top')
  BY <1>1, <1>2, <1>3, OrderlyIs DEF StackConstants, Slots
<1>5. OrderlyInv' BY <1>3, <1>4, OrderlyNext
<1>6. \A slot \in Slots : slot < Base => memory'[slot] = memory[slot]
  BY <1>1, <1>2, Types DEF Slots
<1>7. VariablesKept
  BY <1>3, <1>6, <1>2, OrderlyIs DEF VariablesKept, Read, StackConstants, Slots
<1> QED BY <1>5, <1>7

\* Each disjunct of Next, from a state of an orderly program to one.
LEMMA NextOrderly ==
    ASSUME StackConstants, StackInv, OrderlyInv, [Next]_vars, orderly'
    PROVE  OrderlyInv' /\ (Write \/ VariablesKept)
<1>0. StackInv' BY NextStack
<1>1. CASE /\ Write \/ Control
           /\ orderly' = (orderly /\ CapturesDownward /\ CaptureIsSteady)
  <2>0. orderly /\ CapturesDownward /\ CaptureIsSteady BY <1>1
  <2>1. ASSUME NEW v \in Values, NEW moved \in BOOLEAN, Push(v, moved)
        PROVE  OrderlyInv' /\ VariablesKept
    BY <1>0, <2>0, <2>1, PushOrderly
  <2>2. ASSUME NEW v \in Values, NEW moved \in BOOLEAN, NEW slots \in CaptureLists,
               MakeClosure(v, slots, moved)
        PROVE  OrderlyInv' /\ VariablesKept
    BY <1>0, <2>0, <2>2, MakeClosureOrderly
  <2>3. ASSUME NEW moved \in BOOLEAN, Shrink(moved) PROVE OrderlyInv' /\ VariablesKept
    BY <1>0, <2>0, <2>3, ShrinkOrderly
  <2>4. ASSUME NEW moved \in BOOLEAN, NEW u \in Upvalues, NEW freed \in Freed,
               NEW shrunk \in BOOLEAN, Capture(u, freed, shrunk, moved)
        PROVE  OrderlyInv' /\ VariablesKept
    BY <1>0, <2>0, <2>4, CaptureOrderly
  <2>5. ASSUME NEW freed \in Freed, NEW v \in Values, NEW named \in BOOLEAN,
               EndScope(named, freed, v)
        PROVE  OrderlyInv' /\ VariablesKept
    BY <1>0, <2>0, <2>5, EndScopeOrderly
  <2>6. ASSUME NEW freed \in Freed, NEW v \in Values, Return(freed, v)
        PROVE  OrderlyInv' /\ VariablesKept
    BY <1>0, <2>0, <2>6, ReturnOrderly
  <2>7. ASSUME NEW argc \in 0 .. 1, Call(argc) PROVE OrderlyInv' /\ VariablesKept
    BY <1>0, <2>0, <2>7, CallOrderly
  <2>8. Control => OrderlyInv' /\ VariablesKept
    BY <2>1, <2>2, <2>3, <2>4, <2>5, <2>6, <2>7 DEF Control
  <2>9. Write => OrderlyInv' BY <1>0, <2>0, WriteOrderly
  <2> QED BY <1>1, <2>8, <2>9
<1>2. CASE Jumps /\ orderly' = (orderly /\ LeavesNoneOpen)
  <2>1. orderly /\ LeavesNoneOpen BY <1>2
  <2> QED BY <1>0, <1>2, <2>1, JumpOrderly DEF Jumps
<1>3. CASE UNCHANGED vars
  <2>1. /\ UNCHANGED <<open, loc, closed, memory, top>> /\ orderly
    BY <1>3 DEF vars
  <2>2. \A u \in Upvalues : loc[u] \in Slots => loc[u] < top' BY <2>1, OrderlyIs
  <2>3. \A slot \in Slots : slot < top => memory'[slot] = memory[slot] BY <2>1
  <2> QED BY <1>0, <2>1, <2>2, <2>3, SameList
<1> QED BY <1>1, <1>2, <1>3 DEF Next
-----------------------------------------------------------------------------
(* The theorems. *)

\* What holds of the stack in every program: types, the falling list, nested frames,
\* and the two facts they rest on.
THEOREM StackSafe == ASSUME StackConstants PROVE Spec => []StackInv
<1>1. Init => StackInv BY InitStack
<1>2. StackInv /\ [Next]_vars => StackInv' BY NextStack
<1> QED BY <1>1, <1>2, PTL DEF Spec

\* The types, and the limit of FRAMES_MAX on the call frames (vm.c:320).
THEOREM TypesKept == ASSUME StackConstants PROVE Spec => []TypeOK
<1>1. StackInv => TypeOK BY DEF StackInv
<1> QED BY <1>1, StackSafe, PTL

\* capture_upvalue and close_upvalues stop their walks at the right place in every
\* program: the open list falls strictly (vm.c:458, 480).
THEOREM ListFalls == ASSUME StackConstants PROVE Spec => []OpenListFalls
<1>1. StackInv => OpenListFalls BY DEF StackInv
<1> QED BY <1>1, StackSafe, PTL

\* Every frame starts in the live stack, above the frames of its callers (vm.c:316).
THEOREM FramesAreNested == ASSUME StackConstants PROVE Spec => []FramesNest
<1>1. StackInv => FramesNest BY DEF StackInv
<1> QED BY <1>1, StackSafe, PTL

\* The open list of an orderly program is complete: what points into the stack is on
\* it, points at a live variable, and follows the stack when it moves.
THEOREM OrderlySafe == ASSUME StackConstants PROVE Spec => [](StackInv /\ OrderlyInv)
<1>1. Init => StackInv /\ OrderlyInv
  <2>1. Init => OrderlyInv
    BY DEF Init, OrderlyInv, EveryOpenUpvalueListed, NoOpenUpvalueAboveTop,
           AllPointersUpdated, IsOpen, StackConstants, Slots
  <2> QED BY <2>1, InitStack
<1>2. StackInv /\ OrderlyInv /\ [Next]_vars => StackInv' /\ OrderlyInv'
  <2> SUFFICES ASSUME StackInv, OrderlyInv, [Next]_vars PROVE StackInv' /\ OrderlyInv'
    OBVIOUS
  <2>1. StackInv' BY NextStack
  <2>2. CASE orderly' BY <2>1, <2>2, NextOrderly
  <2>3. CASE ~orderly'
    <3>1. EveryOpenUpvalueListed' BY <2>3 DEF EveryOpenUpvalueListed
    <3>2. NoOpenUpvalueAboveTop' BY <2>3 DEF NoOpenUpvalueAboveTop
    <3>3. AllPointersUpdated' BY <2>3 DEF AllPointersUpdated
    <3> QED BY <2>1, <3>1, <3>2, <3>3 DEF OrderlyInv
  <2> QED BY <2>1, <2>2, <2>3
<1> QED BY <1>1, <1>2, PTL DEF Spec

\* Every upvalue of an orderly program that points into the stack is on the open list, so
\* that close_upvalues (vm.c:478) and resize_stack (vm.c:196) reach it.
THEOREM AllListed == ASSUME StackConstants PROVE Spec => []EveryOpenUpvalueListed
<1>1. OrderlyInv => EveryOpenUpvalueListed BY DEF OrderlyInv
<1> QED BY <1>1, OrderlySafe, PTL

\* ... and points at a variable that is still there: no closure reads a slot that was
\* popped (vm.c:701, 857).
THEOREM NoneAboveTop == ASSUME StackConstants PROVE Spec => []NoOpenUpvalueAboveTop
<1>1. OrderlyInv => NoOpenUpvalueAboveTop BY DEF OrderlyInv
<1> QED BY <1>1, OrderlySafe, PTL

\* ... and none is left pointing into a block that realloc has freed (vm.c:204).
THEOREM NoneDangling == ASSUME StackConstants PROVE Spec => []AllPointersUpdated
<1>1. OrderlyInv => AllPointersUpdated BY DEF OrderlyInv
<1> QED BY <1>1, OrderlySafe, PTL

\* Closures that name one live variable share its upvalue (vm.c:464): the two would be
\* two entries of a list that falls strictly.
THEOREM Shared == ASSUME StackConstants PROVE Spec => []OneUpvaluePerVariable
<1>1. StackInv /\ OrderlyInv => OneUpvaluePerVariable
  <2> SUFFICES ASSUME StackInv, OrderlyInv, orderly, NEW u \in Upvalues, NEW w \in Upvalues,
                      loc[u] \in Slots, loc[u] = loc[w]
               PROVE  u = w
    BY DEF OneUpvaluePerVariable, IsOpen
  <2>1. PICK j \in 1 .. Len(open) : open[j] = u BY OrderlyIs
  <2>2. PICK k \in 1 .. Len(open) : open[k] = w BY OrderlyIs
  <2>3. ~ (j < k) /\ ~ (k < j)
    BY <2>1, <2>2 DEF StackInv, OpenListFalls, IsOpen, Slots
  <2> QED BY <2>1, <2>2, <2>3
<1> QED BY <1>1, OrderlySafe, PTL

\* Whatever an orderly program pushes, pops, calls, returns from, captures or moves,
\* a closure reads what was last written to its variable.
THEOREM VariablesSurvive == ASSUME StackConstants PROVE Spec => OnlyWritesChangeVariables
<1>1. StackInv /\ OrderlyInv /\ [Next]_vars
      => [orderly' /\ ~Write => \A u \in Upvalues : loc[u] # Unused => Read(u)' = Read(u)]_vars
  BY NextOrderly DEF VariablesKept
<1> QED BY <1>1, OrderlySafe, PTL DEF Spec, OnlyWritesChangeVariables
===============================================================================
