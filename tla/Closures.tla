------------------------------- MODULE Closures -------------------------------
(***************************************************************************)
(* The value stack, the call frames and the open upvalues of src/vm.c: how *)
(* a closure keeps hold of a local variable while its slot is on the       *)
(* stack, when the slot is popped, and when the stack itself is moved.     *)
(*                                                                         *)
(* Slots are numbered from 0. An upvalue's location is a slot while it is  *)
(* open, Closed once it points at its own copy, and Dangling when it still *)
(* points into a stack block that realloc has freed. What is compared with *)
(* or read through a dangling pointer is not determined by the code.       *)
(***************************************************************************)
EXTENDS Integers, Sequences, SequencesExt

CONSTANTS Upvalues,            \* the upvalue objects
          Values,
          Closed, Dangling, Unused,
          StackInitial,        \* STACK_INITIAL, 64 in the code
          MaxStack,            \* bound on the stack's length
          MaxFrames            \* FRAMES_MAX, 1024 in the code

ASSUME StackConstants ==
    /\ {StackInitial, MaxStack, MaxFrames} \subseteq Nat \ {0}
    /\ Values # {}
    /\ Closed \notin Int /\ Dangling \notin Int /\ Unused \notin Int \cup Upvalues
    /\ Closed # Dangling /\ Closed # Unused /\ Dangling # Unused

VARIABLES memory,   \* the stack block, the slots above the top included
          top,      \* STACK_LEN
          capacity, \* stack_capacity
          frames,   \* the first slot of each call frame, the last one active
          open,     \* the open_upvalues list, head first
          loc,      \* each upvalue's location
          closed,   \* its closed field
          capturing, \* slots the running OP_CLOSURE has still to capture
          orderly   \* history: every step so far was orderly

vars == <<memory, top, capacity, frames, open, loc, closed, capturing, orderly>>
-----------------------------------------------------------------------------
Slots    == 0 .. MaxStack - 1
Base     == Last(frames)
Locals   == Base .. top - 1
Freed    == {-1, MaxStack}      \* where a freed block lies: below or above the stack

IsOpen(u) == loc[u] \in Slots

\* What a closure reads through the upvalue.
Read(u) == IF loc[u] = Closed THEN closed[u] ELSE memory[loc[u]]

Address(u, freed) == IF loc[u] = Dangling THEN freed ELSE loc[u]

\* How many upvalues at the front of the list are among those given.
PrefixLength(s, us) == SelectInSeq(s \o <<Unused>>, LAMBDA u : u \notin us) - 1

InStack == {u \in Upvalues : loc[u] \in Slots \cup {Dangling}}
HigherThan(slot, freed) == {u \in InStack : Address(u, freed) > slot}
FromSlot(slot, freed)   == {u \in InStack : Address(u, freed) >= slot}

Init == /\ memory = [s \in Slots |-> CHOOSE v \in Values : TRUE]
        /\ top = 1 /\ capacity = StackInitial
        /\ frames = <<0>>
        /\ open = <<>> /\ capturing = <<>>
        /\ loc = [u \in Upvalues |-> Unused]
        /\ closed = [u \in Upvalues |-> CHOOSE v \in Values : TRUE]
        /\ orderly = TRUE

\* Fault: the upvalues are not told that the block has moved.
Relocated_None(moved) ==
    [u \in Upvalues |-> IF moved /\ IsOpen(u) THEN Dangling ELSE loc[u]]

\* resize_stack when realloc moves the block: the upvalues of the open list are
\* given their slot in the new one; another pointer into the old block is stale.
Relocated(moved) ==
    [u \in Upvalues |-> IF moved /\ IsOpen(u) /\ u \notin ToSet(open)
                        THEN Dangling ELSE loc[u]]

\* push grows a full stack first; nothing can move when it does not.
MakeRoom(moved) ==
    /\ top < MaxStack
    /\ moved => top >= capacity
    /\ capacity' = IF top >= capacity THEN 2 * capacity ELSE capacity
    /\ loc' = Relocated(moved)

Running == capturing = <<>>

\* Any instruction that pushes a value: a declaration, an operand, an argument.
Push(v, moved) ==
    /\ Running
    /\ MakeRoom(moved)
    /\ memory' = [memory EXCEPT ![top] = v] /\ top' = top + 1
    /\ UNCHANGED <<frames, open, closed, capturing>>

\* OP_CLOSURE pushes the closure, then captures locals of the active frame.
MakeClosure(v, slots, moved) ==
    /\ Running
    /\ MakeRoom(moved)
    /\ memory' = [memory EXCEPT ![top] = v] /\ top' = top + 1
    /\ capturing' = slots
    /\ UNCHANGED <<frames, open, closed>>

\* collect_garbage halves an oversized stack once it has swept the heap.
Oversized == capacity >= 2 * StackInitial /\ 4 * top < capacity

Shrink(moved) ==
    /\ Running /\ Oversized
    /\ capacity' = capacity \div 2
    /\ loc' = Relocated(moved)
    /\ UNCHANGED <<memory, top, frames, open, closed, capturing>>

\* Faults: the new upvalue goes to the head of the list; it is not linked; a
\* second upvalue is made for a variable that has one.
Capture_AtHead(u, freed, shrunk, moved) ==
    /\ capturing # <<>> /\ loc[u] = Unused /\ ~shrunk /\ ~moved
    /\ capturing' = Tail(capturing)
    /\ loc' = [loc EXCEPT ![u] = Head(capturing)]
    /\ open' = <<u>> \o open
    /\ UNCHANGED <<memory, top, capacity, frames, closed>>

Capture_NotLinked(u, freed, shrunk, moved) ==
    /\ capturing # <<>> /\ loc[u] = Unused /\ ~shrunk /\ ~moved
    /\ capturing' = Tail(capturing)
    /\ loc' = [loc EXCEPT ![u] = Head(capturing)]
    /\ UNCHANGED <<memory, top, capacity, frames, open, closed>>

Capture_NotShared(u, freed, shrunk, moved) ==
    /\ capturing # <<>> /\ loc[u] = Unused /\ ~shrunk /\ ~moved
    /\ capturing' = Tail(capturing)
    /\ loc' = [loc EXCEPT ![u] = Head(capturing)]
    /\ LET above == PrefixLength(open, HigherThan(Head(capturing), freed))
       IN  open' = Append(SubSeq(open, 1, above), u) \o SubSeq(open, above + 1, Len(open))
    /\ UNCHANGED <<memory, top, capacity, frames, closed>>

\* capture_upvalue: walk the list to the slot, and share the upvalue found there
\* or put a new one in its place. The new one does not point to the rest of
\* the list, which is lost. Allocating it may collect garbage and shrink the
\* stack after the slot's address was taken.
Capture(u, freed, shrunk, moved) ==
    /\ capturing # <<>>
    /\ shrunk => Oversized
    /\ moved => shrunk
    /\ capturing' = Tail(capturing)
    /\ LET slot  == Head(capturing)
           above == PrefixLength(open, HigherThan(slot, freed))
           found == above < Len(open) /\ loc[open[above + 1]] = slot
       IN  IF found
           THEN ~shrunk /\ u = open[above + 1] /\ UNCHANGED <<open, loc, capacity>>
           ELSE /\ loc[u] = Unused
                /\ loc' = [Relocated(moved) EXCEPT ![u] = IF moved THEN Dangling ELSE slot]
                /\ open' = Append(SubSeq(open, 1, above), u)
                /\ capacity' = IF shrunk THEN capacity \div 2 ELSE capacity
    /\ UNCHANGED <<memory, top, frames, closed>>

\* Faults: the upvalue of the slot itself stays open; the value is not copied.
CloseFrom_Above(slot, freed, junk) ==
    LET n    == PrefixLength(open, HigherThan(slot, freed))
        gone == ToSet(SubSeq(open, 1, n))
    IN  /\ open' = SubSeq(open, n + 1, Len(open))
        /\ closed' = [u \in Upvalues |-> IF u \notin gone THEN closed[u]
                                         ELSE IF IsOpen(u) THEN memory[loc[u]] ELSE junk]
        /\ loc' = [u \in Upvalues |-> IF u \in gone THEN Closed ELSE loc[u]]

CloseFrom_NoCopy(slot, freed, junk) ==
    LET n == PrefixLength(open, FromSlot(slot, freed))
    IN  /\ open' = SubSeq(open, n + 1, Len(open))
        /\ loc' = [u \in Upvalues |-> IF u \in ToSet(SubSeq(open, 1, n)) THEN Closed ELSE loc[u]]
        /\ UNCHANGED closed

\* close_upvalues: from the head, while the location is at or above the slot.
CloseFrom(slot, freed, junk) ==
    LET n    == PrefixLength(open, FromSlot(slot, freed))
        gone == ToSet(SubSeq(open, 1, n))
    IN  /\ open' = SubSeq(open, n + 1, Len(open))
        /\ closed' = [u \in Upvalues |-> IF u \notin gone THEN closed[u]
                                         ELSE IF IsOpen(u) THEN memory[loc[u]] ELSE junk]
        /\ loc' = [u \in Upvalues |-> IF u \in gone THEN Closed ELSE loc[u]]

\* The end of a block, for each of its locals: OP_CLOSE_UPVALUE for a variable
\* that some closure in its scope names, OP_POP for another.
Captured(slot) == \E u \in Upvalues : loc[u] = slot

EndScope(named, freed, junk) ==
    /\ Running
    /\ top > Base + 1
    /\ Captured(top - 1) => named
    /\ IF named THEN CloseFrom(top - 1, freed, junk) ELSE UNCHANGED <<open, closed, loc>>
    /\ top' = top - 1
    /\ UNCHANGED <<memory, capacity, frames, capturing>>

\* exit_loop_scope (break, continue) and raise: slots of the frame, or whole
\* frames, are popped and no upvalue is closed.
Jump(depth, height) ==
    /\ Running
    /\ height > frames[depth] /\ height < top
    /\ frames' = SubSeq(frames, 1, depth)
    /\ top' = height
    /\ UNCHANGED <<memory, capacity, open, loc, closed, capturing>>

\* Faults: no test of FRAMES_MAX; the callee's slot left out of its frame.
Call_Unchecked(argc) ==
    /\ Running /\ top - argc - 1 > Base
    /\ frames' = Append(frames, top - argc - 1)
    /\ UNCHANGED <<memory, top, capacity, open, loc, closed, capturing>>

Call_WithoutCallee(argc) ==
    /\ Running /\ Len(frames) < MaxFrames /\ top - argc - 1 > Base
    /\ frames' = Append(frames, top - argc)
    /\ UNCHANGED <<memory, top, capacity, open, loc, closed, capturing>>

Call(argc) ==
    /\ Running
    /\ Len(frames) < MaxFrames /\ top - argc - 1 > Base
    /\ frames' = Append(frames, top - argc - 1)
    /\ UNCHANGED <<memory, top, capacity, open, loc, closed, capturing>>

\* OP_RETURN: pop the result, close the frame's upvalues, and put the result
\* where the callee was. (A return from the script's frame ends the run.)
Return(freed, junk) ==
    /\ Running
    /\ Len(frames) > 1 /\ top > Base + 1
    /\ CloseFrom(Base, freed, junk)
    /\ frames' = Front(frames)
    /\ memory' = [memory EXCEPT ![Base] = memory[top - 1]]
    /\ top' = Base + 1
    /\ UNCHANGED <<capacity, capturing>>

SetLocal(slot, v) ==
    /\ Running
    /\ memory' = [memory EXCEPT ![slot] = v]
    /\ UNCHANGED <<top, capacity, frames, open, loc, closed, capturing>>

\* OP_SET_UPVALUE writes through the location. (Into a freed block: no effect here.)
SetUpvalue(u, v) ==
    /\ Running
    /\ loc[u] \notin {Unused, Dangling}
    /\ memory' = IF IsOpen(u) THEN [memory EXCEPT ![loc[u]] = v] ELSE memory
    /\ closed' = IF IsOpen(u) THEN closed ELSE [closed EXCEPT ![u] = v]
    /\ UNCHANGED <<top, capacity, frames, open, loc, capturing>>

\* Distinct locals of the active frame, in the order the closure names them: at
\* most two here. A local function may name itself, whose slot is the next one.
CaptureLists == LET L == Base .. top
                IN  {<<>>} \cup {<<s>> : s \in L} \cup {t \in L \X L : t[1] # t[2]}

Write == \E v \in Values : \/ \E slot \in Locals : SetLocal(slot, v)
                           \/ \E u \in Upvalues : SetUpvalue(u, v)

Control == \/ \E v \in Values, moved \in BOOLEAN :
                 \/ Push(v, moved)
                 \/ \E slots \in CaptureLists : MakeClosure(v, slots, moved)
           \/ \E moved \in BOOLEAN :
                 \/ Shrink(moved)
                 \/ \E u \in Upvalues, freed \in Freed, shrunk \in BOOLEAN :
                       Capture(u, freed, shrunk, moved)
           \/ \E freed \in Freed, v \in Values :
                 \/ \E named \in BOOLEAN : EndScope(named, freed, v)
                 \/ Return(freed, v)
           \/ \E argc \in 0 .. 1 : Call(argc)

Jumps == \E d \in 1 .. Len(frames), h \in 1 .. MaxStack : Jump(d, h)

(***************************************************************************)
(* The machinery is right for a part of the programs, the orderly ones: a  *)
(* variable is captured only below the ones still open, no jump and no     *)
(* exception leaves the scope of an open one, and no collection inside     *)
(* capture_upvalue shrinks the stack.                                      *)
(***************************************************************************)
CapturesDownward == capturing # <<>> => \A k \in 1 .. Len(open) : loc[open[k]] >= Head(capturing)
CaptureIsSteady  == capturing # <<>> => capacity' = capacity
LeavesNoneOpen   == \A k \in 1 .. Len(open) : loc[open[k]] < top'

Next == \/ /\ Write \/ Control
           /\ orderly' = (orderly /\ CapturesDownward /\ CaptureIsSteady)
        \/ /\ Jumps
           /\ orderly' = (orderly /\ LeavesNoneOpen)

Spec == Init /\ [][Next]_vars

\* Captures in any order, and no jump.
AnyOrderNext == /\ Write \/ Control
                /\ CaptureIsSteady
                /\ orderly' = (orderly /\ CapturesDownward)
AnyOrderSpec == Init /\ [][AnyOrderNext]_vars
-----------------------------------------------------------------------------
\* Types, and the limit on the call frames (vm.c:320): a call never exceeds it.
TypeOK ==
    /\ memory \in [Slots -> Values] /\ top \in 1 .. MaxStack /\ capacity \in Nat
    /\ frames \in Seq(Slots) /\ Len(frames) \in 1 .. MaxFrames
    /\ loc \in [Upvalues -> Slots \cup {Closed, Dangling, Unused}]
    /\ closed \in [Upvalues -> Values]
    /\ open \in Seq(Upvalues) /\ capturing \in Seq(Slots)
    /\ orderly \in BOOLEAN

\* The walk of capture_upvalue (vm.c:458) and the loop of close_upvalues stop at
\* the first slot that is too low: the list must fall strictly from its head.
\* It does in every program, since what follows a new upvalue is dropped.
OpenListFalls ==
    \A j, k \in 1 .. Len(open) :
        j < k /\ IsOpen(open[j]) /\ IsOpen(open[k]) => loc[open[j]] > loc[open[k]]

\* A frame's slots, which resize_stack recomputes from slot_offset, lie inside
\* the live stack and above the callee slots of all its callers.
FramesNest ==
    /\ \A k \in 1 .. Len(frames) : frames[k] < top
    /\ \A j, k \in 1 .. Len(frames) : j < k => frames[j] < frames[k]

\* In an orderly program every upvalue that points into the stack is on the open
\* list, so that it is closed with its variable and relocated with the stack.
EveryOpenUpvalueListed ==
    orderly => \A u \in Upvalues : IsOpen(u) => u \in ToSet(open)

\* ... and points at a live variable.
NoOpenUpvalueAboveTop ==
    orderly => \A u \in Upvalues : IsOpen(u) => loc[u] < top

\* vm.c:204: when the stack moves, "we need to update all pointers to the stack
\* in upvalues and call frames".
AllPointersUpdated == orderly => \A u \in Upvalues : loc[u] # Dangling

\* Closures that name the same live variable share one upvalue.
OneUpvaluePerVariable ==
    orderly => \A u, w \in Upvalues : IsOpen(u) /\ loc[u] = loc[w] => u = w

\* Whatever is pushed, popped, called, returned from or moved, a closure goes on
\* reading what was last written to its variable: only a write changes it.
OnlyWritesChangeVariables ==
    [][orderly' /\ ~Write => \A u \in Upvalues : loc[u] # Unused => Read(u)' = Read(u)]_vars

\* test/functions/closure_closed.can:16: a call that overwrites the slots a
\* returned function's variables were in leaves the captured values alone.
\* (A step that pushes may write over a slot that was popped.)
CapturedSurviveOverwriting ==
    [][top' = top + 1 =>
          \A u \in Upvalues : loc[u] \notin {Unused, Dangling} /\ loc'[u] = loc[u] =>
              Read(u)' = Read(u)]_vars
===============================================================================
