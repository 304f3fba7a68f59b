# A TLA+ development of canidae

canidae is a small dynamic language: a scanner and a single-pass compiler to
bytecode, and a stack VM with closures, classes, arrays, exceptions, modules and
a mark-and-sweep collector, in C. This directory models the parts of it whose
state lives long and is changed from many places, checks them with TLC, and
proves with TLAPS what can be proved for every instance. Paths below are relative
to the repository; line numbers are those of the commit beside this directory.

## The system

One thread runs everything. What interleaves is: the instructions of a program
(any order the compiler can emit), the collector (inside any allocation), the
stack's reallocation (inside any push and any collection), exceptions (inside
any instruction that can fail), modules (code of another file in a frame of its
own) and, in the REPL, the next line on the VM the last one left.

| Component | State | Operations | Hard behaviour | What makes it correct |
|---|---|---|---|---|
| hash tables (`src/hashmap.c`) and interning (`src/object.c`) | count, capacity, entries with tombstones; the weak table `strings` | get, set, delete, copy all, find string, sweep | unbounded probe loops; tombstones that count and are reused; growth by rehashing with a collection in its allocation; a key deleted while its table grows | they are maps; one string object per text; probes stop |
| stack, frames, upvalues (`src/vm.c`) | the stack block, `stack_ptr`, frames with their first slot, the list `open_upvalues` | push, pop, call, return, capture, close, grow, shrink | pointers into a block that moves; a list that must be sorted and complete; jumps and exceptions that skip the closing | a closure goes on reading its variable |
| exceptions (`src/vm.c`, `src/compiler.c`) | `catch_stack`, `exception_stack` and its `next` chain, frame and stack height of each catcher | register, unregister, raise, mark handled | ways out of a try statement that skip the unregistering; errors in handlers; errors nobody catches in the REPL | the innermost live try statement that lists the type handles it |
| modules (`src/vm.c`, `src/compiler.c`) | `source_path`, module frames with the path they saved, export lists | import, build namespace | errors that leave a module; imports that fail | relative paths are those of the importer |
| compiler (`src/compiler.c`) | per function: locals with depths, upvalue list, loop stack with jumps to patch | declare, resolve, scopes, loops, try | captured locals, jumps out of nested scopes, byte-sized operands | emitted code keeps the stack as the compiler counts it |
| operand stack of `run` | the stack's height, `long_instruction` | every instruction | early ends of instructions on handled errors | every instruction's effect is the one the compiler assumes |
| collector and allocator (`src/memory.c`) | mark bits, grey stack, roots, `bytes_allocated`, `gc_allowed` | mark, trace, sweep, shrink | values only C locals hold | nothing reachable is freed |
| arrays (`src/object.c`, `src/stdlib_arrays.c`) | len, capacity, values | get, set, push, pop, concatenate | slots between len and capacity, popped and uninitialised; an index counted from an end that moves | an array is a sequence of live values |
| conversions, segments, standard library (`src/type_conversions.c`, `src/segment.c`, `src/stdlib_canidae.c`) | none across calls | what they allocate, hold and raise; the instructions | C variables as the only holders of objects | as for the collector |
| scanner, printing, disassembler | none across calls | | formatting and I/O | not modelled |

`PROJECT.json` lists each component with its sources and status, and every hazard
at its line with the properties that would catch it.

## Modules

| Module | Models |
|---|---|
| `KVStore` | what the hash tables promise: maps from strings to values, and a weak set of strings with one object per text |
| `Hashmap` | `hashmap.c`, interning, set-then-delete of an undefined global, and collections during growth; refines `KVStore` |
| `HashmapProofs` | theorems about `Hashmap`: types, counts, probes that stop |
| `HashmapMapProofs` | theorems about `Hashmap`: that its tables are maps, and refine `KVStore` |
| `HashmapMC` | small instances: texts that collide and wrap around; the power-of-two property |
| `Bytecode` | the effect of each instruction on the height of the stack, and the analysis of a function's code along every path |
| `Compiler` | the single-pass compiler: locals, scopes, upvalues, loops, try statements, functions, classes, exports and the code it emits |
| `CompilerMC` | seven families of sources |
| `CompilerProofs` | theorems about `Compiler`: scopes, and names that are found |
| `Collector` | collections inside any allocation of any instruction's C code, interning, and the objects that code holds |
| `CollectorProofs` | theorems about `Collector`: collections and the table of strings |
| `CollectorMC` | fourteen families of programs |
| `Closures` | the stack block, frames, open upvalues, growth and shrinking |
| `ClosuresProofs` | theorems about `Closures` |
| `ClosuresMC` | the symmetry of upvalue objects |
| `Exceptions` | try, catch, raise, the exception chain, imports and the REPL's next line |
| `ExceptionsProofs` | theorems about `Exceptions` |
| `ExceptionsMC` | two error types, two catch lists |
| `ArrayStore` | what a program expects of arrays: sequences, padded with null, and compound assignments that write what they read |
| `Arrays` | blocks, capacities, the slots behind the end, objects that are collected and addresses that are used again; refines `ArrayStore` |
| `ArraysProofs` | theorems about `Arrays` |
| `ArraysMC` | indices from both ends and with a fraction |
| `OrderLemmas` | least elements of sets of naturals, for the walks of all the models |

Operators called `X_Something` under a comment *Fault* are broken variants of the
definition after them; nothing uses them. Each property is shown to fail when a
variant takes the place of the definition (`mutants` in `PROJECT.json`).

### Hashmap

A table is a record of count, capacity and entries, as in `hashmap.h`; an entry
without key is `Empty` (null) or `Tombstone` (true), the test of
`hashmap.c:27`. `FindEntry` is the loop of `find_entry` in closed form: the probe
stops at the nearest slot that is empty or holds the key, and yields the first
tombstone before it unless the key was found. A call is atomic in the program, but
one that grows a table is several steps here, because its allocation may collect:
`EnterSet` (the load test), `Allocate` (which first deletes any set of collectable
strings from `strings`), one `Rehash` per old entry, `Install`, `Store`. `args.op`
names the caller, and `Store` does what that caller does with the answer: a
string is interned, a key is new, an assignment to an undefined global is undone.
`hashmap_copy_all` is one `CopyEntry` per entry, each with its own set. Whatever
is not a key of another table may be collected, whether or not the program still
refers to it, so every weaker set of roots is included; only the string being set,
which `allocate_string` and the other callers keep on the stack, is not. A sweep
is written as its effect on the slots: `hashmap_delete` finds exactly the slot of
the key, by `EveryKeyFound`.

### Closures

`memory` is the stack block with the slots above the top, since the code reads
them through upvalues that were not closed. An upvalue's location is a slot,
`Closed`, or `Dangling` after the block it points into was freed; what is compared
with a dangling pointer is then chosen freely (`Freed`: below or above every
slot), and what is read through it is any value. `OP_CLOSURE` is `MakeClosure`
followed by one `Capture` per local it names; upvalues it takes over from the
enclosing closure change nothing here. `EndScope` closes what the compiler knows to be captured.
`Jump` is the popping without closing that `break`, `continue` and `raise` do.

Three conditions make a program *orderly*: `CapturesDownward` (no capture below an upvalue
that is open), `LeavesNoneOpen` (no jump or exception leaves the scope of an open one) and
`CaptureIsSteady` (no shrinking of the stack inside `capture_upvalue` itself). The history
variable `orderly` is true as long as no step broke one of them. Types, the order
of the list and the nesting of frames are checked of every program; what closures read
is promised to orderly ones.

### Exceptions

A frame's instruction pointer is abstracted to the try statements around it
(`blocks`), each in its try or its catch part, with the height the stack had when
it was entered. A catcher is the record `OP_REGISTER_CATCH` makes: frame, height,
type list, and the catch address as the number of blocks around the statement.
`Raise` is the whole of `raise`: chain, walk and free the catchers, cut frames
and stack, bind the exception. A catcher that names no live try statement
(`IsLive`) sends the VM into code of another function; the model stops there, as
`derailed`. `LeaveTry` and `LeaveCatch` are the two ways to the end of a try
statement; `Return` and `LeaveLoop` leave it without unregistering.

`PathKept` is about `source_path`, which `OP_IMPORT` saves in the module's frame and
`OP_RETURN` restores: if it is the file of the running frame and every module frame has
saved its importer's, then so it is after the next step. One kind of step is excepted
by name, an exception that leaves a module (`LeavesModuleByError`): nothing restores the
path then (`vm.c:100`), and imports of the handler are resolved relative to the module.

### Bytecode and Compiler

A source is anything the grammar allows up to a number of statements: each action is
the part of a parsing function before its nested statements, and `parsing` is the stack
of the parser's C calls that wait for one, with the addresses they hold in C variables
(`jump`, `start`, `exit`, `out`). A compiler record has the locals with their depths, the upvalue
list, the loops with the jumps to patch, the exports and the code. Jumps hold
instruction indices, not byte offsets. `compilers` is the chain of enclosing compilers:
`Resolve` walks it outwards as `resolve_upvalue` does and adds upvalues on the way back. Expressions
are one operator deep, one of each kind that differs in code.

`scopes` is a ghost that knows the declarations in force as the *source* nests; every
access carries what its name denotes there (`means`). `NamesFound` compares that, at each step,
with what the operand finds through locals and upvalue lists, and at the end of a function
compares the descriptors of `OP_CLOSURE` with its upvalues. `Reached` runs a finished function's code
over all paths with the effects of `Bytecode`, including the entry of a handler from
anywhere in its try statement: `HeightsMeet` says each instruction has one height there and
that it is the compiler's number of locals at each statement, so that operands that are
slot numbers mean the variables the compiler thinks of.

What the instances leave out, because the code breaks there: reads of a missing property or
of a method, which leave their object on the stack (`Steady`); `??=` on a property or an
element, which leaves slots behind when it does not assign; an import as the bare branch of an if, which
declares a local on one path and counts it on both; closures over locals past the
255th, whose index is shifted left in `compiler.c:884` (`NearCaptures`); and the pops of
`break` and `continue` in `CapturedAreClosed`, which close nothing (`Leaving`). Each
of the first three violates `HeightsMeet` when it is allowed.

### Collector

The C code of an instruction is a list of steps, `todo`, each with the register it
assigns and those it reads; `local` holds the objects in C variables. A step that allocates may collect
first, whenever `gc_allowed` says so: the threshold of `reallocate` is left open, which
includes the build with `DEBUG_STRESS_GC`. A collection is `BeginCollection` (the roots), one
`Blacken` per grey object, and `Sweep` (the intern table, the objects, the stack's size).
Addresses are reused. A table that belongs to an object is the set of the objects in it.

`InUse` is what the program or the rest of the C code running can still reach: the VM's state, and the
registers that a later step reads before assigning them (`LiveLocals`). `InUseIsKept` is thus a
property of every place in the C code that allocates while it holds something.
`Fields` is what `object.h` declares, `MarkedFields` what `blacken_object` marks; that they agree is
not assumed. `CollectionIsExact` says the sweep keeps exactly what is reachable.

Programs differ in the instructions they use; each of the families takes a few that produce
and consume the same objects, so that together every instruction that allocates
runs in every state of its operands. `Roomy` programs have room on the stack when an instruction
disables collection; without it `resize_stack` turns collection on in the
middle (see Findings). Two more places are kept apart: `mod_string`, which `mark_roots` forgets, is not counted
as in use, and programs that build a namespace have `"module"` among their constants (`NamesItself`), since otherwise the
string of `vm.c:1008` may die in the allocation of the namespace.

### Arrays

`len`, `cap` and `slots` are the fields of `value_array`, one array per object; slots
nobody wrote hold `Junk`. `held` stands for every other reference (stack, variables,
tables), and `Collect` frees the objects that neither `held` nor an element below `len`
refers to; `NewObject` may get a freed address again, so that a pointer left behind
the end of an array comes to mean another object. An index is a double and is kept
in halves: it is counted from the end when negative, and its fraction is dropped.
`x[i] op= e` is two steps, `ArrayGetKeepRef` and `EndUpdate`, with anything in between.
`OrderlySpec` excludes two things: an assignment beyond the end that skips slots the
block has already (`SkipsOldSlots`), and a change of the length while a negative index
waits (`EndMovesInUpdate`). The elements of a display and what push and
assignments store come from `held`, since the operands are on the stack.

## Runs

| Run | Instance | Shows |
|---|---|---|
| `hashmap` | 2 tables, 4 string objects over 3 texts (two share a text, two share a slot), capacities 2 and 4 | refinement of `KVStore`, probes that stop, exact counts, no lost or doubled key, one object per text, calls that return |
| `hashmap_copy` | 3 tables, 2 strings | a copy keeps every entry it passes, with overwriting and growth; refinement |
| `closures` | 3 upvalues, 5 slots, 2 frames, initial stack of 2 | every program: the open list falls strictly, frames nest; orderly ones: closures keep their variables over calls, returns, scopes, growth and shrinking |
| `closures_order` | as above | **violation**: captures in order of declaration lose a variable |
| `exceptions_any` | 2 frames, 2 nested try statements each, 2 exceptions of different types | every program: no live try statement ever loses its catcher; heights stay above what a try statement needs |
| `exceptions_structured` | 3 exceptions, 4 catchers | without early exits: the catch stack is the nest of live try statements, the innermost that lists the type handles, chains are finite and say what was being handled; `source_path` is the running file's |
| `exceptions_early_exit` | | **violation**: a stale catcher handles an exception |
| `arrays` | 2 arrays of at most 4 slots, 1 object, 4 indices | orderly programs: elements are live values inside the block, and arrays implement `ArrayStore` |
| `arrays_skip` | as above | **violation**: elements that an assignment skips are not null |
| `compiler` | 7 families of sources of up to 6 statements, bytes of 2 for 255 | one height of the stack at each instruction, names that lead to their variables, captured variables closed, exports that are variables |
| `collector` | 14 families of programs, up to 12 objects, stacks of 2 to 4, 2 frames | nothing in use is freed and nothing else is kept, strings stay interned, marking ends |
| `collector_disabled` | native functions on a full stack | **violation**: a collection while collection is disabled |

Bounds. `MinCapacity` 2 stands for 8 and `MaxCapacity` 4 allows one growth of a
table in use: every code path of `hashmap.c` is taken with tables at their load
limit, full of tombstones, and with wrapped probes; the proofs cover the rest.
`StackInitial` 2 stands for 64 so that five slots grow and shrink the block.
For `Arrays` `MinCapacity` 2 and `MaxCapacity` 4 allow displays below the least capacity, one
growth of it and one of a block in use; one object suffices to be popped, freed and
made again at the same address, and the proofs cover the rest. `MaxDisplay` bounds displays.
`MaxFrames` 2 stands for 1024; one nested frame suffices for a catcher, a
captured variable or a path to outlive a frame. `MaxBlocks` 2 nests handlers.
`MaxCatchers` bounds catchers piling up from early exits. Closures capture at most
two locals at once, which is enough for order to matter. `UINT8_MAX` 2 stands for 255 in `Compiler`, so that three locals need two `OP_POPN` and three
arguments are too many; the `items` and `nesting` of a source bound its statements and their
depth, which suffice for a loop left from a scope in a scope and for functions three deep.
In `Collector` each program has its own bound on objects (`objects`, at most `MaxObjects`) and on
the stack (`room`): two or three objects more than its instructions need at once, so that garbage
lies about while it runs. The instances of `Closures`, `Exceptions`, `Compiler` and `Collector` may
stop (no object left, the run or the source over), so deadlock is not checked there; for
`Hashmap` and `Arrays` it is.

Fairness. `FairSpec` of `Hashmap` asks that a step of a running call is taken
eventually: the VM is one thread and a call does not yield. Nothing is assumed of
which calls are made. `FairSpec` of `Collector` asks that a collection goes on (`WF_vars(Collection)`): `collect_garbage`
runs to its end inside the allocation, and no instruction runs meanwhile. The other
modules state safety only.

## Findings

* A closure naming two locals in order of declaration loses the first when its
  function returns (`vm.c:468`; `test/functions/closure_closed.can:16`).
* Return, break and continue leave the catcher of a try statement behind
  (`compiler.c:1149`; `vm.c:70`): a later error continues in a dead handler.
* `resize_stack` leaves collection enabled whatever its caller had set: a push on a full stack inside a
  native function, a conversion or the compiler lets a collection free what they hold
  (`vm.c:217`; the comment of `vm.c:341`).
* An assignment beyond the end of an array but inside its block makes elements of
  what the block holds there, popped values or memory nobody wrote
  (`object.c:176`; `test/arrays/array_index_set.can:6`).

Met while modelling and excluded from the runs by a named condition, or by the choice of the
instances, as said above: an exception out of a module leaves `source_path` at the module (`vm.c:100`);
break, continue and exceptions leave upvalues open (`compiler.c:346`); missing properties, bound
methods and `??=` on places leave slots on the stack (`vm.c:1181`); `mod_string` is no root (`memory.c:144`);
the name of a namespace is held by a C variable alone (`vm.c:1008`); captures of distant locals
lose bits (`compiler.c:884`); imports in bare branches (`compiler.c:1059`); a handled error in a conversion is
taken for its value, and replaces the exception the handler has been given (`vm.c:552`).

## Proofs

`HashmapProofs` assumes only `TableConstants` of `Hashmap`: any sets of tables,
strings, values and texts, any hash function into the naturals, `MinCapacity` at
least 2. It proves, of `Spec`, with no bound on the number of entries or the size of
tables other than the guard that names `MaxCapacity` (which the proofs do not use):

* `ProbeInvariant`: `[]ProbeInv`, the inductive invariant;
* `TypeCorrect`, `CountExact`, `ProbesStop`: the three properties it was made for;
* `CapacitiesDouble`: every capacity is `MinCapacity` doubled some number of times, which is what makes a
  mask the same as a remainder.

Why the invariant is needed: that a probe stops does not follow from types. It
stops because some entry is empty, which follows from `count < capacity` only if
`count` is exactly the number of entries not empty (`CountIsUsedEntries`),
tombstones included; `count` stays below because every set tests the load first
(`LoadBounded`); and after the test the table has room even if it was replaced in
between (`RoomForSet`), where the new table can take every entry of the old one
because it takes at most one per turn of the loop (`fresh.count <= i`), and is
larger. `CopyInRange` keeps the loop of `hashmap_copy_all` inside a table that may
have grown. The proof has a lemma for each operation on one table (`PutGood`,
`RemoveGood`, `SweepGood`, `NewTableGood`), arithmetic lemmas that a probe of n
steps visits every slot (`EverySlotProbed`), and one lemma per action.

`ArraysProofs` assumes only `ArrayConstants` of `Arrays`. It proves, of `Spec`,
`ArraysTypeCorrect` and `ElementsInsideBlock` (together inductive: the length grows only
after the block), and of `OrderlySpec`

* `ElementsStayLive`: `[]ElementsLive`. Inductive is `OrderlyInv`: what arrays get comes from the
  stack, so the stack must refer to no freed object (`held \subseteq alive`), and what
  `array_set` skips is null because it lies beyond the old block (`ArraySetElements`);
* `ArraysAreSequences`: `OrderlySpec => ImplementsArrayStore`. `UpdateSteady`, that a waiting update
  still means the slot it has read, makes the end of a compound assignment the
  abstract one; one lemma per operation shows that it changes the contents of one
  array (`OneArrayChanges`) as the abstract operation does.

`HashmapMapProofs`, from the same assumption, shows that the tables are maps, of `Spec`:

* `MapInvariant`: `[](Parts /\ MapsInv)`. `IsMap` is what open addressing rests on: no
  entry that was never used lies between a key's home and the key (`Linked`), and no key
  has two entries. That a key is found is then a lemma about one table, and so is what
  a set, a delete, a sweep and an insertion into a new table do to its contents, tombstones
  reused or not. The rest of `MapsInv` is about calls under way: the keys already rehashed are
  those of the old table's first `i` entries, less what the collection took from the table of
  strings (`Rehashed`); a string about to be interned is not in the table (`SetKnown`), which
  with the keys of the other tables being interned (`KeysInterned`) gives one object per text;
  and the entries `hashmap_copy_all` has passed are in the target (`CopyKnown`);
* `KeysAreFound`, `StringsAreUnique`, `CopiesAreKept`, and
* `ImplementsMaps`: `Spec => ImplementsKVStore`. Only `Store`, a deletion and a sweep change the maps;
  allocation and rehashing are stutters, whatever the hash function.

`ClosuresProofs` assumes only `StackConstants`. `StackSafe` proves of every program
`StackInv`: the three properties `TypesKept`, `ListFalls` and `FramesAreNested` state, with what makes
them inductive: the list holds each upvalue once and only pointers into the stack (`ListIsOpen`), and
what `OP_CLOSURE` has still to capture are live slots (`CapturesLive`). The walks of
`capture_upvalue` and `close_upvalues` stop at the right place because the list falls
(`WalkStops`). Of orderly programs, `OrderlySafe` proves the conjunction of `AllListed`, `NoneAboveTop` and
`NoneDangling`, none of which is inductive alone: an upvalue that is not listed is not relocated,
and one that dangles may be dropped from the list. `Shared` and the action property
`VariablesSurvive` follow.

`ExceptionsProofs` assumes only `ExceptionConstants`. Of every program it proves `CatchInvariant`:

* `HeightsRise`: the heights that frames and try statements found on the stack rise from the first
  frame to the last; without it a return or an exception could cut the stack below a
  live try statement;
* `Registered`: there is a *placement*, which gives each live try statement a catcher of its own,
  inner ones nearer to the head. That is stronger than each having a catcher
  (`EveryLiveTryRegistered`), which is not inductive: `OP_UNREGISTER_CATCH` takes
  the head, whoever registered it, and two statements that look alike could share one catcher.

`TypesKept`, `TriesAreRegistered` and `StackStaysAbove` follow. Of `StructuredSpec` it
proves `PlacesAreFilled`: the placement leaves no catcher over. From it follow
`CatchStackIsExact` (by counting: a try statement's place is the number of those inside it),
`NoneDerails`, `InnermostCatches`, `ChainsWhatWasHandled` and `PathIsKept`, which
needs the cuts of an exception to keep the modules of the frames below. `ChainsEnd` uses
that every set closed under `next` that the head is in has the end of the chain in it: an exception that is raised
while the chain does not lead to it cannot make a cycle. `NoneDerails` is the counterpart of the run
`exceptions_early_exit`: what a return out of a try statement breaks holds of all programs without one.
`OrderLemmas` has what these modules need to know of `Min`.

`CollectorProofs` assumes only `CollectorConstants`. Of every program, roomy or not, it proves

* `StringsStayInterned`: `[]StringsAreInterned`. Inductive is `Interning`. Between the making of strings
  the table and the string objects are the same set (`Settled`). Making one goes through two
  stages: while it is `Promised`, no string has its text; when it is `Fresh`, a C variable holds it, and
  the stack too whenever an allocation may collect, so that it is marked (`SweepStrung`). That nothing else
  makes or remembers a string is a fact about the code of all instructions (`InstructionCases`: every
  one is put together from clean steps);
* `MarkingIsExact`: `Spec /\ []InUseIsKept => CollectionIsExact`. `Marking` is the tricolour invariant (the
  roots are marked, what is marked and not grey refers to marked objects) together with its converse: what is marked
  is in every closed part of the heap that has the roots in it. `ReachIs` shows that `Reach` is the least such part, since a
  heap of n objects has nothing new after n steps.

Of programs that satisfy two hypotheses it proves `NothingInUseIsFreed` (`[]InUseIsKept`), `CollectorTypes`
(`[]TypeOK`) and `CollectionsAreExact`. `Roomy`: an instruction that disables collection finds a free slot on the
stack; without it `resize_stack` turns collection on again, the finding of the run `collector_disabled`.
`NamesItself`: a program that builds a namespace has `"module"` among its constants; without it the name of
`vm.c:1008` can be freed (hazard at `object.c:97`). TLC evaluates `NamesItself` of the programs of
`CollectorMC`, so that the hypotheses are those of the run.

The invariant is `Rooted` (`CodeIsRooted`): `Interning`, `Sound` and `Planned`. `Sound` says of the heap, the stack, the
frames and the open upvalues that they refer to what is there, to objects of the type the C code takes
them for, and that bases and slots lie below the operands. `Planned` is what makes `InUseIsKept` inductive, which
speaks of the future of the C code: the list of steps that is left can be followed to its end. It works like a type
system. A *claim* (`Sane`) says of which C variables the objects are on the heap, of which the roots reach them,
with and without the top of the stack, what type they have, whether collection is
off, whether the stack has a free slot, how many operands may be popped. `Goes(A, s, B)` is the rule of a step: it reads only
variables that are alive under `A`, which after a step that may collect are the ones the roots reach,
and `B` follows from `A`. `Leads` chains rules along a list of steps. The proof has three parts:

* the rules are sound: if a claim holds (`Holds`), a rule goes from it and the code takes the
  step, the next claim holds (`PushGoes`, `PutGoes`, `NewGoes`, ... , `CodePlanned`). That an object the roots reach stays reached while others
  are allocated is monotonic (`HeldGrows`); popping needs the claim about the roots without the top;
* a collection keeps claims, because where it can run, what is alive is reached from the roots, and what is marked is a closed part
  of the heap (`HeldSurvives`, `SweepPlanned`);
* the code of each of the 32 instructions can be followed from the state it begins in (`LoadPlanned`, ..., `CompilesPlanned`),
  for any operands, any number of names among the constants (`FlatLeads`), any error raised and handled or not (`ThrowGoes`).
  Here each `push` of the source that protects an object from an allocation is needed.

That the variables a later step reads before assigning (`LiveLocals`) are alive now is `LiveIsAlive`, backwards along the steps.

`CompilerProofs` assumes only `ByteIsPositive` and `SourcesAreSources`: any sources, with any names,
expressions and parameters, of any length and depth. It proves, of `Spec`, `CompilersInvariant`, whose
parts are

* `Scoping`, for the chain of compilers and the ghost side by side: the depths of the locals rise
  (`Ordered`), which makes the locals that `end_scope` drops the last ones; every name a scope binds is a
  local of that depth and the other way round (`BoundAreLocals`, `LocalsAreBound`), and what a
  local is bound to is its declaration; an upvalue's index is in the range of what it refers to in the
  function around (`Linked`);
* `Nesting`: each call of the parser that waits has a *frame*, the depth, the loops and the classes
  around it when it began, and what is open in between follows from the kind of the call (`Inside`). That
  is what makes the end of a statement give back what was there, across any number of nested
  statements and functions; a body's call also knows that the variable of its function is the last
  local (`Declared`), which the closure will be stored in.

`TypeCorrect` follows, and `ScopesAgree`: for every name, what `resolve_local` and the walk of `resolve_upvalue` find
is the declaration in force. `NamesAreFound` is about code. One lemma per form of expression shows its
operands lead to what its names denote (`CodeLeads`); `ChainGood` that the chain of upvalues
`resolve_upvalue` adds from the owner inwards ends at the owner's local, whether or not links were there already;
`TargetsKept` that later additions do not change what earlier upvalues stand for; `CapturesRight` that the descriptors
of `OP_CLOSURE` are those of the upvalues, low byte and all. `TargetsAre` and `ChainGood` unfold the
recursive functions along the chain of functions by a least counterexample. The hypothesis of
`NamesAreFound`, that every source is `orderly`, is the defect of `compiler.c:884`: sources whose closures capture a
local past the 255th are left out. `NearNamesAreFound` says the same without the hypothesis, of each step
before which no such local has been captured.

Only model-checked:

* the power-of-two property as it stands (its module needs `Bitwise`, which a module with theorems cannot
  use; `CapacitiesDouble` has its content);
* `HeightsMeet`, `CapturedAreClosed` and `ExportsAreVariables` of `Compiler`: they are about all paths through
  finished code, and what the recursive analysis of `Bytecode` computes for every code
  would need induction over data, which is out of the proof system's reach;
* liveness (`CallsReturn`, `CollectionEnds`): the proof system does not reason about ENABLED.

The inductive invariants are not checked by runs of their own: they are proved, and what follows
from them is checked.

## Plan

`Machine`: errors raised in the middle of an instruction and handled, with the height of
the stack and the `long_instruction` flag; composed with `Exceptions`.

## Not modelled

The scanner and the grammar (pure; the program's tests exercise them), number and string formatting,
printing, the disassembler, input and output, where a file is looked for, and what the C library does. The
count of bytes and the threshold of the collector (the models let any allocation collect). The bytes of
instructions appear only where a hazard is about them. Errors in the middle of an instruction and
`long_instruction` (planned above); a NaN as an index.
