------------------------------- MODULE Collector -------------------------------
(***************************************************************************)
(* The collector of src/memory.c and the C code of src/vm.c, src/object.c  *)
(* and src/type_conversions.c that allocates while it holds objects.       *)
(*                                                                         *)
(* An allocation may collect: whenever collection is allowed and the       *)
(* threshold is passed, which is left open. What an instruction's C code   *)
(* does between and after its allocations is the list of steps `todo`; its *)
(* C variables are `local`. A value of the program is the set of the       *)
(* object it refers to: {obj}, or {} for a number, null and the like.      *)
(***************************************************************************)
EXTENDS Integers, Sequences, FiniteSets, SequencesExt, FiniteSetsExt, Functions, TLC

CONSTANTS MaxObjects,     \* bound on the objects allocated at a time
          Texts,          \* texts of strings, among them:
          NativeText,     \* the name of a native function
          InitText,       \* "__init__" and the other names mark_roots marks
          ModText,        \* "__mod__"
          ModuleText,     \* "module"
          FunctionText,   \* the name of a function
          Programs,       \* the instructions, texts and functions of programs, and room
                          \* on the stack
          Roomy,          \* programs whose stack has room while collection is disabled
          StackInitial,   \* STACK_INITIAL, 64 in the code
          MaxFrames

ASSUME CollectorConstants ==
    /\ MaxObjects \in Nat /\ MaxObjects >= 4
    /\ {NativeText, InitText, ModText, ModuleText, FunctionText} \subseteq Texts
    /\ NativeText # InitText /\ NativeText # ModText /\ InitText # ModText
    /\ Roomy \in BOOLEAN
    /\ StackInitial \in Nat \ {0} /\ MaxFrames \in Nat \ {0}
    /\ \A p \in Programs : /\ p.code \subseteq STRING
                           /\ p.texts \subseteq Texts /\ p.made \subseteq Texts
                           /\ IsFiniteSet(p.texts)
                           /\ p.nested \in BOOLEAN /\ p.room \in Nat
                           /\ p.objects \in 4 .. MaxObjects

VARIABLES program,    \* the program that runs
          heap,       \* vm->objects: allocated address -> object
          strings,    \* the keys of vm->strings
          allowed,    \* gc_allowed
          phase,      \* "idle", "mark" while a collection runs, "done" after one
          marked,     \* objects with is_marked
          grey,       \* the grey stack
          stack, capacity,
          frames,     \* closure and first slot of each call frame
          globals,    \* vm->globals: string object -> value
          open,       \* the set of open_upvalues, each with the slot it is for
          exception,  \* exception_stack
          named,      \* vm->init_string, vm->mod_string
          todo, local

program_vars == <<stack, capacity, frames, globals, open, exception, named>>
heap_vars == <<heap, strings>>
gc_vars   == <<phase, marked, grey>>
code_vars == <<todo, local>>
vars == <<program, heap_vars, allowed, gc_vars, program_vars, code_vars>>
-----------------------------------------------------------------------------
(* Objects. *)

Obj == 1 .. MaxObjects      \* the addresses malloc gives out

\* The fields of each type of object that refer to objects. The table of a class,
\* an instance or a namespace is the set of its keys and values.
Fields == [string |-> {}, native |-> {},
           array |-> {"values"}, function |-> {"name", "constants"},
           closure |-> {"function", "upvalues"}, upvalue |-> {"closed"},
           class |-> {"name", "methods"}, instance |-> {"class_", "fields"},
           bound_method |-> {"receiver", "method"}, bound_native |-> {"receiver"},
           namespace |-> {"name", "values"}, exception |-> {"message", "next"}]

\* Fault: the rest of the chain of exceptions is not marked.
MarkedFields_NoNext == [Fields EXCEPT !.exception = {"message"}]

\* What blacken_object marks.
MarkedFields == [string |-> {}, native |-> {},
                 array |-> {"values"}, function |-> {"name", "constants"},
                 closure |-> {"function", "upvalues"}, upvalue |-> {"closed"},
                 class |-> {"name", "methods"}, instance |-> {"class_", "fields"},
                 bound_method |-> {"receiver", "method"}, bound_native |-> {"receiver"},
                 namespace |-> {"name", "values"}, exception |-> {"message", "next"}]

Referred(obj) == UNION {heap[obj].refs[f] : f \in Fields[heap[obj].type]}
Blackened(obj) == UNION {heap[obj].refs[f] : f \in MarkedFields[heap[obj].type]}

\* What can be reached from the objects given: each step that reaches something new
\* starts at one more object of the heap.
Near(objs) == objs \cup UNION {Referred(obj) : obj \in objs \cap DOMAIN heap}

Reach(from) ==
    LET reached[n \in Nat] == IF n = 0 THEN from ELSE Near(reached[n - 1])
    IN  reached[Cardinality(DOMAIN heap)]

Is(v, type)  == v # {} /\ \A obj \in v : heap[obj].type = type
Get(v, field) == UNION {heap[obj].refs[field] : obj \in v}

Peek(d)   == stack[Len(stack) - d]
Active    == Last(frames)
Function  == Get(Active.closure, "function")
Constants(type) == {obj \in Get(Function, "constants") : heap[obj].type = type}

\* The objects the state of the VM refers to, but for the name mod_string: a collection
\* frees it when no program names it.
Held == [stack     |-> UNION ToSet(stack),
         frames    |-> UNION {frames[i].closure : i \in DOMAIN frames},
         upvalues  |-> UNION {u.upvalue : u \in open},
         globals   |-> DOMAIN globals \cup UNION Range(globals),
         exception |-> exception,
         names     |-> named.init_string]
InHand == UNION Range(Held)

\* Faults: the upvalues that are still open are left out; the strings of
\* vm->strings are marked like the rest.
Roots_NoUpvalues == UNION {Held[part] : part \in DOMAIN Held \ {"upvalues"}}
Roots_Strings    == InHand \cup strings

\* mark_roots: 15 of the 16 strings the VM keeps; mod_string is not among them.
Roots == UNION {Held[part] : part \in
                {"stack", "frames", "upvalues", "globals", "exception", "names"}}
-----------------------------------------------------------------------------
(* The steps of C code. `to` is the variable a step assigns, `from` those it reads. *)

Registers == {"a", "b", "c", "r", "n"}
NoLocals  == [r \in Registers |-> {}]
Values(from) == UNION {local[r] : r \in from}

Do(op, to, from, arg) == [op |-> op, to |-> to, from |-> from, arg |-> arg]

Block             == Do("block", "r", {}, {})      \* ALLOCATE, GROW_ARRAY, a table that grows
Use(from)         == Do("use", "r", from, {})      \* C code that reads its variables
NewOf(to, type, text, parts) ==
    Do("new", to, UNION Range(parts), [type |-> type, text |-> text, parts |-> parts])
New(to, type, parts) == NewOf(to, type, {}, parts) \* ALLOCATE_OBJ
Intern(to, text)  == Do("intern", to, {}, text)    \* take_string
Remember(from)    == Do("remember", "r", {from}, {})
Push(from)        == Do("push", "r", {from}, {})   \* push
Drop(n)           == Do("drop", "r", {}, n)        \* popn
Replace(d, from)  == Do("replace", "r", {from}, d) \* stack_ptr[-1 - d] =
Put(obj, field, from) == Do("put", obj, from \cup {obj}, [field |-> field, from |-> from])
Allow(b)          == Do("allow", "r", {}, b)       \* enable_gc, disable_gc
Define(key, val)  == Do("define", "r", {key, val}, [key |-> key, val |-> val])
Link(up, slot)    == Do("link", "r", {up}, slot)   \* the list of capture_upvalue
Enter(clo, argc)  == Do("enter", "r", {clo}, argc) \* call
Throw(e)          == Do("throw", "r", {e}, {})     \* raise
Fetch(to, slot)   == Do("fetch", to, {}, slot)     \* slots[slot_idx]

\* hashmap_set on a table of obj: it may grow, then the entry is stored.
SetEntry(obj, field, from) == <<Block, Put(obj, field, from)>>

\* copy_string: the characters are copied before the string object is made.
Copy(to, text) == Do("copy", to, {}, text)

\* Fault: the new string is not pushed.
AllocateString_NotPushed(to, text) ==
    <<NewOf(to, "string", {text}, <<>>), Block, Remember(to)>>

\* allocate_string keeps the new string on the stack while vm->strings grows.
AllocateString(to, text) ==
    <<NewOf(to, "string", {text}, <<>>), Push(to), Block, Remember(to), Drop(1)>>

Allocates == {"block", "new"}
Assigns   == {"new", "intern", "copy", "fetch"}

\* The variables the rest of the code reads before it assigns them.
LiveLocals ==
    {r \in Registers : \E i \in DOMAIN todo :
        /\ r \in todo[i].from
        /\ \A j \in 1 .. i - 1 : todo[j].to # r \/ todo[j].op \notin Assigns}

\* What the program or the C code running may still refer to.
InUse == Reach(InHand \cup Values(LiveLocals))
-----------------------------------------------------------------------------
(* A collection, inside an allocation. *)

MayCollect == todo # <<>> /\ Head(todo).op \in Allocates /\ allowed

\* Fault: an object that is marked already is made grey again.
Mark_Again(objs, done) ==
    /\ marked' = marked \cup objs
    /\ grey' = (grey \ done) \cup objs

\* mark_object of each of the objects.
Mark(objs, done) ==
    /\ marked' = marked \cup objs
    /\ grey' = (grey \ done) \cup (objs \ marked)

BeginCollection ==
    /\ MayCollect /\ phase = "idle"
    /\ phase' = "mark"
    /\ Mark(Roots, {})
    /\ UNCHANGED <<program, heap_vars, allowed, program_vars, code_vars>>

\* Which grey object is next does not matter: marking has no other effect.
Blacken ==
    /\ phase = "mark" /\ grey # {}
    /\ Mark(Blackened(Max(grey)), {Max(grey)})
    /\ UNCHANGED <<program, heap_vars, allowed, phase, program_vars, code_vars>>

Oversized == capacity >= 2 * StackInitial /\ 4 * Len(stack) < capacity

\* Fault: the strings that are freed stay in vm->strings.
Sweep_KeepsStrings ==
    /\ phase = "mark" /\ grey = {}
    /\ heap' = Restrict(heap, marked \cap DOMAIN heap)
    /\ marked' = {} /\ phase' = "done"
    /\ allowed' = TRUE
    /\ UNCHANGED <<program, strings, capacity, grey, stack, frames, globals, open, exception,
                   named, code_vars>>

\* The strings that are not marked leave vm->strings, what is not marked is freed,
\* and an oversized stack is halved; resize_stack leaves collection allowed.
Sweep ==
    /\ phase = "mark" /\ grey = {}
    /\ strings' = strings \cap marked
    /\ heap' = Restrict(heap, marked \cap DOMAIN heap)
    /\ marked' = {} /\ phase' = "done"
    /\ capacity' = IF Oversized THEN capacity \div 2 ELSE capacity
    /\ allowed' = TRUE
    /\ UNCHANGED <<program, grey, stack, frames, globals, open, exception, named, code_vars>>

Collection == BeginCollection \/ Blacken \/ Sweep
-----------------------------------------------------------------------------
(* The steps of C code. *)

Doing(op) == todo # <<>> /\ Head(todo).op = op /\ phase # "mark"
Step == Head(todo)

\* The code goes on with these steps; its variables are gone at its end.
GoOn(steps, variables) ==
    /\ todo' = steps
    /\ local' = IF steps = <<>> THEN NoLocals ELSE variables
    /\ phase' = "idle"
    /\ UNCHANGED <<program, marked, grey>>

\* The next step, when the code's own variables stay.
Proceed == GoOn(Tail(todo), local)

DoBlock == /\ Doing("block") /\ Proceed
           /\ UNCHANGED <<heap_vars, allowed, program_vars>>

DoUse == /\ Doing("use") /\ Proceed
         /\ UNCHANGED <<heap_vars, allowed, program_vars>>

\* allocate_object, and the assignments of the constructor to the fields.
DoNew ==
    /\ Doing("new") /\ Cardinality(DOMAIN heap) < program.objects
    /\ LET obj == Min(Obj \ DOMAIN heap)
           parts == Step.arg.parts
       IN  /\ heap' = [o \in DOMAIN heap \cup {obj} |->
                  IF o # obj THEN heap[o]
                  ELSE [type |-> Step.arg.type, text |-> Step.arg.text,
                        refs |-> [f \in Fields[Step.arg.type] |->
                            IF f \in DOMAIN parts THEN Values(parts[f]) ELSE {}]]]
           /\ GoOn(Tail(todo), [local EXCEPT ![Step.to] = {obj}])
    /\ UNCHANGED <<strings, allowed, program_vars>>

\* hashmap_find_string, then allocate_string for a text that is not in the table.
Interned(text) == {s \in strings : heap[s].text = {text}}

DoIntern ==
    /\ Doing("intern") \/ Doing("copy")
    /\ LET text == Step.arg
           copied == IF Step.op = "copy" THEN <<Block>> ELSE <<>>
       IN  IF Interned(text) # {}
           THEN GoOn(Tail(todo), [local EXCEPT ![Step.to] = Interned(text)])
           ELSE GoOn(copied \o AllocateString(Step.to, text) \o Tail(todo), local)
    /\ UNCHANGED <<heap_vars, allowed, program_vars>>

DoRemember ==
    /\ Doing("remember") /\ Proceed
    /\ strings' = strings \cup Values(Step.from)
    /\ UNCHANGED <<heap, allowed, program_vars>>

\* A full stack grows first, and resize_stack leaves collection allowed.
DoPush ==
    /\ Doing("push") /\ Proceed
    /\ LET full == Len(stack) >= capacity
       IN  /\ capacity' = IF full THEN 2 * capacity ELSE capacity
           /\ allowed' = (allowed \/ full)
    /\ stack' = Append(stack, Values(Step.from))
    /\ UNCHANGED <<heap_vars, frames, globals, open, exception, named>>

DoDrop ==
    /\ Doing("drop") /\ Proceed
    /\ stack' = SubSeq(stack, 1, Len(stack) - Step.arg)
    /\ UNCHANGED <<heap_vars, allowed, capacity, frames, globals, open, exception, named>>

DoReplace ==
    /\ Doing("replace") /\ Proceed
    /\ stack' = [stack EXCEPT ![Len(stack) - Step.arg] = Values(Step.from)]
    /\ UNCHANGED <<heap_vars, allowed, capacity, frames, globals, open, exception, named>>

Overwritten == {"methods", "fields", "values"}

\* What the field holds is added to; an entry that was there may be overwritten.
DoPut ==
    /\ Doing("put") /\ Proceed
    /\ \E obj \in local[Step.to] :
       LET old == heap[obj].refs[Step.arg.field]
       IN  \E gone \in {{}} \cup {{o} : o \in old} :
               /\ gone # {} => Step.arg.field \in Overwritten
               /\ heap' = [heap EXCEPT ![obj].refs[Step.arg.field] =
                              (old \ gone) \cup Values(Step.arg.from)]
    /\ UNCHANGED <<strings, allowed, program_vars>>

DoAllow ==
    /\ Doing("allow") /\ Proceed
    /\ allowed' = Step.arg
    /\ UNCHANGED <<heap_vars, program_vars>>

DoFetch ==
    /\ Doing("fetch")
    /\ GoOn(Tail(todo), [local EXCEPT ![Step.to] = stack[Step.arg + 1]])
    /\ UNCHANGED <<heap_vars, allowed, program_vars>>

DoDefine ==
    /\ Doing("define") /\ Proceed
    /\ \E key \in local[Step.arg.key] :
          globals' = [k \in DOMAIN globals \cup {key} |->
                         IF k = key THEN local[Step.arg.val] ELSE globals[k]]
    /\ UNCHANGED <<heap_vars, allowed, stack, capacity, frames, open, exception, named>>

DoEnter ==
    /\ Doing("enter") /\ Proceed
    /\ frames' = Append(frames, [closure |-> Values(Step.from),
                                 base |-> Len(stack) - Step.arg - 1])
    /\ UNCHANGED <<heap_vars, allowed, stack, capacity, globals, open, exception, named>>

Above(slot) == {u \in open : u.slot > slot}

\* The new upvalue takes the place of the rest of the list.
DoLink ==
    /\ Doing("link") /\ Proceed
    /\ open' = Above(Step.arg) \cup {[slot |-> Step.arg, upvalue |-> Values(Step.from)]}
    /\ UNCHANGED <<heap_vars, allowed, stack, capacity, frames, globals, exception, named>>

\* What C code that gives up has still to do.
CleanUp(steps) == IF Allow(TRUE) \in ToSet(steps) THEN <<Allow(TRUE)>> ELSE <<>>

\* raise: the exception is chained; a catcher of a frame that still runs takes it, at
\* a height that leaves no open variable, or else the stack is reset and every C
\* function returns at once, when it has allowed collection again.
DoThrow ==
    /\ Doing("throw")
    /\ \E obj \in Values(Step.from) :
          /\ heap' = IF {obj} = exception THEN heap
                     ELSE [heap EXCEPT ![obj].refs.next = exception]
          /\ exception' = {obj}
    /\ \/ \E k \in DOMAIN frames : \E height \in frames[k].base + 1 .. Len(stack) :
             /\ Above(height - 1) = {}
             /\ frames' = SubSeq(frames, 1, k)
             /\ stack' = SubSeq(stack, 1, height)
             /\ open' = open
             /\ GoOn(<<Push("r")>> \o Tail(todo), [local EXCEPT !["r"] = exception'])
       \/ /\ frames' = <<>> /\ stack' = <<>> /\ open' = {}
          /\ GoOn(CleanUp(Tail(todo)), local)
    /\ UNCHANGED <<strings, allowed, capacity, globals, named>>

CodeStep == \/ DoBlock \/ DoUse \/ DoNew \/ DoIntern \/ DoRemember \/ DoPush \/ DoDrop
            \/ DoReplace \/ DoPut \/ DoAllow \/ DoFetch \/ DoDefine \/ DoEnter
            \/ DoLink \/ DoThrow
-----------------------------------------------------------------------------
(* The C code of the instructions, as steps. *)

Runs(name) == name \in program.code /\ todo = <<>> /\ frames # <<>>
Room       == Len(stack) < program.room
Height     == Len(stack) - Active.base - 1      \* variables and operands of the frame

\* An operand lies above every variable that a closure has captured.
Operands   == Len(stack) - 1 - Max({Active.base} \cup {u.slot : u \in open})

\* The C function starts with these values in its variables.
Perform(variables, steps) ==
    /\ todo' = steps
    /\ local' = [r \in Registers |-> IF r \in DOMAIN variables THEN variables[r] ELSE {}]
    /\ UNCHANGED <<program, heap_vars, allowed, gc_vars, program_vars>>

\* What runs with collection disabled. Programs that are roomy leave the stack room
\* for what it pushes.
Guarded(steps) == <<Allow(FALSE)>> \o steps \o <<Allow(TRUE)>>
RoomToGuard == Roomy => Len(stack) < capacity

\* OP_CLOSURE and interpret: the function is a constant or on the stack.
NewClosure(to, function) ==
    <<Block, New(to, "closure", [function |-> {function}])>>

\* compile, compile_module: a function with its constants, one of them a function.
\* The function is made before collection is disabled.
AddNames(to) ==
    FlattenSeq([i \in 1 .. Cardinality(program.texts) |->
        <<Intern("n", SetToSeq(program.texts)[i]), Put(to, "constants", {"n"})>>])

CompileFunction ==
    <<New("b", "function", <<>>), Intern("n", FunctionText), Put("b", "name", {"n"})>>
    \o AddNames("b") \o <<Put("a", "constants", {"b"})>>

Compile ==
    <<New("a", "function", <<>>)>>
    \o Guarded(AddNames("a") \o IF program.nested THEN CompileFunction ELSE <<>>)

\* interpret, which the REPL calls for each line.
Interpret ==
    /\ todo = <<>> /\ frames = <<>> /\ RoomToGuard
    /\ Perform(<<>>, Compile \o <<Push("a")>> \o NewClosure("c", "a")
                     \o <<Drop(1), Push("c"), Enter("c", 0)>>)

\* OP_IMPORT, with the file's name on the stack.
Import ==
    /\ Runs("import") /\ RoomToGuard /\ Len(frames) < MaxFrames
    /\ Operands > 0 /\ Is(Peek(0), "string")
    /\ Perform(<<>>, Compile \o <<Replace(0, "a")>> \o NewClosure("c", "a")
                     \o <<Replace(0, "c"), Enter("c", 0)>>)

\* OP_BUILD_NAMESPACE, of one export; its C code holds the name of the namespace.
BuildNamespace ==
    /\ Runs("namespace") /\ Room
    /\ \E name \in Constants("string") : \E slot \in Active.base .. Len(stack) - 1 :
          Perform([a |-> {name}],
                  <<Copy("n", ModuleText),
                    New("r", "namespace", [name |-> {"n"}]), Push("r"),
                    Fetch("c", slot)>> \o SetEntry("r", "values", {"a", "c"}))

\* OP_CONSTANT, OP_GET_GLOBAL, OP_GET_LOCAL, OP_GET_UPVALUE and OP_NULL.
UpvalueValue(obj) ==
    LET of == {u \in open : u.upvalue = {obj}}
    IN  IF of = {} THEN heap[obj].refs.closed ELSE UNION {stack[u.slot + 1] : u \in of}

Loaded ==
    {v \in {{}} : "null" \in program.code}
    \cup {v \in {{s} : s \in Constants("string")} : "constant" \in program.code}
    \cup {v \in Range(globals) : "get_global" \in program.code}
    \cup {v \in {stack[i] : i \in Active.base + 1 .. Len(stack)} : "get_local" \in program.code}
    \cup {v \in {UpvalueValue(u) : u \in Get(Active.closure, "upvalues")} :
              "get_upvalue" \in program.code}

Load ==
    /\ todo = <<>> /\ frames # <<>> /\ Room
    /\ \E v \in Loaded : Perform([a |-> v], <<Push("a")>>)

\* OP_SET_LOCAL and OP_SET_UPVALUE.
SetVariable ==
    /\ Runs("store") /\ Height > 0
    /\ \/ \E i \in Active.base + 2 .. Len(stack) - 1 :
             /\ stack' = [stack EXCEPT ![i] = Peek(0)]
             /\ heap' = heap
       \/ \E obj \in Get(Active.closure, "upvalues") :
             IF \E u \in open : u.upvalue = {obj}
             THEN \E u \in open :
                     /\ u.upvalue = {obj}
                     /\ stack' = [stack EXCEPT ![u.slot + 1] = Peek(0)]
                     /\ heap' = heap
             ELSE /\ heap' = [heap EXCEPT ![obj].refs.closed = Peek(0)]
                  /\ stack' = stack
    /\ UNCHANGED <<program, strings, allowed, gc_vars, capacity, frames, globals, open,
                   exception, named, code_vars>>

\* OP_DEFINE_GLOBAL.
DefineGlobal ==
    /\ Runs("global") /\ Operands > 0
    /\ \E name \in Constants("string") :
          Perform([a |-> {name}, b |-> Peek(0)], <<Block, Define("a", "b"), Drop(1)>>)

\* close_upvalues: the variables at and above the slot are copied into their upvalues.
Closed(slot) ==
    [obj \in DOMAIN heap |->
        LET of == {u \in open : u.upvalue = {obj} /\ u.slot >= slot}
        IN  IF of = {} THEN heap[obj]
            ELSE [heap[obj] EXCEPT !.refs.closed = UNION {stack[u.slot + 1] : u \in of}]]

\* Fault: a captured variable is popped like any other.
Pop_NotClosed ==
    /\ Runs("pop") /\ Height > 0
    /\ stack' = Front(stack)
    /\ UNCHANGED <<program, heap_vars, allowed, gc_vars, capacity, frames, globals, open,
                   exception, named, code_vars>>

\* OP_POP of what no closure has captured, OP_CLOSE_UPVALUE of what one has.
Pop ==
    /\ Runs("pop") /\ Height > 0
    /\ heap' = Closed(Len(stack) - 1)
    /\ open' = open \ Above(Len(stack) - 2)
    /\ stack' = Front(stack)
    /\ UNCHANGED <<program, strings, allowed, gc_vars, capacity, frames, globals,
                   exception, named, code_vars>>

\* OP_RETURN.
Return ==
    /\ Runs("return") /\ Height > 0
    /\ LET base == Active.base
       IN  /\ heap' = Closed(base)
           /\ open' = open \ Above(base - 1)
           /\ frames' = Front(frames)
           /\ stack' = SubSeq(stack, 1, base) \o IF Len(frames) = 1 THEN <<>> ELSE <<Peek(0)>>
    /\ UNCHANGED <<program, strings, allowed, gc_vars, capacity, globals, exception,
                   named, code_vars>>

\* OP_CLOSURE: the closure takes over upvalues of the running one, and a local
\* that has an upvalue or lies below those that have one (the order in which a
\* capture keeps the list of open upvalues whole).
Capture(slot) ==
    LET shared == {u \in open : u.slot = slot}
    IN  IF shared # {}
        THEN <<Put("c", "upvalues", {"b"})>>
        ELSE <<New("n", "upvalue", <<>>), Link("n", slot), Put("c", "upvalues", {"n"})>>

MakeClosure ==
    /\ Runs("closure") /\ Room
    /\ \E function \in Constants("function") :
          \/ Perform([a |-> {function}, b |-> Get(Active.closure, "upvalues")],
                     NewClosure("c", "a") \o <<Push("c"), Put("c", "upvalues", {"b"})>>)
          \/ \E slot \in Active.base + 1 .. Len(stack) - 1 :
                /\ \A u \in open : u.slot >= slot
                /\ Perform([a |-> {function},
                            b |-> UNION {u.upvalue : u \in {v \in open : v.slot = slot}}],
                           NewClosure("c", "a") \o <<Push("c")>> \o Capture(slot))

\* OP_CLASS, OP_METHOD and OP_INHERIT.
MakeClass ==
    /\ Runs("class") /\ Room
    /\ \E name \in Constants("string") :
          Perform([a |-> {name}], <<New("r", "class", [name |-> {"a"}]), Push("r")>>)

DefineMethod ==
    /\ Runs("method") /\ Operands > 1 /\ Is(Peek(0), "closure") /\ Is(Peek(1), "class")
    /\ \E name \in Constants("string") :
          Perform([a |-> Peek(1), b |-> Peek(0), n |-> {name}],
                  SetEntry("a", "methods", {"n", "b"}) \o <<Drop(1)>>)

InheritMethods ==
    /\ Runs("inherit") /\ Operands > 1 /\ Is(Peek(0), "class") /\ Is(Peek(1), "class")
    /\ Perform([a |-> Peek(0), b |-> Get(Peek(1), "methods")],
               SetEntry("a", "methods", {"b"}) \o <<Drop(1)>>)

\* call_value. The arguments are above the callee.
Callee(argc, type) ==
    /\ Runs("call") /\ Operands > argc /\ Is(Peek(argc), type)

CallClosure ==
    \E argc \in 0 .. 1 :
       /\ Callee(argc, "closure") /\ Len(frames) < MaxFrames
       /\ Perform([a |-> Peek(argc)], <<Enter("a", argc)>>)

CallBound ==
    \E argc \in 0 .. 1 :
       /\ Callee(argc, "bound_method") /\ Len(frames) < MaxFrames
       /\ Perform([a |-> Get(Peek(argc), "receiver"), b |-> Get(Peek(argc), "method")],
                  <<Replace(argc, "a"), Enter("b", argc)>>)

\* The new instance takes the place of its class before its initialiser is looked up.
CallClass ==
    \E argc \in 0 .. 1 :
       LET methods == Get(Peek(argc), "methods")
       IN  /\ Callee(argc, "class") /\ Len(frames) < MaxFrames
           /\ LET create == <<New("r", "instance", [class_ |-> {"a"}]), Replace(argc, "r")>>
              IN  IF named.init_string \subseteq methods
                  THEN \E method \in {m \in methods : heap[m].type = "closure"} :
                          Perform([a |-> Peek(argc), b |-> {method}],
                                  create \o <<Enter("b", argc)>>)
                  ELSE argc = 0 /\ Perform([a |-> Peek(0)], create)

\* new_exception, which keeps the message on the stack meanwhile.
NewException(to, message) ==
    <<Push(message), New(to, "exception", <<>>), Drop(1), Put(to, "message", {message})>>

\* runtime_error.
Error(text) == <<Block, Intern("n", text)>> \o NewException("c", "n") \o <<Throw("c")>>

\* Native functions and methods: their code does not push what it holds. The
\* collection they put off may run at the end.
Native(argc, body) == Guarded(body) \o <<Drop(argc + 1), Push("r"), Block>>

\* exception (whose first argument is no object), a function that reads a line or a
\* file, or one that fails.
CallNative ==
    /\ RoomToGuard /\ Callee(1, "native")
    /\ \/ /\ Is(Peek(0), "string")
          /\ Perform([a |-> Peek(0)], Native(1, NewException("r", "a")))
       \/ \E line \in program.made : Perform(<<>>, Native(1, <<Block, Intern("r", line)>>))
       \/ \E message \in program.made : Perform(<<>>, Guarded(Error(message)))

\* array_push_native, array_pop_native.
ArrayMethod(argc, array) ==
    /\ RoomToGuard
    /\ \/ /\ argc = 1
          /\ Perform([a |-> array, b |-> Peek(0)],
                     Native(1, <<Block, Put("a", "values", {"b"})>>))
       \/ /\ argc = 0
          /\ \E v \in {{}} \cup {{o} : o \in Get(array, "values")} :
                Perform([a |-> array, r |-> v], Native(0, <<Put("a", "values", {})>>))

InvokeArray ==
    /\ Runs("invoke")
    /\ \E argc \in 0 .. 1 : /\ Operands > argc /\ Is(Peek(argc), "array")
                            /\ ArrayMethod(argc, Peek(argc))

\* invoke of a method of an instance, without the bound method.
InvokeMethod ==
    /\ Runs("invoke") /\ Len(frames) < MaxFrames
    /\ \E argc \in 0 .. 1 :
          /\ Operands > argc /\ Is(Peek(argc), "instance")
          /\ \E method \in Get(Get(Peek(argc), "class_"), "methods") :
                /\ heap[method].type = "closure"
                /\ Perform([a |-> {method}], <<Enter("a", argc)>>)

CallBoundNative ==
    \E argc \in 0 .. 1 : /\ Callee(argc, "bound_native")
                         /\ ArrayMethod(argc, Get(Peek(argc), "receiver"))

\* OP_GET_PROPERTY, which leaves an instance below the undefined value of a missing
\* property and below a bound method.
TableOf == [instance |-> "fields", namespace |-> "values", exception |-> "message"]

GetField ==
    /\ Runs("property") /\ Operands > 0
    /\ \E type \in DOMAIN TableOf :
          /\ Is(Peek(0), type)
          /\ \/ \E v \in {{}} \cup {{o} : o \in Get(Peek(0), TableOf[type])} :
                   Perform([a |-> v], <<Drop(1), Push("a")>>)
             \/ type = "instance" /\ Room /\ Perform(<<>>, <<Push("a")>>)

BindMethod ==
    /\ Runs("property") /\ Room /\ Operands > 0 /\ Is(Peek(0), "instance")
    /\ \E method \in Get(Get(Peek(0), "class_"), "methods") :
          /\ heap[method].type = "closure"
          /\ Perform([a |-> Peek(0), b |-> {method}],
                     <<New("r", "bound_method", [receiver |-> {"a"}, method |-> {"b"}]), Push("r")>>)

BindNative ==
    /\ Runs("property") /\ Operands > 0 /\ Is(Peek(0), "array")
    /\ Perform([a |-> Peek(0)],
               <<New("r", "bound_native", [receiver |-> {"a"}]), Drop(1), Push("r")>>)

\* OP_SET_PROPERTY.
SetField ==
    /\ Runs("property") /\ Operands > 1
    /\ \E name \in Constants("string") :
       \E field \in {"fields", "values"} :
          /\ Is(Peek(1), IF field = "fields" THEN "instance" ELSE "namespace")
          /\ Perform([a |-> Peek(1), b |-> Peek(0), n |-> {name}],
                     SetEntry("a", field, {"n", "b"}) \o <<Drop(2), Push("b")>>)

\* allocate_array: the array is on the stack while its block grows.
AllocateArray(from) ==
    <<New("r", "array", [values |-> from]), Push("r"), Block, Drop(1)>>

\* OP_MAKE_ARRAY, whose elements stay on the stack.
MakeArray ==
    /\ Runs("array") /\ Room
    /\ \E n \in 0 .. 1 : /\ Operands >= n
                         /\ Perform([a |-> IF n = 0 THEN {} ELSE Peek(0)],
                                    AllocateArray({"a"}) \o <<Drop(n), Push("r")>>)

\* OP_ARRAY_SET and OP_ARRAY_GET. An array is assigned its last operand.
SetElement ==
    /\ Runs("array") /\ Operands > 1 /\ Is(Peek(1), "array")
    /\ Perform([a |-> Peek(1), b |-> Peek(0)], SetEntry("a", "values", {"b"}) \o <<Drop(1)>>)

\* concatenate: the operands stay on the stack until the result is made.
ConcatenateStrings ==
    /\ Runs("add") /\ Operands > 1 /\ Is(Peek(0), "string") /\ Is(Peek(1), "string")
    /\ \E text \in program.made :
          Perform([a |-> Peek(1), b |-> Peek(0)],
                  <<Block, Use({"a", "b"}), Intern("r", text), Drop(2), Push("r")>>)

ConcatenateArrays ==
    /\ Runs("add") /\ Operands > 1 /\ Is(Peek(0), "array") /\ Is(Peek(1), "array")
    /\ Perform([a |-> Get(Peek(0) \cup Peek(1), "values")],
               AllocateArray({"a"}) \o <<Drop(2), Push("r")>>)

\* vm_array_get of a string.
IndexString ==
    /\ Runs("add") /\ Operands > 1 /\ Is(Peek(0), "string") /\ Peek(1) = {}
    /\ \E text \in program.made :
          Perform([a |-> Peek(0)], <<Copy("r", text), Use({"a"}), Drop(2), Push("r")>>)

\* OP_CONV_TYPE: an initialised method, to_str of an array, whose elements' strings
\* only C variables hold, or of another value, or an error: when it was handled, its
\* answer, which is no object, replaces the exception the handler expects.
ToStr(text) == <<Block, Intern("r", text)>>
ElementsToStr ==
    FlattenSeq([i \in 1 .. 2 |-> <<Intern("n", FunctionText), Block, Use({"n"})>>])

Convert ==
    /\ Runs("convert") /\ RoomToGuard /\ Operands > 0
    /\ \E text \in program.made :
          \/ Perform(<<>>, Guarded((IF Is(Peek(0), "array") THEN ElementsToStr ELSE <<>>)
                                   \o ToStr(text) \o <<Drop(1), Push("r")>>))
          \/ Perform(<<>>, Guarded(Error(text) \o <<Drop(1), Push("a")>>))
    \/ /\ Runs("convert") /\ Operands > 0 /\ Is(Peek(0), "instance") /\ Len(frames) < MaxFrames
       /\ \E method \in Get(Get(Peek(0), "class_"), "methods") :
             /\ heap[method].type = "closure"
             /\ Perform([a |-> {method}], Guarded(<<Enter("a", 0)>>))

\* Any instruction that fails, OP_RAISE and OP_MARK_ERRORS_HANDLED.
Fail ==
    /\ Runs("raise")
    /\ \E text \in program.made : Perform(<<>>, Error(text))

Raise ==
    /\ Runs("raise") /\ Operands > 0 /\ Is(Peek(0), "exception")
    /\ Perform([a |-> Peek(0)], <<Drop(1), Throw("a")>>)

MarkHandled ==
    /\ Runs("raise") /\ exception # {}
    /\ exception' = {}
    /\ UNCHANGED <<program, heap_vars, allowed, gc_vars, stack, capacity, frames,
                   globals, open, named, code_vars>>

Instruction ==
    \/ Interpret \/ Import \/ BuildNamespace
    \/ Load \/ SetVariable \/ DefineGlobal \/ Pop \/ Return
    \/ MakeClosure \/ MakeClass \/ DefineMethod \/ InheritMethods
    \/ CallClosure \/ CallBound \/ CallClass \/ CallNative \/ CallBoundNative \/ InvokeArray
    \/ InvokeMethod
    \/ GetField \/ BindMethod \/ BindNative \/ SetField
    \/ MakeArray \/ SetElement \/ ConcatenateStrings \/ ConcatenateArrays \/ IndexString
    \/ Convert \/ Fail \/ Raise \/ MarkHandled
-----------------------------------------------------------------------------
Object(type, text) == [type |-> type, text |-> text, refs |-> [f \in Fields[type] |-> {}]]

\* init_VM: a native function and the strings the VM looks methods up with.
Init ==
    /\ program \in Programs
    /\ heap = <<Object("string", {NativeText}), Object("native", {}),
                Object("string", {InitText}), Object("string", {ModText})>>
    /\ strings = {1, 3, 4} /\ globals = [name \in {1} |-> {2}]
    /\ named = [init_string |-> {3}, mod_string |-> {4}]
    /\ allowed = FALSE /\ phase = "idle" /\ marked = {} /\ grey = {}
    /\ stack = <<>> /\ capacity = StackInitial /\ frames = <<>> /\ open = {}
    /\ exception = {} /\ todo = <<>> /\ local = NoLocals

Next == Collection \/ CodeStep \/ Instruction

Spec == Init /\ [][Next]_vars

\* The VM is one thread: what an instruction's C code has begun, it goes on with.
FairSpec == Spec /\ WF_vars(Collection)

\* Programs that build a namespace have its name among their constants: only a C variable
\* holds the name while the namespace is allocated (vm.c:1008).
NamesItself == \A p \in Programs : "namespace" \in p.code => ModuleText \in p.texts
-----------------------------------------------------------------------------
(* Properties. *)

TypeOK ==
    /\ program \in Programs
    /\ DOMAIN heap \subseteq Obj
    /\ \A o \in DOMAIN heap :
          /\ heap[o].type \in DOMAIN Fields /\ heap[o].text \subseteq Texts
          /\ DOMAIN heap[o].refs = Fields[heap[o].type]
          /\ \A f \in DOMAIN heap[o].refs : heap[o].refs[f] \subseteq Obj
    /\ strings \subseteq Obj /\ marked \subseteq Obj /\ grey \subseteq marked
    /\ allowed \in BOOLEAN /\ phase \in {"idle", "mark", "done"}
    /\ capacity \in Nat /\ Len(stack) <= capacity
    /\ local \in [Registers -> SUBSET Obj]
    /\ \A u \in open : u.slot < Len(stack)
    /\ \A i \in DOMAIN frames : frames[i].base < Len(stack)

\* Nothing the program or the C code running can still refer to has been freed:
\* every object is on the stack or otherwise a root whenever an allocation comes
\* between taking it up and using it.
InUseIsKept == InUse \subseteq DOMAIN heap

\* vm->strings holds every string object there is, but the one being made, and
\* no other; no two have one text. A lookup compares the addresses of names.
StringsAreInterned ==
    LET all == {o \in DOMAIN heap : heap[o].type = "string"}
    IN  /\ strings \subseteq all
        /\ \A s, t \in all : heap[s].text = heap[t].text => s = t
        /\ all # strings =>
              \E o \in all : all = strings \cup {o} /\ \E i \in DOMAIN todo : todo[i].op = "remember"

\* An instruction between its disable_gc and its enable_gc is not interrupted by a
\* collection.
NoCollectionWhileDisabled ==
    phase = "mark" =>
        \A i \in DOMAIN todo : todo[i] = Allow(TRUE) =>
            \E j \in 1 .. i - 1 : todo[j] = Allow(FALSE)

\* A collection frees what can no longer be reached, cycles included, and no more.
CollectionIsExact ==
    [][phase = "mark" /\ phase' = "done" => DOMAIN heap' = Reach(InHand)]_vars

\* Marking ends, on cyclic structures too.
CollectionEnds == (phase = "mark") ~> (phase = "done")
===============================================================================
