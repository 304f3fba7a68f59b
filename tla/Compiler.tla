------------------------------ MODULE Compiler ------------------------------
(***************************************************************************)
(* The single-pass compiler of canidae (src/compiler.c) at work on any     *)
(* source of a bounded size: one action per declaration or statement of    *)
(* the grammar for the code it emits before its nested statements, and one *)
(* for what it does when they end.  compilers is the chain of compilers of *)
(* the functions being compiled, innermost last; parsing is the stack of   *)
(* the parser's calls that wait for a nested statement, with the addresses *)
(* they hold in C locals.  Expressions are one operator deep.              *)
(*                                                                         *)
(* scopes is a ghost: the declarations in force, scope by scope, as the    *)
(* source nests, which the compiler's arrays of locals must agree with.    *)
(***************************************************************************)
EXTENDS Bytecode, FiniteSets, SequencesExt, FiniteSetsExt

CONSTANTS
    UINT8_MAX,  \* 255 in the code: operands and counts of one byte
    Sources     \* what the source may hold: [type, names, kinds, expressions,
                \*  params, counts, items, nesting, orderly]

ASSUME ByteIsPositive == UINT8_MAX \in Nat \ {0}

(* Identifiers: no keywords, and none of the names the model itself uses.  *)
IsName(x) == x \notin {"", "this", "super", "none", "expression"}

Forms == {"literal", "read", "=", "+=", "??=", "unary", "binary", "and", "or", "??", "call", "invoke",
          "array", "super", "superCall"}

ASSUME SourcesAreSources ==
    \A s \in Sources :
        /\ s.type \in {"script", "module"} /\ s.orderly \in BOOLEAN
        /\ \A x \in s.names : IsName(x)
        /\ \A params \in s.params : params \in Seq(s.names)
        /\ \A e \in s.expressions :
              /\ e.form \in Forms /\ e.target \in {"variable", "property", "element"}
              /\ e.name \in s.names \cup {"this"} /\ e.n \in Nat
        /\ s.counts \subseteq Nat

VARIABLES
    source,     \* the element of Sources the source belongs to
    compilers, parsing, scopes,
    items,      \* declarations and statements begun
    status,     \* "compiling", "compiled" or "failed"
    function    \* what end_compiler returned last: the function and its code

vars == <<source, compilers, parsing, scopes, items, status, function>>

Global == <<>>   \* what a name that no declaration in force binds denotes

(***************************************************************************)
(* A function's compiler.                                                  *)
(***************************************************************************)

Local(name, depth, id) == [name |-> name, depth |-> depth, captured |-> FALSE, id |-> id]

Receiver(type) == IF type \in {"method", "initialiser"} THEN "this" ELSE ""

NewCompiler(type, classes, level) ==
    [type |-> type, arity |-> 0, locals |-> <<Local(Receiver(type), 0, <<level, 0, "this">>)>>,
     depth |-> 0, loops |-> <<>>, upvalues |-> <<>>, classes |-> classes,
     exports |-> <<>>, code |-> <<>>, marks |-> {}]

Here(c) == Len(c.code) + 1
Emit(c, code) == [c EXCEPT !.code = @ \o code]
Plain(op, n) == Instruction(op, n, Nowhere, Global)
Op(op) == Plain(op, 0)
Goto(op, to) == Instruction(op, 0, to, Global)
Const == Op("CONSTANT")

(* A forward jump is emitted without its target; patching makes it the     *)
(* end of the code.                                                        *)
PatchJump(c, at) == [c EXCEPT !.code[at].to = Here(c)]
PatchJumps(c, ats) ==
    [c EXCEPT !.code = [pc \in DOMAIN c.code |->
        IF pc \in ToSet(ats) THEN [c.code[pc] EXCEPT !.to = Here(c)] ELSE c.code[pc]]]

(* A ghost: a statement begins here with these locals on the stack.        *)
Mark(c) == [c EXCEPT !.marks = @ \cup {<<Here(c), Len(c.locals)>>}]

(***************************************************************************)
(* Scopes and locals.                                                      *)
(***************************************************************************)

IsGlobalScope(c) == c.depth = 0 /\ c.type # "module"

BeginScope(c) == [c EXCEPT !.depth = @ + 1]

(* Fault: the number of values to pop is cut to a byte.                    *)
PopN_InOneByte(n) == IF n = 0 THEN <<>> ELSE <<Plain("POPN", n % (UINT8_MAX + 1))>>

(* n values are popped 255 at a time.                                      *)
PopN(n) == [k \in 1..((n + UINT8_MAX - 1) \div UINT8_MAX) |->
               Plain("POPN", Min({UINT8_MAX, n - (k - 1) * UINT8_MAX}))]

DeeperThan(c, depth) == {i \in DOMAIN c.locals : c.locals[i].depth > depth}

(* Fault: a scope's end closes nothing.                                    *)
PopsOf_NoneClosed(locals) == PopN(Len(locals))

(* The pops of a scope's locals, the top one first, captured ones singly.  *)
PopsOf(locals) ==
    LET below(i) == Max({j \in 1..i : locals[j].captured} \cup {0})
        pops[i \in 0..Len(locals)] ==
            CASE i = 0 -> <<>>
              [] i > 0 /\ locals[i].captured -> <<Op("CLOSE_UPVALUE")>> \o pops[i - 1]
              [] OTHER -> PopN(i - below(i)) \o pops[below(i)]
    IN pops[Len(locals)]

(* Fault: the locals of a scope that ended are still found.                *)
EndScope_LocalsKept(c) ==
    Emit([c EXCEPT !.depth = @ - 1],
         PopsOf([i \in 1..Cardinality(DeeperThan(c, c.depth - 1)) |->
                    c.locals[Len(c.locals) - Cardinality(DeeperThan(c, c.depth - 1)) + i]]))

EndScope(c) ==
    LET kept == Len(c.locals) - Cardinality(DeeperThan(c, c.depth - 1))
    IN Emit([c EXCEPT !.depth = @ - 1, !.locals = SubSeq(@, 1, kept)],
            PopsOf(SubSeq(c.locals, kept + 1, Len(c.locals))))

(* A name may be declared again in an inner scope only.                    *)
InThisScope(c) == {i \in DOMAIN c.locals : c.locals[i].depth \in {-1, c.depth}}
CanDeclare(c, name) ==
    IsGlobalScope(c) \/ \A i \in InThisScope(c) : c.locals[i].name # name

(* Where a declaration is, which tells it from the others in force.        *)
Declaration(name) == <<Len(compilers), Here(Last(compilers)), name>>

DeclareVariable(c, name, id) ==
    IF IsGlobalScope(c) THEN c ELSE [c EXCEPT !.locals = Append(@, Local(name, -1, id))]

MarkInitialised(c) ==
    IF IsGlobalScope(c) THEN c ELSE [c EXCEPT !.locals[Len(c.locals)].depth = c.depth]

(* Fault: what is exported is the slot behind the variable's.              *)
DefineVariable_NextSlot(c, name) ==
    CASE c.depth > 0 -> MarkInitialised(c)
      [] c.depth = 0 /\ c.type = "module" ->
            [MarkInitialised(c) EXCEPT !.exports = Append(@, [slot |-> Len(c.locals), name |-> name])]
      [] OTHER -> Emit(c, <<Op("DEFINE_GLOBAL")>>)

DefineVariable(c, name) ==
    CASE c.depth > 0 -> MarkInitialised(c)
      [] c.depth = 0 /\ c.type = "module" ->
            [MarkInitialised(c) EXCEPT !.exports = Append(@, [slot |-> Len(c.locals) - 1, name |-> name])]
      [] OTHER -> Emit(c, <<Op("DEFINE_GLOBAL")>>)

(***************************************************************************)
(* What a name stands for.                                                 *)
(***************************************************************************)

(* The innermost local of a name, 0 for none; slots count from 0.          *)
FindLocal(c, name) == Max({i \in DOMAIN c.locals : c.locals[i].name = name} \cup {0})

(* Fault: an upvalue is taken for another one of the same index.           *)
SameUpvalue_Index(u, v) == u.index = v.index

SameUpvalue(u, v) == u.index = v.index /\ u.isLocal = v.isLocal

Known(c, u) == {i \in DOMAIN c.upvalues : SameUpvalue(c.upvalues[i], u)}
AddUpvalue(c, u) == IF Known(c, u) = {} THEN [c EXCEPT !.upvalues = Append(@, u)] ELSE c
UpvalueIndex(c, u) == Min(Known(c, u)) - 1

(* The nearest enclosing function with a local of that name.               *)
Owner(cs, name) == Max({k \in 1..(Len(cs) - 1) : FindLocal(cs[k], name) > 0} \cup {0})

(* One link of the chain of upvalues from a variable's function inwards.   *)
Link(chain, k) ==
    LET u == [index |-> chain.index, isLocal |-> k = chain.owner + 1]
        c == AddUpvalue(chain.cs[k], u)
    IN [cs |-> [chain.cs EXCEPT ![k] = c], index |-> UpvalueIndex(c, u), owner |-> chain.owner]

(* The chain from local i of function k, as far as each function inside it. *)
Chain(cs, k, i) ==
    LET to[j \in k..Len(cs)] ==
            IF j = k
            THEN [cs |-> [cs EXCEPT ![k].locals[i].captured = TRUE], index |-> i - 1, owner |-> k]
            ELSE Link(to[j - 1], j)
    IN to

(* Where the code finds a name, the compilers with the upvalues that takes,*)
(* and whether the name may be used: not in its own initialiser.           *)
Resolve(cs, name) ==
    LET own == FindLocal(Last(cs), name)
        k == Owner(cs, name)
        i == FindLocal(cs[k], name)
        chain == Chain(cs, k, i)[Len(cs)]
    IN CASE own > 0 -> [where |-> "local", n |-> own - 1, cs |-> cs, ok |-> Last(cs).locals[own].depth # -1]
         [] own = 0 /\ k > 0 -> [where |-> "upvalue", n |-> chain.index, cs |-> chain.cs,
                                 ok |-> cs[k].locals[i].depth # -1]
         [] OTHER -> [where |-> "global", n |-> 0, cs |-> cs, ok |-> TRUE]

(* The ghost's answer: the innermost scope that binds the name, in the     *)
(* innermost function that has one.                                        *)
Binding(scope, name) == {d \in DOMAIN scope : name \in DOMAIN scope[d]}
Denoted(ss, name) ==
    LET functions == {k \in DOMAIN ss : Binding(ss[k], name) # {}}
        scope == ss[Max(functions)]
    IN IF functions = {} THEN Global ELSE scope[Max(Binding(scope, name))][name]

GetOp == [local |-> "GET_LOCAL", upvalue |-> "GET_UPVALUE", global |-> "GET_GLOBAL"]
SetOp == [local |-> "SET_LOCAL", upvalue |-> "SET_UPVALUE", global |-> "SET_GLOBAL"]
Get(r, name) == Instruction(GetOp[r.where], r.n, Nowhere, Denoted(scopes, name))
Set(r, name) == Instruction(SetOp[r.where], r.n, Nowhere, Denoted(scopes, name))

(***************************************************************************)
(* Expressions, one operator deep: [form, target, name, n], where n counts *)
(* arguments or elements.  Each leaves one value.                          *)
(***************************************************************************)

Literals(n) == [k \in 1..n |-> Const]

(* What can be assigned to: the code that finds the place, the one that    *)
(* reads it and leaves the place on the stack, and the one that writes it. *)
Place(e, r) ==
    CASE e.target = "variable" -> [find |-> <<>>, keep |-> Get(r, e.name), set |-> Set(r, e.name)]
      [] e.target = "property" -> [find |-> <<Get(r, e.name)>>, keep |-> Op("GET_PROPERTY_KEEP_REF"),
                                   set |-> Op("SET_PROPERTY")]
      [] e.target = "element" -> [find |-> <<Get(r, e.name), Const>>, keep |-> Op("ARRAY_GET_KEEP_REF"),
                                  set |-> Op("ARRAY_SET")]

Read(e, r) ==
    CASE e.target = "variable" -> <<Get(r, e.name)>>
      [] e.target = "property" -> <<Get(r, e.name), Op("GET_PROPERTY")>>
      [] e.target = "element" -> <<Get(r, e.name), Const, Op("ARRAY_GET")>>

(* An operand that a jump skips if the one before it decides: at is the    *)
(* address of the jump, and what is skipped follows the jump's POP.        *)
Unless(jump, at, skipped) == <<Goto(jump, at + Len(skipped) + 2), Op("POP")>> \o skipped

HandleAssignment(e, r, at) ==
    LET p == Place(e, r)
    IN CASE e.form = "=" -> p.find \o <<Const, p.set>>
         [] e.form = "+=" -> p.find \o <<p.keep, Const, Op("BINARY"), p.set>>
         [] e.form = "??=" -> p.find \o <<p.keep>>
               \o Unless("JUMP_IF_NOT_NULL", at + Len(p.find) + 1, <<Const, p.set>>)

(* An expression's code when its name is found at r, from address at on.   *)
Code(e, r, at) ==
    CASE e.form = "literal" -> <<Const>>
      [] e.form = "read" -> Read(e, r)
      [] e.form \in {"=", "+=", "??="} -> HandleAssignment(e, r, at)
      [] e.form = "unary" -> <<Get(r, e.name), Op("UNARY")>>
      [] e.form = "binary" -> <<Get(r, e.name), Const, Op("BINARY")>>
      [] e.form = "and" -> <<Get(r, e.name)>> \o Unless("JUMP_IF_FALSE", at + 1, <<Const>>)
      [] e.form = "or" -> <<Get(r, e.name)>> \o Unless("JUMP_IF_TRUE", at + 1, <<Const>>)
      [] e.form = "??" -> <<Get(r, e.name)>> \o Unless("JUMP_IF_NOT_NULL", at + 1, <<Const>>)
      [] e.form = "call" -> <<Get(r, e.name)>> \o Literals(e.n) \o <<Plain("CALL", e.n)>>
      [] e.form = "invoke" -> <<Get(r, e.name)>> \o Literals(e.n) \o <<Plain("INVOKE", e.n)>>
      [] e.form = "array" -> Literals(e.n) \o <<Const, Plain("MAKE_ARRAY", e.n)>>

InClass(c) == c.classes # <<>>
InSubclass(c) == InClass(c) /\ Last(c.classes)

(* this and super are looked up like variables, this first; both are       *)
(* errors outside a class, super in one that inherits nothing.             *)
Super(cs, e) ==
    LET this == Resolve(cs, "this")
        super == Resolve(this.cs, "super")
    IN [cs |-> super.cs, ok |-> InSubclass(Last(cs)) /\ e.n <= UINT8_MAX,
        code |-> IF e.form = "super"
                 THEN <<Get(this, "this"), Get(super, "super"), Op("GET_SUPER")>>
                 ELSE <<Get(this, "this")>> \o Literals(e.n)
                      \o <<Get(super, "super"), Plain("INVOKE_SUPER", e.n)>>]

(* The compilers after an expression, its code emitted, and whether it is  *)
(* free of errors.                                                         *)
Expression(cs, e) ==
    LET r == Resolve(cs, e.name)
        named == [cs |-> r.cs, code |-> Code(e, r, Here(Last(cs))),
                  ok |-> /\ r.ok
                         /\ e.name = "this" => InClass(Last(cs))
                         /\ e.form \in {"call", "invoke"} => e.n <= UINT8_MAX]
        x == IF e.form \in {"super", "superCall"} THEN Super(cs, e) ELSE named
    IN [cs |-> [x.cs EXCEPT ![Len(cs)] = Emit(@, x.code)], ok |-> x.ok]

(* The condition of a loop or an if: any expression leaves one value.      *)
Condition == <<Const>>

(***************************************************************************)
(* The parser's calls.                                                     *)
(***************************************************************************)

At(name) ==
    [at |-> name, done |-> FALSE, jump |-> Nowhere, start |-> Nowhere, exit |-> Nowhere,
     initial |-> Nowhere, out |-> Nowhere, name |-> "none"]
AtLoop(name, start, exit) == [[At(name) EXCEPT !.start = start] EXCEPT !.exit = exit]

Init ==
    /\ source \in Sources
    /\ compilers = <<NewCompiler(source.type, <<>>, 1)>>
    /\ parsing = <<At("program")>>
    /\ scopes = << << <<>> >> >>
    /\ items = 0
    /\ status = "compiling"
    /\ function = compilers[1]

Current == Last(compilers)
With(cs, top) == [cs EXCEPT ![Len(cs)] = top]
Open == Last(parsing)

(* Where any number of declarations may stand; elsewhere one statement.    *)
Lists == {"program", "block", "body"}
Started == IF Open.at \in Lists THEN parsing ELSE [parsing EXCEPT ![Len(parsing)].done = TRUE]
Waiting(at) == Append(Started, at)

(* A scope opens with the names in it, one more is bound, the scope ends.  *)
Only(name, id) == [x \in {name} |-> id]
Opened(ss, scope) == With(ss, Append(Last(ss), scope))
Bind(scope, name, id) == [x \in DOMAIN scope \cup {name} |-> IF x = name THEN id ELSE scope[x]]
Bound(name) ==
    IF IsGlobalScope(Current) THEN scopes
    ELSE With(scopes, With(Last(scopes), Bind(Last(Last(scopes)), name, Declaration(name))))
Left(ss) == With(ss, Front(Last(ss)))

(* No closure names one of the locals past the 255th.                      *)
NearCaptures(cs) == \A k \in DOMAIN cs : \A u \in ToSet(cs[k].upvalues) : u.index <= UINT8_MAX

(* A declaration or a statement begins: its code is emitted, or the        *)
(* compilation fails and what is emitted from here on is dropped.          *)
Begin(kind, ok, cs, ps, ss) ==
    /\ status = "compiling" /\ kind \in source.kinds
    /\ items < source.items /\ items' = items + 1
    /\ Len(ps) <= source.nesting
    /\ ok /\ source.orderly => NearCaptures(cs)
    /\ IF ok THEN compilers' = cs /\ parsing' = ps /\ scopes' = ss /\ UNCHANGED status
             ELSE status' = "failed" /\ UNCHANGED <<compilers, parsing, scopes>>
    /\ UNCHANGED <<source, function>>

Declare(kind, ok, cs, ps, ss) == Open.at \in Lists /\ Begin(kind, ok, cs, ps, ss)
Statement(kind, ok, cs, ps, ss) == Open.at # "class" /\ ~Open.done /\ Begin(kind, ok, cs, ps, ss)

(* A statement that waited for a nested one goes on.                       *)
Resume(at, ok, top, ps, ss) ==
    /\ status = "compiling" /\ Open.at = at /\ (at \in Lists \cup {"class"} \/ Open.done)
    /\ IF ok THEN compilers' = With(compilers, top) /\ parsing' = ps /\ scopes' = ss /\ UNCHANGED status
             ELSE status' = "failed" /\ UNCHANGED <<compilers, parsing, scopes>>
    /\ UNCHANGED <<source, items, function>>

Marked == With(compilers, Mark(Current))

(***************************************************************************)
(* Statements without nested statements.                                   *)
(***************************************************************************)

EmitTo(cs, code) == With(cs, Emit(Last(cs), code))

VarDeclaration(name, e) ==
    LET id == Declaration(name)
        declared == With(Marked, DeclareVariable(Last(Marked), name, id))
        x == Expression(declared, e)
    IN Declare("let", CanDeclare(Current, name) /\ x.ok,
               With(x.cs, DefineVariable(Last(x.cs), name)), Started, Bound(name))

(* An expression followed by what the statement does with its value.       *)
Uses == [expression |-> <<Op("POP")>>, print |-> <<Op("UNARY"), Op("PRINT")>>, raise |-> <<Op("RAISE")>>]
Use(kind, e) ==
    LET x == Expression(Marked, e)
    IN Statement(kind, x.ok, EmitTo(x.cs, Uses[kind]), Started, scopes)

EmitReturn(f) ==
    IF f.type = "initialiser"
    THEN <<Instruction("GET_LOCAL", 0, Nowhere, f.locals[1].id), Op("RETURN")>>
    ELSE <<Const, Op("RETURN")>>

ReturnStatement(hasValue) ==
    Statement("return", Current.type \notin {"script", "module"} /\ ~(hasValue /\ Current.type = "initialiser"),
          EmitTo(Marked, IF hasValue THEN <<Const, Op("RETURN")>> ELSE EmitReturn(Current)),
          Started, scopes)

(* The file's name is evaluated first: it becomes the module's variable.   *)
ImportStatement(name) ==
    LET named == Emit(Last(Marked), <<Const>>)
        declared == DeclareVariable(named, name, Declaration(name))
    IN /\ source.orderly => Open.at \in Lists
       /\ Statement("import", CanDeclare(Current, name),
                With(Marked, DefineVariable(Emit(declared, <<Op("IMPORT")>>), name)),
                Started, Bound(name))

(* Fault: the scope of the loop itself is left too.                        *)
ExitLoopScope_OneMore(top) ==
    Emit(top, PopN(Cardinality(DeeperThan(top, Last(top.loops).depth - 1))))

(* A ghost: the pop belongs to a break or a continue.                      *)
Leaving == <<"leaving">>

(* Leaving a loop's body pops the locals declared in it, captured or not;  *)
(* they stay in scope for what follows.                                    *)
ExitLoopScope(top) ==
    LET pops == PopN(Cardinality(DeeperThan(top, Last(top.loops).depth)))
    IN Emit(top, [k \in DOMAIN pops |-> [pops[k] EXCEPT !.means = Leaving]])

InLoop == Current.loops # <<>>

BreakStatement ==
    LET out == ExitLoopScope(Last(Marked))
        top == [Emit(out, <<Goto("JUMP", Nowhere)>>) EXCEPT
                   !.loops[Len(out.loops)].breaks = Append(@, Here(out))]
    IN Statement("break", InLoop, With(Marked, top), Started, scopes)

(* The condition of a do loop is yet to come: continue jumps forward there.*)
ContinueStatement ==
    LET out == ExitLoopScope(Last(Marked))
        start == Last(Current.loops).continue
        top == IF start = Nowhere
               THEN [Emit(out, <<Goto("JUMP", Nowhere)>>) EXCEPT
                        !.loops[Len(out.loops)].continues = Append(@, Here(out))]
               ELSE Emit(out, <<Goto("LOOP", start)>>)
    IN Statement("continue", InLoop, With(Marked, top), Started, scopes)

(***************************************************************************)
(* Blocks, conditions and loops.                                           *)
(***************************************************************************)

BeginBlock ==
    Statement("block", TRUE, With(Marked, BeginScope(Last(Marked))),
              Waiting(At("block")), Opened(scopes, <<>>))

EndBlock == Resume("block", TRUE, EndScope(Current), Front(parsing), Left(scopes))

IfStatement ==
    LET tested == Emit(Last(Marked), Condition)
        top == Emit(tested, <<Goto("JUMP_IF_FALSE", Nowhere), Op("POP")>>)
    IN Statement("if", TRUE, With(Marked, top),
                 Waiting([At("then") EXCEPT !.jump = Here(tested)]), scopes)

EndThen(hasElse) ==
    LET jump == Here(Current)
        left == Emit(Current, <<Goto("JUMP", Nowhere)>>)
        otherwise == Emit(PatchJump(left, Open.jump), <<Op("POP")>>)
    IN IF hasElse
       THEN Resume("then", TRUE, otherwise, Append(Front(parsing), [At("else") EXCEPT !.jump = jump]), scopes)
       ELSE Resume("then", TRUE, PatchJump(otherwise, jump), Front(parsing), scopes)

EndElse == Resume("else", TRUE, PatchJump(Current, Open.jump), Front(parsing), scopes)

PushLoop(top, continue) ==
    [top EXCEPT !.loops = Append(@, [continue |-> continue, depth |-> top.depth,
                                     breaks |-> <<>>, continues |-> <<>>])]

(* Fault: the jumps of break are left as they were emitted.                *)
LeaveLoop_NoBreaks(top) == [top EXCEPT !.loops = Front(@)]

(* patch_breaks, pop_loop_stack.                                           *)
LeaveLoop(top) == [PatchJumps(top, Last(top.loops).breaks) EXCEPT !.loops = Front(@)]

(* The end of a loop: back to its start, and the way out of its condition. *)
Repeat(top, start, exit) ==
    LET back == Emit(top, <<Goto("LOOP", start)>>)
    IN IF exit = Nowhere THEN back ELSE Emit(PatchJump(back, exit), <<Op("POP")>>)

(* A condition and the jump that leaves when it is false.                  *)
Guard(top) == Emit(top, Condition \o <<Goto("JUMP_IF_FALSE", Nowhere), Op("POP")>>)
GuardJump(top) == Here(top) + Len(Condition)

WhileStatement ==
    LET top == PushLoop(Last(Marked), Here(Current))
    IN Statement("while", TRUE, With(Marked, Guard(top)),
                 Waiting(AtLoop("while", Here(Current), GuardJump(top))), scopes)

EndWhile == Resume("while", TRUE, LeaveLoop(Repeat(Current, Open.start, Open.exit)), Front(parsing), scopes)

DoStatement ==
    Statement("do", TRUE, With(Marked, PushLoop(Last(Marked), Nowhere)),
              Waiting([At("do") EXCEPT !.start = Here(Current)]), scopes)

EndDo ==
    LET body == PatchJumps(Current, Last(Current.loops).continues)
    IN Resume("do", TRUE, LeaveLoop(Repeat(Guard(body), Open.start, GuardJump(body))), Front(parsing), scopes)

(* What a for loop begins with: nothing, a declaration or an expression.   *)
Initialised(top, name, id) ==
    CASE name = "none" -> top
      [] name = "expression" -> Emit(top, <<Const, Op("POP")>>)
      [] OTHER -> DefineVariable(Emit(DeclareVariable(top, name, id), <<Const>>), name)

(* The increment is emitted before the body, which jumps back to it; it    *)
(* jumps back to the condition.                                            *)
ForStatement(name, hasCondition, hasIncrement) ==
    LET id == Declaration(name)
        first == Initialised(BeginScope(Last(Marked)), name, id)
        tested == IF hasCondition THEN Guard(first) ELSE first
        increment == Here(tested) + 1
        stepped == Emit(tested, <<Goto("JUMP", increment + 3), Const, Op("POP"),
                                  Goto("LOOP", Here(first))>>)
        start == IF hasIncrement THEN increment ELSE Here(first)
        top == PushLoop(IF hasIncrement THEN stepped ELSE tested, start)
    IN Statement("for", TRUE, With(Marked, top),
                 Waiting(AtLoop("for", start, IF hasCondition THEN GuardJump(first) ELSE Nowhere)),
                 Opened(scopes, IF name \in source.names THEN Only(name, id) ELSE <<>>))

(* Fault: the loop's variable is popped before the place breaks jump to.   *)
EndFor_BreaksLast ==
    LET body == Repeat(Current, Open.start, Open.exit)
        ended == EndScope(body)
    IN Resume("for", TRUE, LeaveLoop(ended), Front(parsing), Left(scopes))

EndFor ==
    Resume("for", TRUE, EndScope(LeaveLoop(Repeat(Current, Open.start, Open.exit))),
           Front(parsing), Left(scopes))

(***************************************************************************)
(* Try statements.                                                         *)
(***************************************************************************)

(* The error types are evaluated after the body in the code and before it  *)
(* in time: the first jump goes there and a loop comes back.               *)
TryStatement ==
    LET top == BeginScope(Emit(Last(Marked),
                 <<Goto("JUMP", Nowhere), Plain("REGISTER_CATCH", 0)>>))
    IN Statement("try", TRUE, With(Marked, top),
                 Waiting([At("try") EXCEPT !.initial = Here(Current)]), Opened(scopes, <<>>))

(* The catcher's operands: how many error types, and where the handler is. *)
SetCatch(top, register, n) ==
    PatchJump([top EXCEPT !.code[register].n = n], register)

(* The end of a try statement, for its body and for its handler.           *)
EndHandler(top, out) ==
    LET exit == Here(top)
        left == Emit(top, <<Goto("JUMP", Nowhere)>>)
        after == Emit(PatchJump(left, out), <<Op("UNREGISTER_CATCH")>>)
    IN Emit(PatchJump(after, exit), <<Op("MARK_ERRORS_HANDLED")>>)

Caught(top, initial, n) ==
    LET errors == Emit(PatchJump(top, initial), Literals(n))
    IN SetCatch(Emit(errors, <<Goto("LOOP", initial + 1)>>), initial + 1, n)

(* Without a catch clause every exception is caught and dropped.           *)
EndTryWithoutCatch ==
    LET ended == EndScope(Current)
        top == Caught(Emit(ended, <<Goto("JUMP", Nowhere)>>), Open.initial, 0)
    IN Resume("try", TRUE, EndHandler(Emit(top, <<Op("POP")>>), Here(ended)), Front(parsing), Left(scopes))

(* The exception is on the stack where the handler's first local goes; more *)
(* than 255 error types are an error.                                      *)
CatchClause(n, name) ==
    LET ended == EndScope(Current)
        top == Caught(BeginScope(Emit(ended, <<Goto("JUMP", Nowhere)>>)), Open.initial, n)
        id == <<Len(compilers), Here(top), name>>
        bound == IF name = "none" THEN Emit(top, <<Op("POP")>>)
                 ELSE DefineVariable(DeclareVariable(top, name, id), name)
    IN Resume("try", n <= UINT8_MAX, bound, Append(Front(parsing), [At("handler") EXCEPT !.out = Here(ended)]),
              Opened(Left(scopes), IF name = "none" THEN <<>> ELSE Only(name, id)))

EndCatch == Resume("handler", TRUE, EndHandler(EndScope(Current), Open.out), Front(parsing), Left(scopes))

(***************************************************************************)
(* Functions, classes and the end of the source.                           *)
(***************************************************************************)

(* Fault: the low byte is taken one short.                                 *)
Descriptors_OneShort(upvalues) ==
    [i \in DOMAIN upvalues |-> [upvalues[i] EXCEPT !.index = @ % UINT8_MAX]]

(* A descriptor's index is written as its low byte after two zero bytes.   *)
Descriptors(upvalues) ==
    [i \in DOMAIN upvalues |-> [upvalues[i] EXCEPT !.index = @ % (UINT8_MAX + 1)]]

(* A function's compiler begins: its parameters are its first locals.      *)
Parameters(type, classes, params) ==
    LET level == Len(compilers) + 1
        empty == MarkInitialised(BeginScope(NewCompiler(type, classes, level)))
    IN [empty EXCEPT !.arity = Len(params),
                     !.locals = @ \o [i \in DOMAIN params |->
                                         Local(params[i], empty.depth, <<level, 1, params[i]>>)]]

(* The scopes of a function: an empty one, and that of its parameters.     *)
ParameterScopes(type, params) ==
    LET level == Len(compilers) + 1
        names == ToSet(params) \cup (IF Receiver(type) = "this" THEN {"this"} ELSE {})
    IN << <<>>, [x \in names |-> IF x = "this" THEN <<level, 0, x>> ELSE <<level, 1, x>>] >>

GoodParameters(params) == IsInjective(params) /\ Len(params) <= UINT8_MAX

FunctionDeclaration(name, params) ==
    LET declared == MarkInitialised(DeclareVariable(Last(Marked), name, Declaration(name)))
    IN Declare("function", CanDeclare(Current, name) /\ GoodParameters(params),
               Append(With(Marked, declared), Parameters("function", Current.classes, params)),
               Waiting([At("body") EXCEPT !.name = name]),
               Append(Bound(name), ParameterScopes("function", params)))

(* Methods are compiled in the class body, without marks of their own.     *)
Method(type, params) ==
    /\ Open.at = "class"
    /\ Begin("method", GoodParameters(params),
             Append(compilers, Parameters(type, Current.classes, params)),
             Append(parsing, At("body")),
             Append(scopes, ParameterScopes(type, params)))

(* end_compiler and what the enclosing function does with the closure.     *)
EndFunction ==
    LET callee == Emit(Mark(Current), EmitReturn(Current))
        rest == Front(compilers)
        top == Emit(Last(rest), <<Closure(Descriptors(callee.upvalues), Global)>>)
    IN /\ status = "compiling" /\ Open.at = "body"
       /\ function' = callee
       /\ compilers' = With(rest, IF Open.name = "none" THEN Emit(top, <<Op("METHOD")>>)
                                  ELSE DefineVariable(top, Open.name))
       /\ parsing' = Front(parsing) /\ scopes' = Front(scopes)
       /\ UNCHANGED <<source, items, status>>

(* A name read when the scopes are ss.                                     *)
NamedVariable(cs, ss, name) ==
    LET r == Resolve(cs, name)
    IN [cs |-> r.cs, ok |-> r.ok,
        get |-> Instruction(GetOp[r.where], r.n, Nowhere, Denoted(ss, name))]

(* A class, which its methods are added to on the stack.                   *)
ClassDeclaration(name) ==
    LET declared == DeclareVariable(Last(Marked), name, Declaration(name))
        made == DefineVariable(Emit(declared, <<Op("CLASS")>>), name)
        inner == With(Marked, [made EXCEPT !.classes = Append(@, FALSE)])
    IN Declare("class", CanDeclare(Current, name),
               EmitTo(inner, <<NamedVariable(inner, Bound(name), name).get>>),
               Waiting(At("class")), Bound(name))

(* A class with a superclass, which a scope of its own holds as super.     *)
Subclass(name, superclass) ==
    LET declared == DeclareVariable(Last(Marked), name, Declaration(name))
        made == DefineVariable(Emit(declared, <<Op("CLASS")>>), name)
        parent == NamedVariable(With(Marked, made), Bound(name), superclass)
        held == Emit(Last(parent.cs), <<parent.get>>)
        id == <<Len(compilers), Here(held), "super">>
        scope == MarkInitialised(DeclareVariable(BeginScope(held), "super", id))
        inner == With(parent.cs, [scope EXCEPT !.classes = Append(@, TRUE)])
        self == NamedVariable(inner, Bound(name), name).get
    IN Declare("class", CanDeclare(Current, name) /\ parent.ok /\ superclass # name,
               EmitTo(inner, <<self, Op("INHERIT"), self>>),
               Waiting(At("class")), Opened(Bound(name), Only("super", id)))

EndClass ==
    LET popped == Emit([Current EXCEPT !.classes = Front(@)], <<Op("POP")>>)
    IN \/ InSubclass(Current) /\ Resume("class", TRUE, EndScope(popped), Front(parsing), Left(scopes))
       \/ ~InSubclass(Current) /\ Resume("class", TRUE, popped, Front(parsing), scopes)

(* A module returns a namespace of its exports, at most 255.               *)
EndProgram ==
    LET ended == Mark(Current)
        top == IF Current.type = "module"
               THEN Emit(ended, <<Op("BUILD_NAMESPACE"), Op("RETURN")>>)
               ELSE Emit(ended, EmitReturn(Current))
    IN /\ status = "compiling" /\ Open.at = "program"
       /\ IF Current.type = "module" /\ Len(Current.exports) > UINT8_MAX
          THEN status' = "failed" /\ UNCHANGED <<compilers, function>>
          ELSE status' = "compiled" /\ compilers' = <<top>> /\ function' = top
       /\ UNCHANGED <<source, parsing, scopes, items>>

Next ==
    \/ \E x \in source.names, e \in source.expressions : VarDeclaration(x, e)
    \/ \E kind \in DOMAIN Uses, e \in source.expressions : Use(kind, e)
    \/ \E v \in BOOLEAN : ReturnStatement(v)
    \/ \E x \in source.names : ImportStatement(x)
    \/ BreakStatement \/ ContinueStatement
    \/ BeginBlock \/ EndBlock
    \/ IfStatement \/ (\E v \in BOOLEAN : EndThen(v)) \/ EndElse
    \/ WhileStatement \/ EndWhile \/ DoStatement \/ EndDo
    \/ \E x \in source.names \cup {"none", "expression"}, cond, inc \in BOOLEAN : ForStatement(x, cond, inc)
    \/ EndFor
    \/ TryStatement \/ EndTryWithoutCatch \/ EndCatch
    \/ \E n \in source.counts, x \in source.names \cup {"none"} : CatchClause(n, x)
    \/ \E x \in source.names, params \in source.params : FunctionDeclaration(x, params)
    \/ \E type \in {"method", "initialiser"}, params \in source.params : Method(type, params)
    \/ EndFunction
    \/ (\E x \in source.names : ClassDeclaration(x)) \/ (\E x, y \in source.names : Subclass(x, y))
    \/ EndClass \/ EndProgram

Spec == Init /\ [][Next]_vars

(***************************************************************************)
(* Properties.                                                             *)
(***************************************************************************)

(* Type correctness: initialised locals lie in scopes that are open, in    *)
(* the order of their depths, and only compilers of functions nest.        *)
TypeOK ==
    /\ status \in {"compiling", "compiled", "failed"}
    /\ \A k \in DOMAIN compilers :
         LET f == compilers[k] IN
         /\ f.type \in {"script", "module", "function", "method", "initialiser"}
         /\ (k = 1) <=> f.type \in {"script", "module"}
         /\ \A i, j \in DOMAIN f.locals :
               i <= j => f.locals[i].depth <= f.locals[j].depth /\ f.locals[j].depth \in 0..f.depth
         /\ \A l \in ToSet(f.loops) : l.depth \in 0..f.depth
    /\ status # "compiled" => Len(Front(parsing)) + 1 >= Len(compilers)

(* All ways to run the function that was compiled last.                    *)
Analysis == Reached(function.code, function.arity + 1)

(* Every instruction is reached with one height of the stack, whichever    *)
(* way control comes to it, and where a statement begins it is the number  *)
(* of locals the compiler counted: their slots are their indices.  Control *)
(* stays in the code: all jumps are patched.                               *)
HeightsMeet ==
    function.code # <<>> =>
        LET reached == Analysis
        IN \A a \in reached :
            /\ a.pc \in DOMAIN function.code
            /\ \A b \in reached : a.pc = b.pc => a.height = b.height
            /\ \A m \in function.marks : m[1] = a.pc => m[2] = a.height

(* No way through a function pops a variable that a closure captured       *)
(* without closing its upvalue, but for the pops of break and continue     *)
(* themselves, which close nothing.                                        *)
CapturedAreClosed ==
    function.code # <<>> =>
        \A a \in Analysis : a.pc \in DOMAIN function.code =>
            LET i == function.code[a.pc]
            IN /\ i.op = "POP" => a.height - 1 \notin a.open
               /\ i.op = "POPN" /\ i.means # Leaving => \A n \in 1..i.n : a.height - n \notin a.open

(* The declarations that the upvalues of a function stand for, through the *)
(* functions around it.                                                    *)
UpvalueTargets(cs, k) ==
    LET of[j \in 1..k] ==
            [i \in DOMAIN cs[j].upvalues |->
                LET u == cs[j].upvalues[i]
                IN IF u.isLocal THEN cs[j - 1].locals[u.index + 1].id ELSE of[j - 1][u.index + 1]]
    IN of[k]

(* What an instruction's operand finds when the compilers are cs.          *)
Finds(cs, i) ==
    CASE i.op \in {"GET_LOCAL", "SET_LOCAL"} -> Last(cs).locals[i.n + 1].id = i.means
      [] i.op \in {"GET_UPVALUE", "SET_UPVALUE"} -> UpvalueTargets(cs, Len(cs))[i.n + 1] = i.means
      [] i.op \in {"GET_GLOBAL", "SET_GLOBAL"} -> i.means = Global
      [] OTHER -> TRUE

(* The declaration that a closure's descriptor makes it capture when the   *)
(* functions around it are cs.                                             *)
Captures(cs, u) ==
    IF u.isLocal THEN Last(cs).locals[u.index + 1].id ELSE UpvalueTargets(cs, Len(cs))[u.index + 1]

Emitted == DOMAIN Last(compilers').code \ DOMAIN Last(compilers).code
Closing == Len(compilers') < Len(compilers)

(* Every access compiled leads to the variable that the name denotes where *)
(* it stands, in its own function or through the chain of upvalues; and    *)
(* the closure made of a function captures, in the order of the function's *)
(* upvalues, the variables they stand for.                                 *)
NamesFound ==
    [][/\ Len(compilers') = Len(compilers) =>
             \A pc \in Emitted : Finds(compilers', Last(compilers').code[pc])
       /\ Closing =>
             LET around == Front(compilers)
                 code == Last(compilers').code
             IN \A pc \in DOMAIN code \ DOMAIN Last(around).code :
                  code[pc].op = "CLOSURE" =>
                      [i \in DOMAIN code[pc].captures |-> Captures(around, code[pc].captures[i])]
                          = UpvalueTargets(compilers, Len(compilers))]_vars

(* What a module exports are the variables on its stack when it returns,   *)
(* all of them and each once.                                              *)
ExportsAreVariables ==
    status = "compiled" /\ function.type = "module" =>
        /\ \A e \in ToSet(function.exports) :
              /\ e.slot + 1 \in DOMAIN function.locals
              /\ function.locals[e.slot + 1].name = e.name
        /\ \A a \in Analysis :
              a.pc \in DOMAIN function.code /\ function.code[a.pc].op = "BUILD_NAMESPACE" =>
                  {e.slot : e \in ToSet(function.exports)} = 1..(a.height - 1)
=============================================================================
