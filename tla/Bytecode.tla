------------------------------ MODULE Bytecode ------------------------------
(***************************************************************************)
(* What the instructions of canidae's virtual machine (src/vm.c, run) do   *)
(* to the height of the value stack and to the flow of control, and the    *)
(* dataflow analysis of a function's code that this allows: every height   *)
(* with which every instruction can be reached.  Addresses count           *)
(* instructions, not bytes.  Instructions that treat the stack alike share *)
(* a name: CONSTANT stands for every literal, UNARY and BINARY for the     *)
(* operators.                                                              *)
(***************************************************************************)
EXTENDS Integers, Sequences

CONSTANT
    Steady  \* property reads find a field, and what is indexed is an array

ASSUME SteadyIsBoolean == Steady \in BOOLEAN

(* An instruction: its operand, where it jumps and, as ghost, the          *)
(* declaration that the name it was compiled from denotes.                 *)
Nowhere == 0
Instruction(op, n, to, means) ==
    [op |-> op, n |-> n, to |-> to, means |-> means]

(* CLOSURE is followed by a descriptor for each upvalue.                   *)
Closure(captures, means) ==
    [op |-> "CLOSURE", n |-> 0, to |-> Nowhere, means |-> means, captures |-> captures]

(* Jumps that look at the value on top and leave it there.                 *)
Conditional == {"JUMP_IF_FALSE", "JUMP_IF_TRUE", "JUMP_IF_NOT_NULL"}
Unconditional == {"JUMP", "LOOP"}
Final == {"RETURN", "RAISE"}

(* Literals, variables, closures and classes.                              *)
Simple ==
    [CONSTANT |-> 1, POP |-> -1, CLOSE_UPVALUE |-> -1, CLOSURE |-> 1, CLASS |-> 1,
     DEFINE_GLOBAL |-> -1, GET_GLOBAL |-> 1, SET_GLOBAL |-> 0, GET_LOCAL |-> 1,
     SET_LOCAL |-> 0, GET_UPVALUE |-> 1, SET_UPVALUE |-> 0]

(* Operators and conversions; an overriding method's result takes the      *)
(* place of its operands too.                                              *)
Operators ==
    [UNARY |-> 0, BINARY |-> -1, PRINT |-> -1, ARRAY_GET |-> -1, ARRAY_SET |-> -2]

(* Properties, methods and superclasses.                                   *)
Objects ==
    [GET_PROPERTY_KEEP_REF |-> 1, SET_PROPERTY |-> -1, METHOD |-> -1,
     INHERIT |-> -1, GET_SUPER |-> -1]

(* Modules and catchers: the file name gives way to the module, and the    *)
(* module's frame returns a namespace built on top of its variables.       *)
Modules == [IMPORT |-> 0, BUILD_NAMESPACE |-> 1, UNREGISTER_CATCH |-> 0, MARK_ERRORS_HANDLED |-> 0]

(* Instructions that take as many values as their operand says.            *)
Counted ==
    [POPN |-> 0, CALL |-> 0, INVOKE |-> 0, INVOKE_SUPER |-> -1, MAKE_ARRAY |-> 0,
     REGISTER_CATCH |-> 0]

(* A bound method or the undefined of a missing property is pushed above   *)
(* the object it was looked for in.                                        *)
GetProperty == IF Steady THEN {0} ELSE {0, 1}

(* A string's element takes the place of the string and the index even     *)
(* when both should be kept.                                               *)
ArrayGetKeepRef == IF Steady THEN {1} ELSE {1, -1}

(* The changes of the height an instruction that raises nothing can make.  *)
Effects(i) ==
    CASE i.op \in Conditional \cup Unconditional -> {0}
      [] i.op \in DOMAIN Simple -> {Simple[i.op]}
      [] i.op \in DOMAIN Operators -> {Operators[i.op]}
      [] i.op \in DOMAIN Objects -> {Objects[i.op]}
      [] i.op \in DOMAIN Modules -> {Modules[i.op]}
      [] i.op \in DOMAIN Counted -> {Counted[i.op] - i.n}
      [] i.op = "GET_PROPERTY" -> GetProperty
      [] i.op = "ARRAY_GET_KEEP_REF" -> ArrayGetKeepRef
      [] OTHER -> {}

(* Where control goes from an instruction.                                 *)
Targets(code, pc) ==
    CASE code[pc].op \in Unconditional -> {code[pc].to}
      [] code[pc].op \in Conditional -> {code[pc].to, pc + 1}
      [] code[pc].op \in Final -> {}
      [] OTHER -> {pc + 1}

(* The slots of the running function that an instruction captures.        *)
Captured(i) ==
    IF i.op = "CLOSURE" THEN {u.index : u \in {i.captures[k] : k \in {j \in DOMAIN i.captures : i.captures[j].isLocal}}}
    ELSE {}

(* One step of the analysis, from [pc, height, open] to those after it;    *)
(* open are the slots below height with an open upvalue.  Slots count from *)
(* 0.  An exception cuts the stack to what it was when the catcher was     *)
(* registered and puts itself on top.                                      *)
Flow(code, at) ==
    LET i == code[at.pc]
        To(pc, height, left) ==
            [pc |-> pc, height |-> height, open |-> {s \in at.open \cup Captured(i) : s < left}]
    IN IF at.pc \notin DOMAIN code THEN {}
       ELSE {To(pc, at.height + d, at.height + d) : pc \in Targets(code, at.pc), d \in Effects(i)}
            \cup {To(i.to, h + 1, h) :
                     h \in IF i.op = "REGISTER_CATCH" THEN {at.height - i.n} ELSE {}}

(* All states of the analysis, from a height at the first instruction.     *)
Reached(code, height) ==
    LET after[n \in 0..Len(code) + 2] ==
            IF n = 0 THEN {[pc |-> 1, height |-> height, open |-> {}]}
            ELSE LET before == after[n - 1]
                 IN before \cup UNION {Flow(code, at) : at \in before}
    IN after[Len(code) + 2]
=============================================================================
