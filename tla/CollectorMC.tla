----------------------------- MODULE CollectorMC -----------------------------
(***************************************************************************)
(* Programs for Collector: the instructions each is made of, the texts     *)
(* among its constants, those of the strings it makes, whether it has a    *)
(* function, and its bounds on the stack and on the objects.               *)
(***************************************************************************)
EXTENDS Collector

Program(code, texts, made, nested, room, objects) ==
    [code |-> code, texts |-> texts, made |-> made,
     nested |-> nested, room |-> room, objects |-> objects]

Closing     == Program({"get_local", "get_upvalue", "store", "closure", "call", "pop"},
                       {}, {}, TRUE, 4, 10)
Returning   == Program({"get_upvalue", "store", "closure", "call", "return"},
                       {}, {}, TRUE, 4, 10)
Methods     == Program({"closure", "class", "method", "call", "property", "convert", "invoke"},
                       {"f"}, {}, TRUE, 3, 11)
Initialised == Program({"closure", "class", "method", "call", "property"},
                       {"__init__"}, {}, TRUE, 3, 11)
Inheriting  == Program({"get_local", "pop", "closure", "class", "method", "inherit"},
                       {"f"}, {}, TRUE, 3, 10)
Displays    == Program({"constant", "array", "add", "convert"}, {"f"}, {"f"}, FALSE, 3, 9)
Strings     == Program({"constant", "null", "add", "convert"}, {"f"}, {"module", "f"}, FALSE, 3, 9)
Elements    == Program({"array", "invoke", "null"}, {}, {}, FALSE, 3, 8)
BoundArrays == Program({"array", "property", "call", "null"}, {}, {}, FALSE, 3, 8)
Natives     == Program({"get_global", "constant", "call"}, {"f"}, {"module"}, FALSE, 4, 10)
Chains      == Program({"raise"}, {}, {"native"}, FALSE, 2, 8)
Importing   == Program({"constant", "import", "namespace", "return"}, {"module"}, {}, FALSE, 3, 10)
Exporting   == Program({"constant", "namespace", "property"}, {"module"}, {}, FALSE, 3, 8)
Globals     == Program({"constant", "null", "global", "get_global", "return"},
                       {"f"}, {}, FALSE, 3, 9)

\* Calls of native functions only.
NativePrograms == {Natives}

AllPrograms == {Closing, Returning, Methods, Initialised, Inheriting, Displays, Strings, Elements,
                BoundArrays, Natives, Chains, Importing, Exporting, Globals}

\* What the proofs assume of programs holds of these.
ASSUME ProgramsNameModules == NamesItself
==============================================================================
