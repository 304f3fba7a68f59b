----------------------------- MODULE CompilerMC -----------------------------
(***************************************************************************)
(* Instances of Compiler for TLC: what the sources hold that are compiled  *)
(* in all their forms up to a number of statements.                        *)
(***************************************************************************)
EXTENDS Compiler

Expr(form, target, name, n) == [form |-> form, target |-> target, name |-> name, n |-> n]
Literal == Expr("literal", "variable", "x", 0)
ReadOf(x) == Expr("read", "variable", x, 0)

Source(type, size, depth, holds, exprs) ==
    [type |-> type, names |-> {"x", "y"}, orderly |-> TRUE, items |-> size, nesting |-> depth, kinds |-> holds,
     expressions |-> exprs, params |-> {<<>>}, counts |-> {0}]

Reads == {ReadOf("x"), ReadOf("y")}

(* Loops, conditions and try statements in each other.                     *)
ControlFlow ==
    [Source("script", 4, 4, {"let", "block", "if", "while", "do", "for", "break", "continue", "try"},
            {Literal}) EXCEPT !.counts = {0, 2, 3}]

(* Functions in scopes in functions, and what their bodies name.           *)
Nested ==
    [Source("module", 5, 5, {"function", "let", "block", "expression"},
            {ReadOf("x")}) EXCEPT !.params = {<<>>, <<"x">>}]

(* Classes and their methods.                                              *)
Classes ==
    Source("module", 4, 5, {"class", "method", "function", "expression", "return"},
           {Expr("read", "variable", "this", 0), Expr("super", "variable", "x", 0),
            Expr("superCall", "variable", "x", 1), Expr("superCall", "variable", "x", 3)})

(* Captured and plain locals popped together, more than fit a byte.        *)
Pops ==
    [Source("script", 5, 4, {"block", "let", "function", "expression"}, {ReadOf("x")})
        EXCEPT !.names = {"x", "y", "z"}]

(* Loops left from inner scopes, with more locals than fit a byte.         *)
Breaks ==
    [Source("script", 6, 5, {"block", "let", "while", "do", "break", "continue"}, {Literal})
        EXCEPT !.names = {"x", "y", "z"}]

(* Loops left from the scope of a captured variable.                       *)
Captives ==
    [Source("script", 5, 5, {"block", "function", "while", "do", "expression", "break", "continue"},
            {ReadOf("x")}) EXCEPT !.names = {"x"}]

(* Every form of expression.                                               *)
Expressions ==
    Source("module", 2, 3, {"let", "expression", "print", "raise", "import"},
        {Literal} \cup
        {Expr(f, "variable", "x", 0) : f \in {"read", "=", "+=", "??=", "unary", "binary", "and", "or", "??"}}
        \cup {Expr(f, t, "x", 0) : f \in {"read", "=", "+="}, t \in {"property", "element"}}
        \cup {Expr(f, "variable", "x", n) : f \in {"call", "invoke", "array"}, n \in {0, 2, 3}})

AllSources == {ControlFlow, Nested, Classes, Pops, Breaks, Captives, Expressions}
=============================================================================
