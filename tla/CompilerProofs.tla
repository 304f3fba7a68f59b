---------------------------- MODULE CompilerProofs ----------------------------
(***************************************************************************)
(* What holds of src/compiler.c for every source: the compilers of nested  *)
(* functions, their locals and loops keep their shape, and every name is   *)
(* compiled to an access of the variable it denotes where it stands.       *)
(***************************************************************************)
EXTENDS Compiler, OrderLemmas, SequenceTheorems, FiniteSetTheorems, TLAPS

-----------------------------------------------------------------------------
(* Sequences of anything. *)

LEMMA NextIn ==
    /\ \A y \in Nat : \A x \in 0..y - 1 : x + 1 \in 1..y
    /\ \A y \in Nat : \A x \in 0..y : x # y => x + 1 \in 1..y
  OBVIOUS

IsSeq(s) == \E S : s \in Seq(S)

LEMMA SeqIs ==
    ASSUME NEW s, IsSeq(s)
    PROVE  Len(s) \in Nat /\ DOMAIN s = 1..Len(s)
  BY DEF IsSeq

LEMMA ConcatIs ==
    ASSUME NEW s, NEW t, IsSeq(s), IsSeq(t)
    PROVE  /\ IsSeq(s \o t) /\ Len(s \o t) = Len(s) + Len(t)
           /\ \A i \in 1..Len(s) : (s \o t)[i] = s[i]
           /\ \A i \in 1..Len(t) : (s \o t)[Len(s) + i] = t[i]
           /\ \A i \in Len(s) + 1..Len(s) + Len(t) : (s \o t)[i] = t[i - Len(s)]
<1>1. PICK S : s \in Seq(S) BY DEF IsSeq
<1>2. PICK T : t \in Seq(T) BY DEF IsSeq
<1> DEFINE U == S \cup T
<1>3. s \in Seq(U) /\ t \in Seq(U) BY <1>1, <1>2, SeqMonotonic
<1> HIDE DEF U
<1>4. s \o t \in Seq(U) BY <1>3
<1>5. IsSeq(s \o t) BY <1>4 DEF IsSeq
<1> QED BY <1>3, <1>5

LEMMA AppendIs ==
    ASSUME NEW s, NEW e, IsSeq(s)
    PROVE  /\ IsSeq(Append(s, e)) /\ Len(Append(s, e)) = Len(s) + 1
           /\ \A i \in 1..Len(s) : Append(s, e)[i] = s[i]
           /\ Append(s, e)[Len(s) + 1] = e
<1>1. PICK S : s \in Seq(S) BY DEF IsSeq
<1> DEFINE U == S \cup {e}
<1>2. s \in Seq(U) /\ e \in U BY <1>1, SeqMonotonic
<1> HIDE DEF U
<1>3. Append(s, e) \in Seq(U) BY <1>2
<1>4. IsSeq(Append(s, e)) BY <1>3 DEF IsSeq
<1> QED BY <1>2, <1>4

LEMMA SubSeqIs ==
    ASSUME NEW s, IsSeq(s), NEW m \in 1..Len(s) + 1, NEW n \in 0..Len(s), m <= n + 1
    PROVE  /\ IsSeq(SubSeq(s, m, n)) /\ Len(SubSeq(s, m, n)) = n - m + 1
           /\ \A i \in 1..n - m + 1 : SubSeq(s, m, n)[i] = s[m + i - 1]
<1>1. PICK S : s \in Seq(S) BY DEF IsSeq
<1>2. SubSeq(s, m, n) \in Seq(S) BY <1>1, SubSeqProperties
<1>3. IsSeq(SubSeq(s, m, n)) BY <1>2 DEF IsSeq
<1> QED BY <1>1, <1>3, SubSeqProperties

LEMMA FrontIs ==
    ASSUME NEW s, IsSeq(s), Len(s) > 0
    PROVE  /\ IsSeq(Front(s)) /\ Len(Front(s)) = Len(s) - 1
           /\ \A i \in 1..Len(s) - 1 : Front(s)[i] = s[i]
           /\ Last(s) = s[Len(s)]
<1>1. Len(s) \in Nat BY SeqIs
<1>2. 1 <= (Len(s) - 1) + 1 /\ Len(s) - 1 \in 0..Len(s) /\ 1 \in 1..Len(s) + 1 BY <1>1
<1>3. /\ IsSeq(SubSeq(s, 1, Len(s) - 1)) /\ Len(SubSeq(s, 1, Len(s) - 1)) = Len(s) - 1 - 1 + 1
      /\ \A i \in 1..Len(s) - 1 - 1 + 1 : SubSeq(s, 1, Len(s) - 1)[i] = s[1 + i - 1]
  BY <1>2, SubSeqIs
<1>4. Front(s) = SubSeq(s, 1, Len(s) - 1) /\ Last(s) = s[Len(s)] BY DEF Front, Last
<1> HIDE DEF Front, Last
<1> QED BY <1>1, <1>3, <1>4

LEMMA TupleIs ==
    /\ IsSeq(<<>>) /\ Len(<<>>) = 0
    /\ \A e : IsSeq(<<e>>) /\ Len(<<e>>) = 1 /\ <<e>>[1] = e
<1>1. IsSeq(<<>>)
  <2>1. <<>> \in Seq({}) OBVIOUS
  <2> QED BY <2>1 DEF IsSeq
<1>2. \A e : IsSeq(<<e>>)
  <2>1. \A e : <<e>> \in Seq({e}) OBVIOUS
  <2> QED BY <2>1 DEF IsSeq
<1> QED BY <1>1, <1>2

\* A function on an initial segment of the numbers is a sequence.
LEMMA FunctionIs ==
    ASSUME NEW n \in Nat, NEW s, s = [i \in 1..n |-> s[i]]
    PROVE  IsSeq(s) /\ Len(s) = n
<1> DEFINE S == {s[i] : i \in 1..n}
<1>1. s \in [1..n -> S] OBVIOUS
<1>2. s \in Seq(S)
  <2> HIDE DEF S
  <2> QED BY <1>1
<1>3. IsSeq(s) BY <1>2 DEF IsSeq
<1>4. DOMAIN s = 1..n BY <1>1
<1>5. Len(s) \in Nat /\ DOMAIN s = 1..Len(s) BY <1>3, SeqIs
<1>6. Len(s) = n BY <1>4, <1>5
<1> QED BY <1>3, <1>6

LEMMA WithIs ==
    ASSUME NEW s, NEW e, IsSeq(s), Len(s) > 0
    PROVE  /\ IsSeq(With(s, e)) /\ Len(With(s, e)) = Len(s)
           /\ \A i \in 1..Len(s) : With(s, e)[i] = IF i = Len(s) THEN e ELSE s[i]
           /\ Last(With(s, e)) = e
<1>1. Len(s) \in Nat /\ DOMAIN s = 1..Len(s) BY SeqIs
<1> DEFINE t == With(s, e)
<1>2. t = [i \in 1..Len(s) |-> t[i]] BY <1>1 DEF With
<1>3. \A i \in 1..Len(s) : t[i] = IF i = Len(s) THEN e ELSE s[i] BY <1>1 DEF With
<1> HIDE DEF t
<1>4. IsSeq(t) /\ Len(t) = Len(s) BY <1>1, <1>2, FunctionIs
<1>5. Last(t) = t[Len(t)] BY <1>4, FrontIs
<1>6. Last(t) = e
  <2>1. Len(s) \in 1..Len(s) BY <1>1
  <2>2. t[Len(s)] = e BY <2>1, <1>3
  <2> QED BY <2>2, <1>4, <1>5
<1> QED BY <1>3, <1>4, <1>6 DEF t

-----------------------------------------------------------------------------
(* The compiler of one function. *)

ProgramTypes  == {"script", "module"}
FunctionTypes == {"function", "method", "initialiser"}

IsLocal(l) == l = [name |-> l.name, depth |-> l.depth, captured |-> l.captured, id |-> l.id]

IsLoop(l) ==
    /\ l = [continue |-> l.continue, depth |-> l.depth, breaks |-> l.breaks, continues |-> l.continues]
    /\ l.depth \in Nat

IsUpvalue(u) ==
    /\ u = [index |-> u.index, isLocal |-> u.isLocal]
    /\ u.index \in Nat /\ u.isLocal \in BOOLEAN

IsCompiler(c) ==
    /\ c = [type |-> c.type, arity |-> c.arity, locals |-> c.locals, depth |-> c.depth,
            loops |-> c.loops, upvalues |-> c.upvalues, classes |-> c.classes,
            exports |-> c.exports, code |-> c.code, marks |-> c.marks]
    /\ c.type \in ProgramTypes \cup FunctionTypes /\ c.depth \in Nat
    /\ IsSeq(c.locals) /\ \A i \in DOMAIN c.locals : IsLocal(c.locals[i])
    /\ IsSeq(c.loops) /\ \A i \in DOMAIN c.loops : IsLoop(c.loops[i])
    /\ IsSeq(c.upvalues) /\ \A i \in DOMAIN c.upvalues : IsUpvalue(c.upvalues[i])
    /\ IsSeq(c.classes) /\ IsSeq(c.code)

\* An instruction whose operand is no variable.
Accesses == {"GET_LOCAL", "SET_LOCAL", "GET_UPVALUE", "SET_UPVALUE", "GET_GLOBAL", "SET_GLOBAL"}
Harmless(i) ==
    i = [op |-> i.op, n |-> i.n, to |-> i.to, means |-> i.means] /\ i.op \notin Accesses
AreHarmless(s) == IsSeq(s) /\ \A i \in DOMAIN s : Harmless(s[i])

\* The code of d is that of c, patched perhaps, and more.
Longer(c, d) == /\ Len(c.code) <= Len(d.code)
                /\ \A pc \in 1..Len(c.code) : Harmless(c.code[pc]) => Harmless(d.code[pc])
                /\ \A pc \in Len(c.code) + 1..Len(d.code) : Harmless(d.code[pc])

SameButCode(c, d) ==
    /\ IsCompiler(d)
    /\ d.type = c.type /\ d.locals = c.locals /\ d.depth = c.depth /\ d.loops = c.loops
    /\ d.upvalues = c.upvalues /\ d.classes = c.classes

\* d is c with code emitted that accesses no variables, or jumps patched.
Coded(c, d) == SameButCode(c, d) /\ Longer(c, d)

LEMMA LongerTrans ==
    ASSUME NEW c, NEW d, NEW e, IsSeq(c.code), IsSeq(d.code), IsSeq(e.code),
           Longer(c, d), Longer(d, e)
    PROVE  Longer(c, e)
<1>1. Len(c.code) \in Nat /\ Len(d.code) \in Nat /\ Len(e.code) \in Nat BY SeqIs
<1>2. Len(c.code) <= Len(e.code) BY <1>1 DEF Longer
<1>3. ASSUME NEW pc \in 1..Len(e.code), pc <= Len(c.code) => Harmless(c.code[pc])
      PROVE  Harmless(e.code[pc])
  <2>1. CASE pc > Len(d.code)
    <3>1. pc \in Len(d.code) + 1..Len(e.code) BY <1>1, <2>1
    <3> QED BY <3>1 DEF Longer
  <2>2. CASE pc <= Len(d.code)
    <3>1. pc \in 1..Len(d.code) BY <1>1, <2>2
    <3>2. CASE pc <= Len(c.code)
      <4>1. pc \in 1..Len(c.code) BY <1>1, <3>2
      <4> QED BY <1>3, <3>1, <3>2, <4>1 DEF Longer
    <3>3. CASE pc > Len(c.code)
      <4>1. pc \in Len(c.code) + 1..Len(d.code) BY <1>1, <3>1, <3>3
      <4> QED BY <3>1, <4>1 DEF Longer
    <3> QED BY <1>1, <3>2, <3>3
  <2> QED BY <1>1, <2>1, <2>2
<1>4. ASSUME NEW pc \in 1..Len(c.code), Harmless(c.code[pc]) PROVE Harmless(e.code[pc])
  <2>1. pc \in 1..Len(e.code) BY <1>1, <1>2
  <2> QED BY <1>3, <1>4, <2>1
<1>5. ASSUME NEW pc \in Len(c.code) + 1..Len(e.code) PROVE Harmless(e.code[pc])
  <2>1. pc \in 1..Len(e.code) /\ ~(pc <= Len(c.code)) BY <1>1
  <2> QED BY <1>3, <2>1
<1> QED BY <1>2, <1>4, <1>5 DEF Longer

LEMMA CodedTrans ==
    ASSUME NEW c, NEW d, NEW e, IsCompiler(c), Coded(c, d), Coded(d, e)
    PROVE  Coded(c, e)
<1>1. IsSeq(c.code) /\ IsSeq(d.code) /\ IsSeq(e.code) BY DEF Coded, SameButCode, IsCompiler
<1>2. SameButCode(c, e) BY DEF Coded, SameButCode
<1> QED BY <1>1, <1>2, LongerTrans DEF Coded

LEMMA CodedRefl == ASSUME NEW c, IsCompiler(c) PROVE Coded(c, c)
<1>1. Len(c.code) \in Nat BY SeqIs DEF IsCompiler
<1>2. Longer(c, c) BY <1>1 DEF Longer
<1> QED BY <1>2 DEF Coded, SameButCode

\* Giving a compiler other code leaves the rest of it.
LEMMA RecodedIs ==
    ASSUME NEW c, IsCompiler(c), NEW code, IsSeq(code)
    PROVE  SameButCode(c, [c EXCEPT !.code = code]) /\ [c EXCEPT !.code = code].code = code
<1> DEFINE d == [c EXCEPT !.code = code]
<1>1. d = [type |-> c.type, arity |-> c.arity, locals |-> c.locals, depth |-> c.depth,
           loops |-> c.loops, upvalues |-> c.upvalues, classes |-> c.classes,
           exports |-> c.exports, code |-> code, marks |-> c.marks]
  BY DEF IsCompiler
<1>2. /\ d.type = c.type /\ d.locals = c.locals /\ d.depth = c.depth /\ d.loops = c.loops
      /\ d.upvalues = c.upvalues /\ d.classes = c.classes /\ d.code = code
      /\ d.arity = c.arity /\ d.exports = c.exports /\ d.marks = c.marks
  BY <1>1
<1> HIDE DEF d
<1>3. IsCompiler(d) BY <1>1, <1>2 DEF IsCompiler
<1> QED BY <1>2, <1>3 DEF SameButCode, d

LEMMA EmitIs ==
    ASSUME NEW c, IsCompiler(c), NEW code, IsSeq(code)
    PROVE  SameButCode(c, Emit(c, code)) /\ Emit(c, code).code = c.code \o code
<1>1. IsSeq(c.code \o code) BY ConcatIs DEF IsCompiler
<1>2. Emit(c, code) = [c EXCEPT !.code = c.code \o code] BY DEF Emit
<1> QED BY <1>1, <1>2, RecodedIs

LEMMA EmitCoded ==
    ASSUME NEW c, IsCompiler(c), NEW code, AreHarmless(code)
    PROVE  Coded(c, Emit(c, code))
<1>1. IsSeq(code) /\ IsSeq(c.code) BY DEF AreHarmless, IsCompiler
<1>2. SameButCode(c, Emit(c, code)) /\ Emit(c, code).code = c.code \o code BY <1>1, EmitIs
<1>3. /\ Len(c.code) \in Nat /\ Len(code) \in Nat /\ DOMAIN code = 1..Len(code)
  BY <1>1, SeqIs
<1>4. /\ Len(c.code \o code) = Len(c.code) + Len(code)
      /\ \A i \in 1..Len(c.code) : (c.code \o code)[i] = c.code[i]
      /\ \A i \in Len(c.code) + 1..Len(c.code) + Len(code) :
            (c.code \o code)[i] = code[i - Len(c.code)]
  BY <1>1, ConcatIs
<1>5. \A i \in Len(c.code) + 1..Len(c.code) + Len(code) : i - Len(c.code) \in DOMAIN code
  BY <1>3
<1> DEFINE all == c.code \o code
<1>6. \A pc \in 1..Len(c.code) : Harmless(c.code[pc]) => Harmless(all[pc]) BY <1>4
<1>7. \A pc \in Len(c.code) + 1..Len(all) : Harmless(all[pc])
  <2> SUFFICES ASSUME NEW pc \in Len(c.code) + 1..Len(all) PROVE Harmless(all[pc]) OBVIOUS
  <2>1. pc \in Len(c.code) + 1..Len(c.code) + Len(code) BY <1>4
  <2>2. all[pc] = code[pc - Len(c.code)] BY <1>4, <2>1
  <2>3. pc - Len(c.code) \in DOMAIN code BY <1>5, <2>1
  <2> HIDE DEF all
  <2> QED BY <2>2, <2>3 DEF AreHarmless
<1>8. Len(c.code) <= Len(all) BY <1>3, <1>4
<1> HIDE DEF all
<1>9. Longer(c, Emit(c, code)) BY <1>2, <1>6, <1>7, <1>8 DEF Longer, all
<1> QED BY <1>2, <1>9 DEF Coded

LEMMA MarkCoded == ASSUME NEW c, IsCompiler(c) PROVE Coded(c, Mark(c))
<1> DEFINE d == Mark(c)
<1>1. PICK marks : d = [c EXCEPT !.marks = marks] BY DEF Mark
<1>2. d = [type |-> c.type, arity |-> c.arity, locals |-> c.locals, depth |-> c.depth,
           loops |-> c.loops, upvalues |-> c.upvalues, classes |-> c.classes,
           exports |-> c.exports, code |-> c.code, marks |-> marks]
  BY <1>1 DEF IsCompiler
<1> HIDE DEF d
<1>3. /\ d.type = c.type /\ d.locals = c.locals /\ d.depth = c.depth /\ d.loops = c.loops
      /\ d.upvalues = c.upvalues /\ d.classes = c.classes /\ d.code = c.code
      /\ d.arity = c.arity /\ d.exports = c.exports /\ d.marks = marks
  BY <1>2
<1>4. IsCompiler(d) BY <1>2, <1>3 DEF IsCompiler
<1>5. Len(c.code) \in Nat BY SeqIs DEF IsCompiler
<1>6. Longer(c, d) BY <1>3, <1>5 DEF Longer
<1> QED BY <1>3, <1>4, <1>6 DEF Coded, SameButCode, d

\* Patching leaves every instruction what it does with variables.
LEMMA RepatchedCoded ==
    ASSUME NEW c, IsCompiler(c), NEW code, IsSeq(code), Len(code) = Len(c.code),
           \A pc \in 1..Len(c.code) : Harmless(c.code[pc]) => Harmless(code[pc])
    PROVE  Coded(c, [c EXCEPT !.code = code])
<1>1. Len(c.code) \in Nat BY SeqIs DEF IsCompiler
<1> DEFINE d == [c EXCEPT !.code = code]
<1>2. SameButCode(c, d) /\ d.code = code BY RecodedIs
<1> HIDE DEF d
<1>3. Longer(c, d) BY <1>1, <1>2 DEF Longer
<1> QED BY <1>2, <1>3 DEF Coded, d

LEMMA StillHarmless ==
    ASSUME NEW i, Harmless(i), NEW x
    PROVE  Harmless([i EXCEPT !.to = x]) /\ Harmless([i EXCEPT !.n = x]) /\ Harmless([i EXCEPT !.means = x])
<1>1. PICK op, n, t, m : i = [op |-> op, n |-> n, to |-> t, means |-> m] BY DEF Harmless
<1>2. op \notin Accesses BY <1>1 DEF Harmless
<1>3. [i EXCEPT !.to = x] = [op |-> op, n |-> n, to |-> x, means |-> m] BY <1>1
<1>4. [i EXCEPT !.n = x] = [op |-> op, n |-> x, to |-> t, means |-> m] BY <1>1
<1>5. [i EXCEPT !.means = x] = [op |-> op, n |-> n, to |-> t, means |-> x] BY <1>1
<1>6. \A k, j, y : Harmless([op |-> op, n |-> k, to |-> j, means |-> y]) BY <1>2 DEF Harmless
<1> QED BY <1>3, <1>4, <1>5, <1>6

LEMMA PatchJumpCoded ==
    ASSUME NEW c, IsCompiler(c), NEW at
    PROVE  Coded(c, PatchJump(c, at))
<1> DEFINE code == [c.code EXCEPT ![at].to = Here(c)]
<1>1. PatchJump(c, at) = [c EXCEPT !.code = code] BY DEF PatchJump
<1>2. Len(c.code) \in Nat /\ DOMAIN c.code = 1..Len(c.code) BY SeqIs DEF IsCompiler
<1>3. code = [i \in 1..Len(c.code) |-> code[i]] BY <1>2
<1>4. IsSeq(code) /\ Len(code) = Len(c.code)
  <2> HIDE DEF code
  <2> QED BY <1>2, <1>3, FunctionIs
<1>5. \A pc \in 1..Len(c.code) : Harmless(c.code[pc]) => Harmless(code[pc])
  BY <1>2, StillHarmless
<1> HIDE DEF code
<1> QED BY <1>1, <1>4, <1>5, RepatchedCoded

LEMMA PatchJumpsCoded ==
    ASSUME NEW c, IsCompiler(c), NEW ats
    PROVE  Coded(c, PatchJumps(c, ats))
<1> DEFINE code == [pc \in DOMAIN c.code |->
                        IF pc \in ToSet(ats) THEN [c.code[pc] EXCEPT !.to = Here(c)] ELSE c.code[pc]]
<1>1. PatchJumps(c, ats) = [c EXCEPT !.code = code] BY DEF PatchJumps
<1>2. Len(c.code) \in Nat /\ DOMAIN c.code = 1..Len(c.code) BY SeqIs DEF IsCompiler
<1>3. code = [i \in 1..Len(c.code) |-> code[i]] BY <1>2
<1>4. IsSeq(code) /\ Len(code) = Len(c.code)
  <2> HIDE DEF code
  <2> QED BY <1>2, <1>3, FunctionIs
<1>5. \A pc \in 1..Len(c.code) : Harmless(c.code[pc]) => Harmless(code[pc])
  BY <1>2, StillHarmless
<1> HIDE DEF code
<1> QED BY <1>1, <1>4, <1>5, RepatchedCoded

LEMMA SetCatchCoded ==
    ASSUME NEW c, IsCompiler(c), NEW register, NEW n
    PROVE  Coded(c, SetCatch(c, register, n))
<1> DEFINE code == [c.code EXCEPT ![register].n = n]
           d == [c EXCEPT !.code[register].n = n]
<1>1. d = [c EXCEPT !.code = code] OBVIOUS
<1>2. Len(c.code) \in Nat /\ DOMAIN c.code = 1..Len(c.code) BY SeqIs DEF IsCompiler
<1>3. code = [i \in 1..Len(c.code) |-> code[i]] BY <1>2
<1>4. IsSeq(code) /\ Len(code) = Len(c.code)
  <2> HIDE DEF code
  <2> QED BY <1>2, <1>3, FunctionIs
<1>5. \A pc \in 1..Len(c.code) : Harmless(c.code[pc]) => Harmless(code[pc])
  BY <1>2, StillHarmless
<1> HIDE DEF code, d
<1>6. Coded(c, d) BY <1>1, <1>4, <1>5, RepatchedCoded
<1>7. Coded(d, PatchJump(d, register)) BY <1>6, PatchJumpCoded DEF Coded, SameButCode
<1>8. Coded(c, PatchJump(d, register)) BY <1>6, <1>7, CodedTrans
<1> QED BY <1>8 DEF SetCatch, d

-----------------------------------------------------------------------------
(* Code that accesses no variables. *)

LEMMA HarmlessOps ==
    /\ \A op, n : op \notin Accesses => Harmless(Plain(op, n)) /\ Harmless(Goto(op, n))
    /\ \A op : op \notin Accesses => Harmless(Op(op))
    /\ Harmless(Const)
  BY DEF Harmless, Accesses, Plain, Goto, Op, Const, Instruction

LEMMA HarmlessTuples ==
    /\ AreHarmless(<<>>)
    /\ \A a : Harmless(a) => AreHarmless(<<a>>)
    /\ \A a, b : Harmless(a) /\ Harmless(b) => AreHarmless(<<a, b>>)
    /\ \A a, b, c : Harmless(a) /\ Harmless(b) /\ Harmless(c) => AreHarmless(<<a, b, c>>)
    /\ \A a, b, c, d : Harmless(a) /\ Harmless(b) /\ Harmless(c) /\ Harmless(d)
                           => AreHarmless(<<a, b, c, d>>)
<1>1. IsSeq(<<>>) BY TupleIs
<1>2. \A a : IsSeq(<<a>>) BY TupleIs
<1>3. \A a, b : <<a, b>> \in Seq({a, b}) OBVIOUS
<1>4. \A a, b, c : <<a, b, c>> \in Seq({a, b, c}) OBVIOUS
<1>5. \A a, b, c, d : <<a, b, c, d>> \in Seq({a, b, c, d}) OBVIOUS
<1>6. /\ \A a, b : IsSeq(<<a, b>>)
      /\ \A a, b, c : IsSeq(<<a, b, c>>)
      /\ \A a, b, c, d : IsSeq(<<a, b, c, d>>)
  BY <1>3, <1>4, <1>5 DEF IsSeq
<1>7. AreHarmless(<<>>) BY <1>1 DEF AreHarmless
<1>8. \A a : Harmless(a) => AreHarmless(<<a>>) BY <1>2 DEF AreHarmless
<1>9. \A a, b : Harmless(a) /\ Harmless(b) => AreHarmless(<<a, b>>) BY <1>6 DEF AreHarmless
<1>10. \A a, b, c : Harmless(a) /\ Harmless(b) /\ Harmless(c) => AreHarmless(<<a, b, c>>)
  <2> SUFFICES ASSUME NEW a, NEW b, NEW c, Harmless(a), Harmless(b), Harmless(c)
      PROVE  AreHarmless(<<a, b, c>>)
    OBVIOUS
  <2>1. IsSeq(<<a, b, c>>) BY <1>6
  <2>2. \A i \in 1..3 : Harmless(<<a, b, c>>[i]) OBVIOUS
  <2>3. DOMAIN <<a, b, c>> = 1..3 OBVIOUS
  <2> QED BY <2>1, <2>2, <2>3 DEF AreHarmless
<1>11. \A a, b, c, d : Harmless(a) /\ Harmless(b) /\ Harmless(c) /\ Harmless(d)
                           => AreHarmless(<<a, b, c, d>>)
  BY <1>6 DEF AreHarmless
<1> QED BY <1>7, <1>8, <1>9, <1>10, <1>11

LEMMA HarmlessConcat ==
    ASSUME NEW s, NEW t, AreHarmless(s), AreHarmless(t)
    PROVE  AreHarmless(s \o t)
<1>1. IsSeq(s) /\ IsSeq(t) BY DEF AreHarmless
<1> DEFINE u == s \o t
<1>2. /\ Len(s) \in Nat /\ DOMAIN s = 1..Len(s) /\ Len(t) \in Nat /\ DOMAIN t = 1..Len(t)
  BY <1>1, SeqIs
<1>3. /\ IsSeq(u) /\ Len(u) = Len(s) + Len(t)
      /\ \A i \in 1..Len(s) : u[i] = s[i]
      /\ \A i \in Len(s) + 1..Len(s) + Len(t) : u[i] = t[i - Len(s)]
  BY <1>1, ConcatIs
<1> HIDE DEF u
<1>4. DOMAIN u = 1..Len(u) BY <1>3, SeqIs
<1>5. ASSUME NEW i \in DOMAIN u PROVE Harmless(u[i])
  <2>1. CASE i <= Len(s)
    <3>1. i \in DOMAIN s /\ u[i] = s[i] BY <1>2, <1>3, <1>4, <2>1
    <3> QED BY <3>1 DEF AreHarmless
  <2>2. CASE i > Len(s)
    <3>1. i - Len(s) \in DOMAIN t /\ u[i] = t[i - Len(s)] BY <1>2, <1>3, <1>4, <2>2
    <3> QED BY <3>1 DEF AreHarmless
  <2> QED BY <1>2, <1>4, <2>1, <2>2
<1> QED BY <1>3, <1>5 DEF AreHarmless, u

LEMMA LiteralsHarmless ==
    ASSUME NEW n \in Nat
    PROVE  AreHarmless(Literals(n))
<1>1. Literals(n) = [k \in 1..n |-> Const] BY DEF Literals
<1>2. IsSeq(Literals(n)) /\ Len(Literals(n)) = n BY <1>1, FunctionIs
<1> QED BY <1>1, <1>2, HarmlessOps DEF AreHarmless

LEMMA PopNHarmless ==
    ASSUME NEW n \in Nat
    PROVE  AreHarmless(PopN(n))
<1> DEFINE m == (n + UINT8_MAX - 1) \div UINT8_MAX
<1>1. m \in Nat BY ByteIsPositive
<1>2. PopN(n) = [k \in 1..m |-> PopN(n)[k]] /\ DOMAIN PopN(n) = 1..m BY DEF PopN
<1>3. \A k \in 1..m : \E x : PopN(n)[k] = Plain("POPN", x) BY DEF PopN
<1> HIDE DEF m
<1>4. IsSeq(PopN(n)) BY <1>1, <1>2, FunctionIs
<1>5. \A k \in 1..m : Harmless(PopN(n)[k]) BY <1>3, HarmlessOps DEF Accesses
<1> QED BY <1>2, <1>4, <1>5 DEF AreHarmless

(* The pops of a scope's locals, from the bottom up. *)

Below(locals, i) == Max({j \in 1..i : locals[j].captured} \cup {0})
PopsAt(locals, f, i) ==
    CASE i = 0 -> <<>>
      [] i > 0 /\ locals[i].captured -> <<Op("CLOSE_UPVALUE")>> \o f[i - 1]
      [] OTHER -> PopN(i - Below(locals, i)) \o f[Below(locals, i)]
PopsPart(locals, n, f) == f = [i \in 0..n |-> PopsAt(locals, f, i)]

LEMMA BelowIs ==
    ASSUME NEW locals, NEW i \in Nat, i > 0
    PROVE  Below(locals, i) \in 0..i /\ (~ locals[i].captured => Below(locals, i) < i)
<1> DEFINE S == {j \in 1..i : locals[j].captured} \cup {0}
<1>1. S \subseteq 0..i /\ S # {} OBVIOUS
<1>2. Max(S) \in S BY <1>1, MaxIs
<1>3. ~ locals[i].captured => i \notin S OBVIOUS
<1>4. Below(locals, i) = Max(S) BY DEF Below
<1> HIDE DEF S
<1>5. Max(S) \in 0..i BY <1>1, <1>2
<1>6. ~ locals[i].captured => Max(S) # i BY <1>2, <1>3
<1> QED BY <1>4, <1>5, <1>6

\* Where two lists of pops agree below i, they ask for the same pops at i.
LEMMA PopsAtSame ==
    ASSUME NEW locals, NEW f, NEW g, NEW i \in Nat, \A j \in 0..i - 1 : f[j] = g[j]
    PROVE  PopsAt(locals, f, i) = PopsAt(locals, g, i)
<1>1. CASE i = 0 BY <1>1 DEF PopsAt
<1>2. CASE i > 0 /\ locals[i].captured
  <2>1. i - 1 \in 0..i - 1 BY <1>2
  <2> QED BY <1>2, <2>1 DEF PopsAt
<1>3. CASE i > 0 /\ ~ locals[i].captured
  <2>1. Below(locals, i) \in 0..i - 1 BY <1>3, BelowIs
  <2> QED BY <1>3, <2>1 DEF PopsAt
<1> QED BY <1>1, <1>2, <1>3

LEMMA PopsExist ==
    ASSUME NEW locals, NEW n \in Nat
    PROVE  \E f : PopsPart(locals, n, f)
<1> DEFINE S == {m \in Nat : ~ \E f : PopsPart(locals, m, f)}
           m == Min(S)
<1>1. SUFFICES ASSUME S # {} PROVE FALSE OBVIOUS
<1>2. m \in S /\ \A x \in S : m <= x
  <2>1. S \subseteq Nat OBVIOUS
  <2> QED BY <1>1, <2>1, MinIs
<1>3. m \in Nat /\ ~ \E f : PopsPart(locals, m, f) BY <1>2
<1>4. \A x \in Nat : x < m => \E f : PopsPart(locals, x, f)
  <2>1. SUFFICES ASSUME NEW x \in Nat, x < m PROVE x \notin S OBVIOUS
  <2> HIDE DEF m
  <2>2. ~ (m <= x) BY <1>3, <2>1
  <2> QED BY <1>2, <2>2
<1> HIDE DEF m
<1>5. CASE m = 0
  <2> DEFINE g == [i \in 0..0 |-> <<>>]
  <2>1. \A i \in 0..0 : g[i] = PopsAt(locals, g, i) BY DEF PopsAt
  <2>2. g = [i \in 0..0 |-> PopsAt(locals, g, i)] BY <2>1
  <2> HIDE DEF g
  <2>3. PopsPart(locals, 0, g) BY <2>2 DEF PopsPart
  <2> QED BY <1>3, <1>5, <2>3
<1>6. CASE m # 0
  <2>1. m - 1 \in Nat /\ m - 1 < m BY <1>3, <1>6
  <2>2. PICK f : PopsPart(locals, m - 1, f) BY <1>4, <2>1
  <2> DEFINE top == PopsAt(locals, f, m)
             g == [i \in 0..m |-> IF i = m THEN top ELSE f[i]]
  <2>3. \A j \in 0..m - 1 : g[j] = f[j] BY <1>3
  <2>4. g[m] = top BY <1>3
  <2>5. g = [i \in 0..m |-> g[i]] OBVIOUS
  <2> HIDE DEF g
  <2>6. ASSUME NEW i \in 0..m PROVE g[i] = PopsAt(locals, g, i)
    <3>1. \A j \in 0..i - 1 : g[j] = f[j] BY <1>3, <2>3
    <3>2. PopsAt(locals, g, i) = PopsAt(locals, f, i) BY <3>1, PopsAtSame
    <3>3. CASE i = m BY <2>4, <3>2, <3>3
    <3>4. CASE i # m
      <4>1. i \in 0..m - 1 BY <1>3, <3>4
      <4>2. f[i] = PopsAt(locals, f, i) BY <2>2, <4>1 DEF PopsPart
      <4> QED BY <2>3, <3>2, <4>1, <4>2
    <3> QED BY <3>3, <3>4
  <2>7. PopsPart(locals, m, g) BY <2>5, <2>6 DEF PopsPart
  <2> QED BY <1>3, <2>7
<1> QED BY <1>5, <1>6

LEMMA PopsOfHarmless ==
    ASSUME NEW locals, IsSeq(locals)
    PROVE  AreHarmless(PopsOf(locals))
<1> DEFINE n == Len(locals)
           f == CHOOSE g : PopsPart(locals, n, g)
<1>1. n \in Nat BY SeqIs
<1>2. PopsOf(locals) = f[n]
  BY DEF PopsOf, PopsPart, PopsAt, Below
<1>3. PopsPart(locals, n, f) BY <1>1, PopsExist
<1> HIDE DEF f, n
<1>4. \A i \in 0..n : f[i] = PopsAt(locals, f, i) BY <1>3 DEF PopsPart
<1> DEFINE S == {i \in 0..n : ~ AreHarmless(f[i])}
           m == Min(S)
<1>5. S = {}
  <2>1. SUFFICES ASSUME S # {} PROVE FALSE OBVIOUS
  <2>2. m \in S /\ \A x \in S : m <= x
    <3>1. S \subseteq Nat OBVIOUS
    <3> QED BY <2>1, <3>1, MinIs
  <2>3. m \in 0..n /\ ~ AreHarmless(f[m]) BY <2>2
  <2>4. \A j \in 0..m - 1 : AreHarmless(f[j])
    <3> SUFFICES ASSUME NEW j \in 0..m - 1 PROVE j \notin S BY <1>1, <2>3
    <3> HIDE DEF m
    <3>1. ~ (m <= j) BY <2>3
    <3> QED BY <2>2, <3>1
  <2> HIDE DEF m, S
  <2>5. f[m] = PopsAt(locals, f, m) BY <1>4, <2>3
  <2>6. m \in Nat BY <1>1, <2>3
  <2>7. CASE m = 0 BY <2>3, <2>5, <2>7, HarmlessTuples DEF PopsAt
  <2>8. CASE m > 0 /\ locals[m].captured
    <3>1. f[m] = <<Op("CLOSE_UPVALUE")>> \o f[m - 1] BY <2>5, <2>8 DEF PopsAt
    <3>2. AreHarmless(f[m - 1]) BY <2>4, <2>6, <2>8
    <3>3. AreHarmless(<<Op("CLOSE_UPVALUE")>>) BY HarmlessOps, HarmlessTuples DEF Accesses
    <3> QED BY <2>3, <3>1, <3>2, <3>3, HarmlessConcat
  <2>9. CASE m > 0 /\ ~ locals[m].captured
    <3>1. m # 0 /\ ~ (m > 0 /\ locals[m].captured) BY <2>6, <2>9
    <3>2. PopsAt(locals, f, m) = PopN(m - Below(locals, m)) \o f[Below(locals, m)]
      BY <3>1 DEF PopsAt
    <3>3. f[m] = PopN(m - Below(locals, m)) \o f[Below(locals, m)]
      BY <2>5, <3>2
    <3>4. Below(locals, m) \in 0..m - 1 /\ m - Below(locals, m) \in Nat
      BY <2>6, <2>9, BelowIs
    <3>5. AreHarmless(f[Below(locals, m)]) BY <2>4, <3>4
    <3>6. AreHarmless(PopN(m - Below(locals, m))) BY <3>4, PopNHarmless
    <3> QED BY <2>3, <3>3, <3>5, <3>6, HarmlessConcat
  <2> QED BY <2>6, <2>7, <2>8, <2>9
<1>6. n \in 0..n BY <1>1
<1> HIDE DEF m
<1> QED BY <1>2, <1>5, <1>6

-----------------------------------------------------------------------------
(* What stays of a compiler while its function is compiled. *)

\* The depths of the scopes around, the loops to leave and the classes around.
Frame(depth, classes, loops) == [depth |-> depth, classes |-> classes, loops |-> loops]
Shape(c) == Frame(c.depth, c.classes, [i \in DOMAIN c.loops |-> c.loops[i].depth])

SameLocals(c, d) ==
    /\ Len(d.locals) = Len(c.locals)
    /\ \A i \in 1..Len(c.locals) : /\ d.locals[i].name = c.locals[i].name
                                   /\ d.locals[i].depth = c.locals[i].depth
                                   /\ d.locals[i].id = c.locals[i].id

MoreUpvalues(c, d) ==
    /\ Len(c.upvalues) <= Len(d.upvalues)
    /\ \A i \in 1..Len(c.upvalues) : d.upvalues[i] = c.upvalues[i]

\* d is c, but for captures, new upvalues, addresses to patch and code.
Alike(c, d) ==
    /\ IsCompiler(d) /\ d.type = c.type /\ Shape(d) = Shape(c)
    /\ SameLocals(c, d) /\ MoreUpvalues(c, d)

\* The fields of a compiler, the code apart.
Looks(d, type, locals, depth, loops, upvalues, classes) ==
    /\ IsCompiler(d)
    /\ d.type = type /\ d.locals = locals /\ d.depth = depth /\ d.loops = loops
    /\ d.upvalues = upvalues /\ d.classes = classes

LEMMA ShapeIs ==
    ASSUME NEW c, IsCompiler(c)
    PROVE  /\ Shape(c).depth = c.depth /\ Shape(c).classes = c.classes
           /\ IsSeq(Shape(c).loops) /\ Len(Shape(c).loops) = Len(c.loops)
           /\ \A i \in 1..Len(c.loops) : Shape(c).loops[i] = c.loops[i].depth
<1>1. IsSeq(c.loops) BY DEF IsCompiler
<1>2. Len(c.loops) \in Nat /\ DOMAIN c.loops = 1..Len(c.loops) BY <1>1, SeqIs
<1> DEFINE s == [i \in DOMAIN c.loops |-> c.loops[i].depth]
<1>3. s = [i \in 1..Len(c.loops) |-> s[i]] BY <1>2
<1>4. \A i \in 1..Len(c.loops) : s[i] = c.loops[i].depth BY <1>2
<1>5. Shape(c).depth = c.depth /\ Shape(c).classes = c.classes /\ Shape(c).loops = s
  BY DEF Shape, Frame
<1> HIDE DEF s
<1>6. IsSeq(s) /\ Len(s) = Len(c.loops) BY <1>2, <1>3, FunctionIs
<1> QED BY <1>4, <1>5, <1>6

LEMMA AlikeRefl == ASSUME NEW c, IsCompiler(c) PROVE Alike(c, c)
<1>1. Len(c.upvalues) \in Nat BY SeqIs DEF IsCompiler
<1> QED BY <1>1 DEF Alike, SameLocals, MoreUpvalues

LEMMA AlikeTrans ==
    ASSUME NEW c, NEW d, NEW e, IsCompiler(c), Alike(c, d), Alike(d, e)
    PROVE  Alike(c, e)
<1>1. Len(c.upvalues) \in Nat /\ Len(d.upvalues) \in Nat /\ Len(e.upvalues) \in Nat
  BY SeqIs DEF IsCompiler, Alike
<1>2. SameLocals(c, e) BY DEF Alike, SameLocals
<1>3. MoreUpvalues(c, e)
  <2>1. MoreUpvalues(c, d) /\ MoreUpvalues(d, e) BY DEF Alike
  <2>2. \A i \in 1..Len(c.upvalues) : i \in 1..Len(d.upvalues) BY <1>1, <2>1 DEF MoreUpvalues
  <2> QED BY <1>1, <2>1, <2>2 DEF MoreUpvalues
<1> QED BY <1>2, <1>3 DEF Alike

LEMMA CodedAlike == ASSUME NEW c, NEW d, IsCompiler(c), Coded(c, d) PROVE Alike(c, d)
<1>1. Len(c.upvalues) \in Nat BY SeqIs DEF IsCompiler
<1>2. Shape(d) = Shape(c) BY DEF Shape, Coded, SameButCode
<1>3. SameLocals(c, d) BY DEF Coded, SameButCode, SameLocals
<1>4. MoreUpvalues(c, d) BY <1>1 DEF Coded, SameButCode, MoreUpvalues
<1> QED BY <1>2, <1>3, <1>4 DEF Alike, Coded, SameButCode

(* One field of a compiler assigned. *)

LEMMA DepthIs ==
    ASSUME NEW c, IsCompiler(c), NEW x, x \in Nat
    PROVE  /\ Looks([c EXCEPT !.depth = x], c.type, c.locals, x, c.loops, c.upvalues, c.classes)
           /\ [c EXCEPT !.depth = x].code = c.code
<1>1. PICK type, arity, locals, depth, loops, upvalues, classes, exports, code, marks :
         c = [type |-> type, arity |-> arity, locals |-> locals, depth |-> depth,
              loops |-> loops, upvalues |-> upvalues, classes |-> classes,
              exports |-> exports, code |-> code, marks |-> marks]
  BY DEF IsCompiler
<1> QED BY <1>1 DEF Looks, IsCompiler

LEMMA LocalsAre ==
    ASSUME NEW c, IsCompiler(c), NEW x, IsSeq(x), \A i \in DOMAIN x : IsLocal(x[i])
    PROVE  /\ Looks([c EXCEPT !.locals = x], c.type, x, c.depth, c.loops, c.upvalues, c.classes)
           /\ [c EXCEPT !.locals = x].code = c.code
<1>1. PICK type, arity, locals, depth, loops, upvalues, classes, exports, code, marks :
         c = [type |-> type, arity |-> arity, locals |-> locals, depth |-> depth,
              loops |-> loops, upvalues |-> upvalues, classes |-> classes,
              exports |-> exports, code |-> code, marks |-> marks]
  BY DEF IsCompiler
<1> QED BY <1>1 DEF Looks, IsCompiler

LEMMA LoopsAre ==
    ASSUME NEW c, IsCompiler(c), NEW x, IsSeq(x), \A i \in DOMAIN x : IsLoop(x[i])
    PROVE  /\ Looks([c EXCEPT !.loops = x], c.type, c.locals, c.depth, x, c.upvalues, c.classes)
           /\ [c EXCEPT !.loops = x].code = c.code
<1>1. PICK type, arity, locals, depth, loops, upvalues, classes, exports, code, marks :
         c = [type |-> type, arity |-> arity, locals |-> locals, depth |-> depth,
              loops |-> loops, upvalues |-> upvalues, classes |-> classes,
              exports |-> exports, code |-> code, marks |-> marks]
  BY DEF IsCompiler
<1> QED BY <1>1 DEF Looks, IsCompiler

LEMMA UpvaluesAre ==
    ASSUME NEW c, IsCompiler(c), NEW x, IsSeq(x), \A i \in DOMAIN x : IsUpvalue(x[i])
    PROVE  /\ Looks([c EXCEPT !.upvalues = x], c.type, c.locals, c.depth, c.loops, x, c.classes)
           /\ [c EXCEPT !.upvalues = x].code = c.code
<1>1. PICK type, arity, locals, depth, loops, upvalues, classes, exports, code, marks :
         c = [type |-> type, arity |-> arity, locals |-> locals, depth |-> depth,
              loops |-> loops, upvalues |-> upvalues, classes |-> classes,
              exports |-> exports, code |-> code, marks |-> marks]
  BY DEF IsCompiler
<1> QED BY <1>1 DEF Looks, IsCompiler

LEMMA ClassesAre ==
    ASSUME NEW c, IsCompiler(c), NEW x, IsSeq(x)
    PROVE  /\ Looks([c EXCEPT !.classes = x], c.type, c.locals, c.depth, c.loops, c.upvalues, x)
           /\ [c EXCEPT !.classes = x].code = c.code
<1>1. PICK type, arity, locals, depth, loops, upvalues, classes, exports, code, marks :
         c = [type |-> type, arity |-> arity, locals |-> locals, depth |-> depth,
              loops |-> loops, upvalues |-> upvalues, classes |-> classes,
              exports |-> exports, code |-> code, marks |-> marks]
  BY DEF IsCompiler
<1> QED BY <1>1 DEF Looks, IsCompiler

LEMMA ExportsAre ==
    ASSUME NEW c, IsCompiler(c), NEW x
    PROVE  /\ Looks([c EXCEPT !.exports = x], c.type, c.locals, c.depth, c.loops, c.upvalues, c.classes)
           /\ [c EXCEPT !.exports = x].code = c.code
<1>1. PICK type, arity, locals, depth, loops, upvalues, classes, exports, code, marks :
         c = [type |-> type, arity |-> arity, locals |-> locals, depth |-> depth,
              loops |-> loops, upvalues |-> upvalues, classes |-> classes,
              exports |-> exports, code |-> code, marks |-> marks]
  BY DEF IsCompiler
<1> QED BY <1>1 DEF Looks, IsCompiler

LEMMA ArityIs ==
    ASSUME NEW c, IsCompiler(c), NEW x
    PROVE  /\ Looks([c EXCEPT !.arity = x], c.type, c.locals, c.depth, c.loops, c.upvalues, c.classes)
           /\ [c EXCEPT !.arity = x].code = c.code
<1>1. PICK type, arity, locals, depth, loops, upvalues, classes, exports, code, marks :
         c = [type |-> type, arity |-> arity, locals |-> locals, depth |-> depth,
              loops |-> loops, upvalues |-> upvalues, classes |-> classes,
              exports |-> exports, code |-> code, marks |-> marks]
  BY DEF IsCompiler
<1> QED BY <1>1 DEF Looks, IsCompiler

-----------------------------------------------------------------------------
(* The inductive invariant, first part: locals, loops and scopes. *)

\* The locals of a compiler lie in open scopes, outer ones first.
Ordered(c) ==
    /\ \A i \in 1..Len(c.locals) : c.locals[i].depth \in 0..c.depth
    /\ \A i \in 1..Len(c.locals) : \A j \in 1..Len(c.locals) :
          i <= j => c.locals[i].depth <= c.locals[j].depth

\* What a scope binds is a local, and a local with a name is bound to its declaration.
BoundAreLocals(c, s) ==
    \A d \in 0..c.depth : \A x \in DOMAIN s[d + 1] :
        \E i \in 1..Len(c.locals) : c.locals[i].depth = d /\ c.locals[i].name = x
LocalsAreBound(c, s) ==
    \A i \in 1..Len(c.locals) :
        c.locals[i].name # "" =>
            /\ c.locals[i].name \in DOMAIN s[c.locals[i].depth + 1]
            /\ s[c.locals[i].depth + 1][c.locals[i].name] = c.locals[i].id

\* The locals that a function's compiler counts are the names bound in the scopes.
Scoped(c, s) ==
    /\ IsSeq(s) /\ Len(s) = c.depth + 1
    /\ Ordered(c) /\ BoundAreLocals(c, s) /\ LocalsAreBound(c, s)

\* No loop is deeper than the scopes that are open.
GoodFrame(f) ==
    /\ f = Frame(f.depth, f.classes, f.loops)
    /\ f.depth \in Nat /\ IsSeq(f.classes) /\ IsSeq(f.loops)
    /\ \A i \in 1..Len(f.loops) : f.loops[i] \in 0..f.depth

\* An upvalue is a local or an upvalue of the function around.
InRange(u, c) == u.index + 1 \in IF u.isLocal THEN 1..Len(c.locals) ELSE 1..Len(c.upvalues)
Linked(cs) ==
    /\ Len(cs[1].upvalues) = 0
    /\ \A k \in 2..Len(cs) : \A i \in 1..Len(cs[k].upvalues) : InRange(cs[k].upvalues[i], cs[k - 1])

Compilers(cs) ==
    /\ IsSeq(cs) /\ Len(cs) > 0 /\ \A k \in 1..Len(cs) : IsCompiler(cs[k])
    /\ Linked(cs)

Scoping(cs, ss) ==
    /\ Compilers(cs) /\ IsSeq(ss) /\ Len(ss) = Len(cs)
    /\ \A k \in 1..Len(cs) : /\ Scoped(cs[k], ss[k]) /\ GoodFrame(Shape(cs[k]))
                             /\ (k = 1) <=> cs[k].type \in ProgramTypes

-----------------------------------------------------------------------------
(* The inductive invariant, second part: the parser's calls that wait, and the *)
(* frames of the compilers when they began.                                    *)

IsCall(p) ==
    p = [at |-> p.at, done |-> p.done, jump |-> p.jump, start |-> p.start, exit |-> p.exit,
         initial |-> p.initial, out |-> p.out, name |-> p.name]

\* What a call that waits has made of the frame it began in.
Inside(at, f, g) ==
    /\ at = "program" => g = f
    /\ at \in {"then", "else"} => g = f
    /\ at \in {"block", "try", "handler"} => g = Frame(f.depth + 1, f.classes, f.loops)
    /\ at \in {"while", "do"} => g = Frame(f.depth, f.classes, Append(f.loops, f.depth))
    /\ at = "for" => g = Frame(f.depth + 1, f.classes, Append(f.loops, f.depth + 1))
    /\ at = "class" => \/ g = Frame(f.depth, Append(f.classes, FALSE), f.loops)
                       \/ g = Frame(f.depth + 1, Append(f.classes, TRUE), f.loops)
    /\ at = "body" => g = Frame(1, f.classes, <<>>)

Kinds == {"program", "then", "else", "block", "try", "handler", "while", "do", "for", "class", "body"}

\* The variable of a function declaration is the last local while the body is compiled.
Declared(c, name) ==
    name # "none" => \/ IsGlobalScope(c)
                     \/ Len(c.locals) > 0 /\ c.locals[Len(c.locals)].depth = c.depth

NestedAs(level, frame, cs, ps) ==
    LET n == Len(ps) IN
    /\ IsSeq(ps) /\ n > 0 /\ \A j \in 1..n : IsCall(ps[j]) /\ ps[j].at \in Kinds
    /\ IsSeq(level) /\ IsSeq(frame) /\ Len(level) = n + 1 /\ Len(frame) = n + 1
    /\ level[1] = 1 /\ level[n + 1] = Len(cs) /\ frame[n + 1] = Shape(cs[Len(cs)])
    /\ \A j \in 1..n : /\ (ps[j].at = "program") <=> (j = 1)
                       /\ Inside(ps[j].at, frame[j], frame[j + 1])
                       /\ level[j + 1] = IF ps[j].at = "body" THEN level[j] + 1 ELSE level[j]
                       /\ level[j + 1] \in 1..j
                       /\ GoodFrame(frame[j])
    /\ \A i \in 1..n + 1 : \A j \in 1..n + 1 : i <= j => level[i] <= level[j]
    /\ \A j \in 1..n : ps[j].at = "body" => /\ frame[j] = Shape(cs[level[j]])
                                            /\ Declared(cs[level[j]], ps[j].name)

Nesting(cs, ps) == \E level, frame : NestedAs(level, frame, cs, ps)
-----------------------------------------------------------------------------
(* Scopes and locals. *)

LEMMA BeginScopeIs ==
    ASSUME NEW c, IsCompiler(c)
    PROVE  /\ Looks(BeginScope(c), c.type, c.locals, c.depth + 1, c.loops, c.upvalues, c.classes)
           /\ BeginScope(c).code = c.code
<1>1. c.depth + 1 \in Nat BY DEF IsCompiler
<1>2. BeginScope(c) = [c EXCEPT !.depth = c.depth + 1] BY DEF BeginScope
<1> QED BY <1>1, <1>2, DepthIs

\* The locals of the innermost scope are the last ones.
LEMMA DeeperIs ==
    ASSUME NEW c, IsCompiler(c), NEW s, Scoped(c, s), NEW d \in Int
    PROVE  \E kept \in 0..Len(c.locals) :
              /\ Cardinality(DeeperThan(c, d)) = Len(c.locals) - kept
              /\ \A i \in 1..Len(c.locals) : i <= kept <=> c.locals[i].depth <= d
<1>1. Len(c.locals) \in Nat /\ DOMAIN c.locals = 1..Len(c.locals) /\ c.depth \in Nat
  BY SeqIs DEF IsCompiler
<1> DEFINE n == Len(c.locals)
           S == {i \in 1..n : c.locals[i].depth <= d} \cup {0}
           m == Max(S)
           low(i) == c.locals[i].depth
<1>2. S \subseteq 0..n /\ S # {} BY <1>1
<1>3. m \in S /\ \A x \in S : x <= m BY <1>1, <1>2, MaxIs
<1>4. \A i \in 1..n : low(i) \in Int BY <1>1 DEF Scoped, Ordered
<1>5. m \in 0..n /\ (m # 0 => low(m) <= d)
  <2> HIDE DEF m
  <2> QED BY <1>1, <1>2, <1>3
<1>6. \A i \in 1..n : low(i) <= d => i <= m
  <2> HIDE DEF m
  <2> QED BY <1>3
<1> HIDE DEF m, S
<1>7. ASSUME NEW i \in 1..n, i <= m PROVE low(i) <= d
  <2>1. m \in 1..n BY <1>1, <1>5, <1>7
  <2>2. low(i) <= low(m) BY <1>7, <2>1 DEF Scoped, Ordered
  <2>3. low(m) <= d BY <1>5, <2>1
  <2>4. low(i) \in Int /\ low(m) \in Int BY <1>4, <2>1
  <2> QED BY <2>2, <2>3, <2>4
<1>8. DeeperThan(c, d) = m + 1..n
  <2>1. \A i \in 1..n : low(i) > d <=> i \in m + 1..n BY <1>1, <1>4, <1>5, <1>6, <1>7
  <2>2. m + 1..n \subseteq 1..n BY <1>1, <1>5
  <2> QED BY <1>1, <2>1, <2>2 DEF DeeperThan
<1>9. Cardinality(m + 1..n) = n - m
  <2>1. m + 1 \in Int /\ n \in Int BY <1>1, <1>5
  <2>2. Cardinality(m + 1..n) = IF m + 1 > n THEN 0 ELSE n - (m + 1) + 1 BY <2>1, FS_Interval
  <2> QED BY <1>1, <1>5, <2>2
<1>10. \A i \in 1..n : i <= m <=> low(i) <= d BY <1>6, <1>7
<1>11. Cardinality(DeeperThan(c, d)) = n - m BY <1>8, <1>9
<1>12. m \in 0..Len(c.locals) BY <1>5
<1> QED BY <1>10, <1>11, <1>12

\* A scope ends: its locals go, and the code that pops them accesses no variable.
LEMMA EndScopeIs ==
    ASSUME NEW c, IsCompiler(c), NEW s, Scoped(c, s), c.depth > 0
    PROVE  /\ IsCompiler(EndScope(c)) /\ EndScope(c).type = c.type
           /\ EndScope(c).depth = c.depth - 1 /\ EndScope(c).loops = c.loops
           /\ EndScope(c).upvalues = c.upvalues /\ EndScope(c).classes = c.classes
           /\ Scoped(EndScope(c), Front(s)) /\ Longer(c, EndScope(c))
<1>1. Len(c.locals) \in Nat /\ DOMAIN c.locals = 1..Len(c.locals) /\ c.depth \in Nat /\ IsSeq(c.locals)
  BY SeqIs DEF IsCompiler
<1>2. c.depth - 1 \in Nat BY <1>1
<1>3. PICK kept \in 0..Len(c.locals) :
         /\ Cardinality(DeeperThan(c, c.depth - 1)) = Len(c.locals) - kept
         /\ \A i \in 1..Len(c.locals) : i <= kept <=> c.locals[i].depth <= c.depth - 1
  <2> DEFINE d == c.depth - 1
  <2>1. d \in Int BY <1>2
  <2> HIDE DEF d
  <2>2. \E kept \in 0..Len(c.locals) :
           /\ Cardinality(DeeperThan(c, d)) = Len(c.locals) - kept
           /\ \A i \in 1..Len(c.locals) : i <= kept <=> c.locals[i].depth <= d
    BY <2>1, DeeperIs
  <2> QED BY <2>2 DEF d
<1>4. Len(c.locals) - Cardinality(DeeperThan(c, c.depth - 1)) = kept BY <1>1, <1>3
<1> DEFINE front == SubSeq(c.locals, 1, kept)
           back == SubSeq(c.locals, kept + 1, Len(c.locals))
           up == [c EXCEPT !.depth = c.depth - 1]
           low == [up EXCEPT !.locals = front]
<1>5. /\ IsSeq(front) /\ Len(front) = kept /\ \A i \in 1..kept : front[i] = c.locals[i]
  <2>1. 1 \in 1..Len(c.locals) + 1 /\ kept \in 0..Len(c.locals) /\ 1 <= kept + 1 BY <1>1
  <2>2. /\ IsSeq(front) /\ Len(front) = kept - 1 + 1
        /\ \A i \in 1..kept - 1 + 1 : front[i] = c.locals[1 + i - 1]
    BY <1>1, <2>1, SubSeqIs
  <2>3. kept - 1 + 1 = kept /\ \A i \in 1..kept : 1 + i - 1 = i BY <1>1
  <2> HIDE DEF front
  <2> QED BY <2>2, <2>3
<1>6. IsSeq(back)
  <2>1. kept + 1 \in 1..Len(c.locals) + 1 /\ Len(c.locals) \in 0..Len(c.locals)
        /\ kept + 1 <= Len(c.locals) + 1 BY <1>1
  <2> QED BY <1>1, <2>1, SubSeqIs
<1>7. EndScope(c) = Emit([c EXCEPT !.depth = c.depth - 1, !.locals = front], PopsOf(back))
  BY <1>4 DEF EndScope
<1>8. [c EXCEPT !.depth = c.depth - 1, !.locals = front] = low OBVIOUS
<1> HIDE DEF front, back
<1>9. DOMAIN front = 1..kept BY <1>5, SeqIs
<1>10. \A i \in DOMAIN front : IsLocal(front[i])
  <2>1. \A i \in 1..kept : i \in DOMAIN c.locals BY <1>1
  <2> QED BY <1>5, <1>9, <2>1 DEF IsCompiler
<1>11. /\ Looks(up, c.type, c.locals, c.depth - 1, c.loops, c.upvalues, c.classes)
       /\ up.code = c.code
  BY <1>2, DepthIs
<1> HIDE DEF up
<1>12. IsCompiler(up) BY <1>11 DEF Looks
<1>13. Looks(low, up.type, front, up.depth, up.loops, up.upvalues, up.classes) /\ low.code = up.code
  BY <1>5, <1>10, <1>12, LocalsAre
<1> HIDE DEF low
<1>14. IsCompiler(low) BY <1>13 DEF Looks
<1> DEFINE e == EndScope(c)
<1>15. e = Emit(low, PopsOf(back)) BY <1>7, <1>8
<1> HIDE DEF e
<1>16. Coded(low, e) BY <1>6, <1>14, <1>15, PopsOfHarmless, EmitCoded
<1>17. /\ IsCompiler(e) /\ e.type = c.type /\ e.locals = front /\ e.depth = c.depth - 1
       /\ e.loops = c.loops /\ e.upvalues = c.upvalues /\ e.classes = c.classes
  BY <1>11, <1>13, <1>16 DEF Coded, SameButCode, Looks
<1>18. Longer(c, e)
  <2>1. low.code = c.code BY <1>11, <1>13
  <2> QED BY <1>16, <2>1 DEF Coded, Longer
<1> DEFINE f == Front(s)
<1>19. /\ IsSeq(f) /\ Len(f) = c.depth /\ \A d \in 1..c.depth : f[d] = s[d]
  <2>1. IsSeq(s) /\ Len(s) = c.depth + 1 /\ Len(s) > 0 BY <1>1 DEF Scoped
  <2>2. c.depth + 1 - 1 = c.depth BY <1>1
  <2> HIDE DEF f
  <2>3. /\ IsSeq(f) /\ Len(f) = Len(s) - 1 /\ \A d \in 1..Len(s) - 1 : f[d] = s[d]
    BY <2>1, FrontIs DEF f
  <2>4. Len(s) - 1 = c.depth BY <1>1, <2>1
  <2> QED BY <2>3, <2>4
<1> HIDE DEF f
<1>20. Scoped(e, f)
  <2>1. IsSeq(f) /\ Len(f) = e.depth + 1 BY <1>1, <1>17, <1>19
  <2>2. \A i \in 1..Len(e.locals) : i \in 1..Len(c.locals) /\ e.locals[i] = c.locals[i]
    BY <1>1, <1>5, <1>17
  <2>3. \A i \in 1..Len(e.locals) : e.locals[i].depth \in 0..e.depth
    <3> SUFFICES ASSUME NEW i \in 1..Len(e.locals) PROVE e.locals[i].depth \in 0..e.depth OBVIOUS
    <3>1. c.locals[i].depth \in 0..c.depth BY <2>2 DEF Scoped, Ordered
    <3>2. i \in 1..kept BY <1>5, <1>17
    <3>3. c.locals[i].depth <= c.depth - 1 BY <1>3, <2>2, <3>2
    <3> QED BY <1>1, <1>17, <2>2, <3>1, <3>3
  <2>4. \A i \in 1..Len(e.locals) : \A j \in 1..Len(e.locals) :
           i <= j => e.locals[i].depth <= e.locals[j].depth
    BY <2>2 DEF Scoped, Ordered
  <2>5. \A d \in 0..e.depth : \A x \in DOMAIN f[d + 1] :
           \E i \in 1..Len(e.locals) : e.locals[i].depth = d /\ e.locals[i].name = x
    <3> SUFFICES ASSUME NEW d \in 0..e.depth, NEW x \in DOMAIN f[d + 1]
        PROVE  \E i \in 1..Len(e.locals) : e.locals[i].depth = d /\ e.locals[i].name = x
      OBVIOUS
    <3>1. d \in 0..c.depth /\ f[d + 1] = s[d + 1] BY <1>1, <1>17, <1>19
    <3>2. PICK i \in 1..Len(c.locals) : c.locals[i].depth = d /\ c.locals[i].name = x
      BY <3>1 DEF Scoped, BoundAreLocals
    <3>3. d <= c.depth - 1 BY <1>17, <1>1
    <3>4. i <= kept BY <1>3, <3>2, <3>3
    <3>5. i \in 1..Len(e.locals) BY <1>5, <1>17, <3>4
    <3> QED BY <2>2, <3>2, <3>5
  <2>6. \A i \in 1..Len(e.locals) :
           e.locals[i].name # "" =>
              /\ e.locals[i].name \in DOMAIN f[e.locals[i].depth + 1]
              /\ f[e.locals[i].depth + 1][e.locals[i].name] = e.locals[i].id
    <3> SUFFICES ASSUME NEW i \in 1..Len(e.locals), e.locals[i].name # ""
        PROVE  /\ e.locals[i].name \in DOMAIN f[e.locals[i].depth + 1]
               /\ f[e.locals[i].depth + 1][e.locals[i].name] = e.locals[i].id
      OBVIOUS
    <3>0. e.locals[i].depth \in 0..e.depth BY <2>3
    <3>a. e.depth = c.depth - 1 /\ c.depth \in Nat BY <1>1, <1>17
    <3>1. e.locals[i].depth + 1 \in 1..c.depth 
      <4>1. e.locals[i].depth \in 0..c.depth - 1 BY <3>a, <3>0
      <4> QED BY <3>a, <4>1, NextIn
    <3>2. f[e.locals[i].depth + 1] = s[e.locals[i].depth + 1] BY <1>19, <3>1
    <3> QED BY <2>2, <3>2 DEF Scoped, LocalsAreBound
  <2> QED BY <2>1, <2>3, <2>4, <2>5, <2>6 DEF Scoped, Ordered, BoundAreLocals, LocalsAreBound
<1> QED BY <1>17, <1>18, <1>20 DEF e, f

LEMMA AlikeScoped ==
    ASSUME NEW c, NEW d, NEW s, IsCompiler(c), Alike(c, d), Scoped(c, s)
    PROVE  Scoped(d, s)
<1>1. d.depth = c.depth BY ShapeIs DEF Alike
<1>2. /\ Len(d.locals) = Len(c.locals)
      /\ \A i \in 1..Len(c.locals) : /\ d.locals[i].name = c.locals[i].name
                                     /\ d.locals[i].depth = c.locals[i].depth
                                     /\ d.locals[i].id = c.locals[i].id
  BY DEF Alike, SameLocals
<1>3. Ordered(d) BY <1>1, <1>2 DEF Scoped, Ordered
<1>4. BoundAreLocals(d, s) BY <1>1, <1>2 DEF Scoped, BoundAreLocals
<1>5. LocalsAreBound(d, s) BY <1>1, <1>2 DEF Scoped, LocalsAreBound
<1> QED BY <1>1, <1>3, <1>4, <1>5 DEF Scoped

\* d is c with one more local, in the innermost scope.
OneMore(c, d, name, id) ==
    /\ Len(d.locals) = Len(c.locals) + 1
    /\ \A i \in 1..Len(c.locals) : /\ d.locals[i].name = c.locals[i].name
                                   /\ d.locals[i].depth = c.locals[i].depth
                                   /\ d.locals[i].id = c.locals[i].id
    /\ d.locals[Len(c.locals) + 1].name = name
    /\ d.locals[Len(c.locals) + 1].depth = c.depth
    /\ d.locals[Len(c.locals) + 1].id = id

Fresh(c, name) == \A i \in 1..Len(c.locals) : c.locals[i].depth = c.depth => c.locals[i].name # name

\* t is s with name bound to id in the innermost scope.
Bindings(s, t, name, id) ==
    LET n == Len(s) IN
    /\ IsSeq(t) /\ Len(t) = n /\ \A k \in 1..n - 1 : t[k] = s[k]
    /\ DOMAIN t[n] = DOMAIN s[n] \cup {name}
    /\ \A x \in DOMAIN t[n] : t[n][x] = IF x = name THEN id ELSE s[n][x]

LEMMA OneMoreScoped ==
    ASSUME NEW c, NEW d, NEW s, NEW t, NEW name, NEW id, IsCompiler(c), IsCompiler(d),
           d.depth = c.depth, Scoped(c, s), Fresh(c, name), OneMore(c, d, name, id),
           Bindings(s, t, name, id)
    PROVE  Scoped(d, t)
<1>1. Len(c.locals) \in Nat /\ c.depth \in Nat BY SeqIs DEF IsCompiler
<1>2. Len(s) = c.depth + 1 /\ Len(t) = c.depth + 1 /\ IsSeq(t) BY DEF Scoped, Bindings
<1>3. Len(s) - 1 = c.depth BY <1>1, <1>2
<1>4. \A k \in 1..c.depth : t[k] = s[k] BY <1>3 DEF Bindings
<1>5. /\ DOMAIN t[c.depth + 1] = DOMAIN s[c.depth + 1] \cup {name}
      /\ \A x \in DOMAIN t[c.depth + 1] :
            t[c.depth + 1][x] = IF x = name THEN id ELSE s[c.depth + 1][x]
  BY <1>2 DEF Bindings
<1> DEFINE n == Len(c.locals)
<1>6. /\ Len(d.locals) = n + 1
      /\ \A i \in 1..n : /\ d.locals[i].name = c.locals[i].name
                         /\ d.locals[i].depth = c.locals[i].depth
                         /\ d.locals[i].id = c.locals[i].id
      /\ d.locals[n + 1].name = name /\ d.locals[n + 1].depth = c.depth /\ d.locals[n + 1].id = id
  BY DEF OneMore
<1>7. \A i \in 1..n : c.locals[i].depth \in 0..c.depth BY DEF Scoped, Ordered
<1>8. \A i \in 1..n : \A j \in 1..n : i <= j => c.locals[i].depth <= c.locals[j].depth
  BY DEF Scoped, Ordered
<1>9. n \in Nat BY <1>1
<1> HIDE DEF n
<1>10. \A i \in 1..n + 1 : i \in 1..n \/ i = n + 1 BY <1>9
<1>11. Ordered(d)
  <2>1. \A i \in 1..n + 1 : d.locals[i].depth \in 0..c.depth BY <1>1, <1>6, <1>7, <1>10
  <2>2. ASSUME NEW i \in 1..n + 1, NEW j \in 1..n + 1, i <= j
        PROVE  d.locals[i].depth <= d.locals[j].depth
    <3>1. CASE j = n + 1
      <4>1. d.locals[i].depth \in 0..c.depth /\ d.locals[j].depth = c.depth BY <1>6, <2>1, <3>1
      <4> QED BY <1>1, <4>1
    <3>2. CASE j \in 1..n
      <4>1. i \in 1..n BY <1>9, <2>2, <3>2
      <4> QED BY <1>6, <1>8, <2>2, <3>2, <4>1
    <3> QED BY <1>10, <3>1, <3>2
  <2> QED BY <1>6, <2>1, <2>2 DEF Ordered
<1>12. BoundAreLocals(d, t)
  <2> SUFFICES ASSUME NEW k \in 0..c.depth, NEW x \in DOMAIN t[k + 1]
      PROVE  \E i \in 1..n + 1 : d.locals[i].depth = k /\ d.locals[i].name = x
    BY <1>6 DEF BoundAreLocals
  <2>1. CASE x \in DOMAIN s[k + 1]
    <3>1. PICK i \in 1..Len(c.locals) : c.locals[i].depth = k /\ c.locals[i].name = x
      BY <2>1 DEF Scoped, BoundAreLocals
    <3>2. i \in 1..n BY <3>1 DEF n
    <3>3. i \in 1..n + 1 BY <1>9, <3>2
    <3> QED BY <1>6, <3>1, <3>2, <3>3
  <2>2. CASE x \notin DOMAIN s[k + 1]
    <3>1. k = c.depth
      <4>1. CASE k # c.depth
        <5>1. k + 1 \in 1..c.depth BY <1>1, <4>1
        <5> QED BY <1>4, <2>2, <5>1
      <4> QED BY <4>1
    <3>2. x = name BY <1>5, <2>2, <3>1
    <3>3. n + 1 \in 1..n + 1 BY <1>9
    <3> QED BY <1>6, <3>1, <3>2, <3>3
  <2> QED BY <2>1, <2>2
<1>13. LocalsAreBound(d, t)
  <2> SUFFICES ASSUME NEW i \in 1..n + 1, d.locals[i].name # ""
      PROVE  /\ d.locals[i].name \in DOMAIN t[d.locals[i].depth + 1]
             /\ t[d.locals[i].depth + 1][d.locals[i].name] = d.locals[i].id
    BY <1>6 DEF LocalsAreBound
  <2>1. CASE i = n + 1 BY <1>5, <1>6, <2>1
  <2>2. CASE i \in 1..n
    <3>1. i \in 1..Len(c.locals) BY <2>2 DEF n
    <3> DEFINE l == c.locals[i]
    <3>2. d.locals[i].name = l.name /\ d.locals[i].depth = l.depth /\ d.locals[i].id = l.id
      BY <1>6, <2>2
    <3>3. l.name \in DOMAIN s[l.depth + 1] /\ s[l.depth + 1][l.name] = l.id
      BY <3>1, <3>2 DEF Scoped, LocalsAreBound
    <3>4. l.depth \in 0..c.depth BY <1>7, <2>2
    <3>5. CASE l.depth = c.depth
      <4>1. l.name # name BY <3>1, <3>5 DEF Fresh
      <4>2. l.name \in DOMAIN t[l.depth + 1] BY <1>5, <3>3, <3>5
      <4>3. t[l.depth + 1][l.name] = s[l.depth + 1][l.name] BY <1>5, <3>5, <4>1, <4>2
      <4> QED BY <3>2, <3>3, <4>2, <4>3
    <3>6. CASE l.depth # c.depth
      <4> HIDE DEF l
      <4>2. l.depth + 1 \in 1..c.depth BY <1>1, <3>4, <3>6, NextIn
      <4>3. t[l.depth + 1] = s[l.depth + 1] BY <1>4, <4>2
      <4> QED BY <3>2, <3>3, <4>3
    <3> QED BY <3>5, <3>6
  <2> QED BY <1>10, <2>1, <2>2
<1> QED BY <1>2, <1>11, <1>12, <1>13 DEF Scoped

(* Declaring a variable adds a local, or nothing in the global scope. *)

LEMMA DeclareIs ==
    ASSUME NEW c, IsCompiler(c), NEW name, NEW id, ~ IsGlobalScope(c)
    PROVE  /\ Looks(DeclareVariable(c, name, id), c.type, Append(c.locals, Local(name, -1, id)),
                    c.depth, c.loops, c.upvalues, c.classes)
           /\ DeclareVariable(c, name, id).code = c.code
<1> DEFINE l == Local(name, -1, id)
           ls == Append(c.locals, l)
<1>1. IsSeq(c.locals) /\ Len(c.locals) \in Nat /\ DOMAIN c.locals = 1..Len(c.locals)
  BY SeqIs DEF IsCompiler
<1>2. IsLocal(l) BY DEF IsLocal, Local
<1>3. DeclareVariable(c, name, id) = [c EXCEPT !.locals = ls] BY DEF DeclareVariable
<1> HIDE DEF l
<1>4. /\ IsSeq(ls) /\ Len(ls) = Len(c.locals) + 1
      /\ \A i \in 1..Len(c.locals) : ls[i] = c.locals[i]
      /\ ls[Len(c.locals) + 1] = l
  BY <1>1, AppendIs
<1> HIDE DEF ls
<1>5. DOMAIN ls = 1..Len(c.locals) + 1 BY <1>4, SeqIs
<1>6. \A i \in DOMAIN ls : IsLocal(ls[i])
  <2> SUFFICES ASSUME NEW i \in 1..Len(c.locals) + 1 PROVE IsLocal(ls[i]) BY <1>5
  <2>1. CASE i = Len(c.locals) + 1 BY <1>2, <1>4, <2>1
  <2>2. CASE i \in 1..Len(c.locals) BY <1>1, <1>4, <2>2 DEF IsCompiler
  <2> QED BY <1>1, <2>1, <2>2
<1>7. /\ Looks([c EXCEPT !.locals = ls], c.type, ls, c.depth, c.loops, c.upvalues, c.classes)
      /\ [c EXCEPT !.locals = ls].code = c.code
  BY <1>4, <1>6, LocalsAre
<1> QED BY <1>3, <1>7 DEF ls, l

\* d is c with its last local initialised.
LastMarked(c, d) ==
    /\ Len(d.locals) = Len(c.locals)
    /\ \A i \in 1..Len(c.locals) :
          /\ d.locals[i].name = c.locals[i].name /\ d.locals[i].id = c.locals[i].id
          /\ d.locals[i].depth = IF i = Len(c.locals) THEN c.depth ELSE c.locals[i].depth

LEMMA MarkIs ==
    ASSUME NEW c, IsCompiler(c), Len(c.locals) > 0, ~ IsGlobalScope(c)
    PROVE  /\ Looks(MarkInitialised(c), c.type, MarkInitialised(c).locals, c.depth, c.loops,
                    c.upvalues, c.classes)
           /\ MarkInitialised(c).code = c.code /\ LastMarked(c, MarkInitialised(c))
<1>1. IsSeq(c.locals) /\ Len(c.locals) \in Nat /\ DOMAIN c.locals = 1..Len(c.locals)
  BY SeqIs DEF IsCompiler
<1> DEFINE n == Len(c.locals)
           ls == [c.locals EXCEPT ![n].depth = c.depth]
<1>2. MarkInitialised(c) = [c EXCEPT !.locals = ls] BY DEF MarkInitialised
<1>3. n \in 1..n BY <1>1
<1>4. \A i \in 1..n : IsLocal(c.locals[i]) BY <1>1 DEF IsCompiler
<1>5. \A i \in 1..n : i # n => ls[i] = c.locals[i] BY <1>1
<1>6. /\ IsLocal(ls[n]) /\ ls[n].name = c.locals[n].name /\ ls[n].id = c.locals[n].id
      /\ ls[n].depth = c.depth
  <2>1. ls[n] = [c.locals[n] EXCEPT !.depth = c.depth] BY <1>1, <1>3
  <2>2. PICK nm, dp, cp, id : c.locals[n] = [name |-> nm, depth |-> dp, captured |-> cp, id |-> id]
    BY <1>3, <1>4 DEF IsLocal
  <2>3. ls[n] = [name |-> nm, depth |-> c.depth, captured |-> cp, id |-> id] BY <2>1, <2>2
  <2> HIDE DEF ls
  <2> QED BY <2>2, <2>3 DEF IsLocal
<1>7. ls = [i \in 1..n |-> ls[i]] BY <1>1
<1> HIDE DEF ls
<1>8. IsSeq(ls) /\ Len(ls) = n
  <2> HIDE DEF n
  <2> QED BY <1>1, <1>7, FunctionIs DEF n
<1>9. DOMAIN ls = 1..n BY <1>8, SeqIs
<1>10. \A i \in DOMAIN ls : IsLocal(ls[i])
  <2> SUFFICES ASSUME NEW i \in 1..n PROVE IsLocal(ls[i]) BY <1>9
  <2>1. CASE i = n BY <1>6, <2>1
  <2>2. CASE i # n
    <3>1. ls[i] = c.locals[i] BY <1>5, <2>2
    <3> QED BY <1>4, <3>1
  <2> QED BY <2>1, <2>2
<1>11. /\ Looks([c EXCEPT !.locals = ls], c.type, ls, c.depth, c.loops, c.upvalues, c.classes)
       /\ [c EXCEPT !.locals = ls].code = c.code
  BY <1>8, <1>10, LocalsAre
<1> DEFINE d == MarkInitialised(c)
<1>12. d = [c EXCEPT !.locals = ls] BY <1>2
<1> HIDE DEF d
<1>13. d.locals = ls /\ Looks(d, c.type, ls, c.depth, c.loops, c.upvalues, c.classes) /\ d.code = c.code
  BY <1>11, <1>12 DEF Looks
<1>14. LastMarked(c, d)
  <2> SUFFICES ASSUME NEW i \in 1..n
      PROVE  /\ ls[i].name = c.locals[i].name /\ ls[i].id = c.locals[i].id
             /\ ls[i].depth = IF i = n THEN c.depth ELSE c.locals[i].depth
    BY <1>8, <1>13 DEF LastMarked
  <2>1. CASE i = n BY <1>6, <2>1
  <2>2. CASE i # n
    <3>1. ls[i] = c.locals[i] BY <1>5, <2>2
    <3> QED BY <2>2, <3>1
  <2> QED BY <2>1, <2>2
<1> QED BY <1>13, <1>14 DEF d

\* What define_variable does: the last local is initialised, or the global defined.
LEMMA DefineIs ==
    ASSUME NEW c, IsCompiler(c), NEW name, ~ IsGlobalScope(c) => Len(c.locals) > 0
    PROVE  LET d == DefineVariable(c, name) IN
           /\ Looks(d, c.type, d.locals, c.depth, c.loops, c.upvalues, c.classes)
           /\ Longer(c, d)
           /\ IF IsGlobalScope(c) THEN d.locals = c.locals /\ d.code = c.code \o <<Op("DEFINE_GLOBAL")>>
                                  ELSE LastMarked(c, d) /\ d.code = c.code
<1> DEFINE d == DefineVariable(c, name)
<1>1. Len(c.code) \in Nat /\ c.depth \in Nat BY SeqIs DEF IsCompiler
<1>2. CASE IsGlobalScope(c)
  <2>1. c.depth = 0 /\ c.type # "module" BY <1>2 DEF IsGlobalScope
  <2>2. ~ (c.depth > 0) /\ ~ (c.depth = 0 /\ c.type = "module") BY <2>1
  <2>3. d = Emit(c, <<Op("DEFINE_GLOBAL")>>) BY <2>2 DEF DefineVariable
  <2>4. AreHarmless(<<Op("DEFINE_GLOBAL")>>) BY HarmlessOps, HarmlessTuples DEF Accesses
  <2>5. Coded(c, d) BY <2>3, <2>4, EmitCoded
  <2>6. d.code = c.code \o <<Op("DEFINE_GLOBAL")>> BY <2>3, <2>4, EmitIs DEF AreHarmless
  <2> HIDE DEF d
  <2> QED BY <1>2, <2>5, <2>6 DEF Coded, SameButCode, Looks, d
<1>3. CASE ~ IsGlobalScope(c)
  <2> DEFINE m == MarkInitialised(c)
  <2>1. /\ Looks(m, c.type, m.locals, c.depth, c.loops, c.upvalues, c.classes)
        /\ m.code = c.code /\ LastMarked(c, m)
    BY <1>3, MarkIs
  <2>2. PICK x : d = m \/ d = [m EXCEPT !.exports = x]
    <3>1. CASE c.depth > 0
      <4>1. d = m BY <3>1 DEF DefineVariable
      <4> QED BY <4>1
    <3>2. CASE ~ (c.depth > 0)
      <4>1. c.depth = 0 /\ c.type = "module" BY <1>1, <1>3, <3>2 DEF IsGlobalScope
      <4>2. d = [m EXCEPT !.exports = Append(@, [slot |-> Len(c.locals) - 1, name |-> name])]
        BY <3>2, <4>1 DEF DefineVariable
      <4> QED BY <4>2
    <3> QED BY <3>1, <3>2
  <2> HIDE DEF m
  <2>3. IsCompiler(m) BY <2>1 DEF Looks
  <2> DEFINE e == [m EXCEPT !.exports = x]
  <2>4. Looks(e, m.type, m.locals, m.depth, m.loops, m.upvalues, m.classes) /\ e.code = m.code
    BY <2>3, ExportsAre
  <2>5. d = m \/ d = e BY <2>2
  <2> HIDE DEF d, e
  <2>6. Looks(d, c.type, m.locals, c.depth, c.loops, c.upvalues, c.classes) /\ d.code = c.code
    BY <2>1, <2>4, <2>5 DEF Looks
  <2>7. d.locals = m.locals BY <2>6 DEF Looks
  <2>8. LastMarked(c, d) BY <2>1, <2>7 DEF LastMarked
  <2>9. Longer(c, d) BY <1>1, <2>6 DEF Longer
  <2> QED BY <1>3, <2>6, <2>7, <2>8, <2>9 DEF d
<1> QED BY <1>2, <1>3

\* d is c after a declaration of name.
Adds(c, d, name, id) ==
    /\ IsCompiler(d) /\ d.type = c.type /\ Shape(d) = Shape(c) /\ MoreUpvalues(c, d)
    /\ IF IsGlobalScope(c) THEN SameLocals(c, d) ELSE OneMore(c, d, name, id)

LEMMA ShapeSame ==
    ASSUME NEW c, NEW d, d.depth = c.depth, d.classes = c.classes, d.loops = c.loops
    PROVE  Shape(d) = Shape(c)
  BY DEF Shape

LEMMA LooksAlike ==
    ASSUME NEW c, NEW d, IsCompiler(c),
           Looks(d, c.type, c.locals, c.depth, c.loops, c.upvalues, c.classes)
    PROVE  Alike(c, d)
<1>1. Len(c.upvalues) \in Nat BY SeqIs DEF IsCompiler
<1>2. Shape(d) = Shape(c) BY ShapeSame DEF Looks
<1>3. SameLocals(c, d) BY DEF Looks, SameLocals
<1>4. MoreUpvalues(c, d) BY <1>1 DEF Looks, MoreUpvalues
<1> QED BY <1>2, <1>3, <1>4 DEF Alike, Looks

\* The variable declared, then anything compiled, then the local initialised.
LEMMA AddsIs ==
    ASSUME NEW c, NEW d, NEW e, NEW name, NEW id, IsCompiler(c),
           Alike(DeclareVariable(c, name, id), d),
           Looks(e, d.type, e.locals, d.depth, d.loops, d.upvalues, d.classes),
           IF IsGlobalScope(d) THEN e.locals = d.locals ELSE LastMarked(d, e)
    PROVE  Adds(c, e, name, id)
<1> DEFINE b == DeclareVariable(c, name, id)
<1>1. CASE IsGlobalScope(c)
  <2>1. b = c BY <1>1 DEF DeclareVariable
  <2>2. Alike(c, d) BY <2>1
  <2>3. d.depth = c.depth /\ d.type = c.type BY <2>2, ShapeIs DEF Alike
  <2>4. IsGlobalScope(d) BY <1>1, <2>3 DEF IsGlobalScope
  <2>5. Looks(e, d.type, d.locals, d.depth, d.loops, d.upvalues, d.classes) BY <2>4 DEF Looks
  <2>6. Alike(d, e) BY <2>2, <2>5, LooksAlike DEF Alike
  <2>7. Alike(c, e) BY <2>2, <2>6, AlikeTrans
  <2> QED BY <1>1, <2>7 DEF Adds, Alike
<1>2. CASE ~ IsGlobalScope(c)
  <2> DEFINE ls == Append(c.locals, Local(name, -1, id))
  <2>1. Looks(b, c.type, ls, c.depth, c.loops, c.upvalues, c.classes) BY <1>2, DeclareIs
  <2>2. Alike(b, d) OBVIOUS
  <2> HIDE DEF b
  <2>3. IsCompiler(b) /\ IsCompiler(d) /\ IsCompiler(e) BY <2>1, <2>2 DEF Looks, Alike
  <2>4. Shape(b) = Shape(c) /\ Shape(d) = Shape(b) /\ Shape(e) = Shape(d)
    BY <2>1, <2>2, ShapeSame DEF Looks, Alike
  <2>5. d.depth = c.depth /\ d.type = c.type /\ e.type = c.type
    BY <2>1, <2>2, <2>3, <2>4, ShapeIs DEF Looks, Alike
  <2>6. ~ IsGlobalScope(d) BY <1>2, <2>5 DEF IsGlobalScope
  <2>7. LastMarked(d, e) BY <2>6
  <2>8. Len(c.upvalues) \in Nat /\ Len(d.upvalues) \in Nat /\ IsSeq(c.locals) /\ Len(c.locals) \in Nat
    BY <2>3, SeqIs DEF IsCompiler
  <2>9. MoreUpvalues(c, e)
    <3>1. b.upvalues = c.upvalues /\ e.upvalues = d.upvalues /\ MoreUpvalues(b, d)
      BY <2>1, <2>2 DEF Looks, Alike
    <3> QED BY <3>1 DEF MoreUpvalues
  <2>10. /\ Len(ls) = Len(c.locals) + 1 /\ \A i \in 1..Len(c.locals) : ls[i] = c.locals[i]
         /\ ls[Len(c.locals) + 1] = Local(name, -1, id)
    BY <2>8, AppendIs
  <2>11. b.locals = ls BY <2>1 DEF Looks
  <2> HIDE DEF ls
  <2>12. SameLocals(b, d) BY <2>2 DEF Alike
  <2>13. OneMore(c, e, name, id)
    <3> DEFINE n == Len(c.locals)
    <3>1. Len(d.locals) = n + 1 /\ Len(e.locals) = n + 1
      BY <2>7, <2>10, <2>11, <2>12 DEF SameLocals, LastMarked
    <3>2. \A i \in 1..n : i \in 1..n + 1 /\ i # n + 1 BY <2>8
    <3>3. n + 1 \in 1..n + 1 BY <2>8
    <3>4. ASSUME NEW i \in 1..n
          PROVE  /\ e.locals[i].name = c.locals[i].name /\ e.locals[i].depth = c.locals[i].depth
                 /\ e.locals[i].id = c.locals[i].id
      <4>1. i \in 1..n + 1 /\ i # n + 1 /\ ls[i] = c.locals[i] BY <2>10, <3>2
      <4>2. /\ d.locals[i].name = ls[i].name /\ d.locals[i].depth = ls[i].depth
            /\ d.locals[i].id = ls[i].id
        BY <2>10, <2>11, <2>12, <4>1 DEF SameLocals
      <4>3. /\ e.locals[i].name = d.locals[i].name /\ e.locals[i].id = d.locals[i].id
            /\ e.locals[i].depth = d.locals[i].depth
        BY <2>7, <3>1, <4>1 DEF LastMarked
      <4> QED BY <4>1, <4>2, <4>3
    <3>5. /\ e.locals[n + 1].name = name /\ e.locals[n + 1].depth = c.depth
          /\ e.locals[n + 1].id = id
      <4>1. ls[n + 1].name = name /\ ls[n + 1].id = id BY <2>10 DEF Local
      <4>2. d.locals[n + 1].name = ls[n + 1].name /\ d.locals[n + 1].id = ls[n + 1].id
        BY <2>10, <2>11, <2>12, <3>3 DEF SameLocals
      <4>3. /\ e.locals[n + 1].name = d.locals[n + 1].name /\ e.locals[n + 1].id = d.locals[n + 1].id
            /\ e.locals[n + 1].depth = d.depth
        BY <2>7, <3>1, <3>3 DEF LastMarked
      <4> QED BY <2>5, <4>1, <4>2, <4>3
    <3> QED BY <3>1, <3>4, <3>5 DEF OneMore
  <2> QED BY <1>2, <2>3, <2>4, <2>5, <2>9, <2>13 DEF Adds
<1> QED BY <1>1, <1>2

\* The scopes after a declaration of name.
Binds(c, s, t, name, id) == IF IsGlobalScope(c) THEN t = s ELSE Bindings(s, t, name, id)

LEMMA AddsScoped ==
    ASSUME NEW c, NEW d, NEW s, NEW t, NEW name, NEW id, IsCompiler(c), Scoped(c, s),
           CanDeclare(c, name), Adds(c, d, name, id), Binds(c, s, t, name, id)
    PROVE  Scoped(d, t)
<1>1. CASE IsGlobalScope(c)
  <2>1. Alike(c, d) BY <1>1 DEF Adds, Alike
  <2> QED BY <1>1, <2>1, AlikeScoped DEF Binds
<1>2. CASE ~ IsGlobalScope(c)
  <2>1. DOMAIN c.locals = 1..Len(c.locals) BY SeqIs DEF IsCompiler
  <2>2. Fresh(c, name) BY <1>2, <2>1 DEF CanDeclare, InThisScope, Fresh
  <2>3. d.depth = c.depth /\ IsCompiler(d) BY ShapeIs DEF Adds
  <2> QED BY <1>2, <2>2, <2>3, OneMoreScoped DEF Adds, Binds
<1> QED BY <1>1, <1>2

-----------------------------------------------------------------------------
(* Loops. *)

LEMMA SameSeqs ==
    ASSUME NEW s, NEW t, IsSeq(s), IsSeq(t), Len(s) = Len(t), \A i \in 1..Len(s) : s[i] = t[i]
    PROVE  s = t
<1>1. PICK S : s \in Seq(S) BY DEF IsSeq
<1>2. PICK T : t \in Seq(T) BY DEF IsSeq
<1> DEFINE U == S \cup T
<1>3. s \in Seq(U) /\ t \in Seq(U) BY <1>1, <1>2, SeqMonotonic
<1> HIDE DEF U
<1> QED BY <1>3

\* A list with one more at its end, and without it again.
LEMMA FrontAppend ==
    ASSUME NEW s, NEW e, IsSeq(s)
    PROVE  Front(Append(s, e)) = s /\ Last(Append(s, e)) = e
<1> DEFINE t == Append(s, e)
<1>1. /\ IsSeq(t) /\ Len(t) = Len(s) + 1 /\ \A i \in 1..Len(s) : t[i] = s[i]
      /\ t[Len(s) + 1] = e
  BY AppendIs
<1>2. Len(s) \in Nat BY SeqIs
<1> HIDE DEF t
<1>3. Len(t) > 0 /\ Len(t) - 1 = Len(s) BY <1>1, <1>2
<1>4. /\ IsSeq(Front(t)) /\ Len(Front(t)) = Len(t) - 1
      /\ \A i \in 1..Len(t) - 1 : Front(t)[i] = t[i]
      /\ Last(t) = t[Len(t)]
  BY <1>1, <1>3, FrontIs
<1>5. Front(t) = s
  <2>1. Len(Front(t)) = Len(s) BY <1>3, <1>4
  <2>2. \A i \in 1..Len(Front(t)) : Front(t)[i] = s[i] BY <1>1, <1>3, <1>4
  <2> QED BY <1>4, <2>1, <2>2, SameSeqs
<1> QED BY <1>1, <1>4, <1>5 DEF t

\* The loops of a compiler with the same ones, one more or one fewer.
LEMMA ShapeFrom ==
    ASSUME NEW c, IsCompiler(c), NEW depth, NEW classes, NEW ls, IsSeq(ls),
           c.depth = depth, c.classes = classes, Len(c.loops) = Len(ls),
           \A i \in 1..Len(ls) : c.loops[i].depth = ls[i]
    PROVE  Shape(c) = Frame(depth, classes, ls)
<1> DEFINE s == Shape(c).loops
<1>1. IsSeq(s) /\ Len(s) = Len(c.loops) /\ \A i \in 1..Len(c.loops) : s[i] = c.loops[i].depth
  BY ShapeIs
<1>2. Shape(c) = Frame(c.depth, c.classes, s) BY DEF Shape, Frame
<1> HIDE DEF s
<1>3. s = ls
  <2>1. Len(s) = Len(ls) /\ \A i \in 1..Len(s) : s[i] = ls[i] BY <1>1
  <2> QED BY <1>1, <2>1, SameSeqs
<1> QED BY <1>2, <1>3

LEMMA PushLoopIs ==
    ASSUME NEW c, IsCompiler(c), NEW start
    PROVE  LET d == PushLoop(c, start) IN
           /\ Looks(d, c.type, c.locals, c.depth, d.loops, c.upvalues, c.classes)
           /\ d.code = c.code
           /\ Shape(d) = Frame(c.depth, c.classes, Append(Shape(c).loops, c.depth))
<1> DEFINE l == [continue |-> start, depth |-> c.depth, breaks |-> <<>>, continues |-> <<>>]
           ls == Append(c.loops, l)
           d == PushLoop(c, start)
<1>1. IsSeq(c.loops) /\ Len(c.loops) \in Nat /\ DOMAIN c.loops = 1..Len(c.loops)
  BY SeqIs DEF IsCompiler
<1>2. IsLoop(l) /\ l.depth = c.depth BY DEF IsLoop, IsCompiler
<1>3. d = [c EXCEPT !.loops = ls] BY DEF PushLoop
<1> HIDE DEF l, d
<1>4. /\ IsSeq(ls) /\ Len(ls) = Len(c.loops) + 1
      /\ \A i \in 1..Len(c.loops) : ls[i] = c.loops[i]
      /\ ls[Len(c.loops) + 1] = l
  BY <1>1, AppendIs
<1> HIDE DEF ls
<1>5. DOMAIN ls = 1..Len(c.loops) + 1 BY <1>4, SeqIs
<1>6. \A i \in DOMAIN ls : IsLoop(ls[i])
  <2> SUFFICES ASSUME NEW i \in 1..Len(c.loops) + 1 PROVE IsLoop(ls[i]) BY <1>5
  <2>1. CASE i = Len(c.loops) + 1 BY <1>2, <1>4, <2>1
  <2>2. CASE i \in 1..Len(c.loops) BY <1>1, <1>4, <2>2 DEF IsCompiler
  <2> QED BY <1>1, <2>1, <2>2
<1>7. Looks(d, c.type, c.locals, c.depth, ls, c.upvalues, c.classes) /\ d.code = c.code
  BY <1>3, <1>4, <1>6, LoopsAre
<1>8. IsCompiler(d) /\ d.loops = ls /\ d.depth = c.depth /\ d.classes = c.classes BY <1>7 DEF Looks
<1> DEFINE old == Shape(c).loops
           new == Append(old, c.depth)
<1>9. IsSeq(old) /\ Len(old) = Len(c.loops) /\ \A i \in 1..Len(c.loops) : old[i] = c.loops[i].depth
  BY ShapeIs
<1> HIDE DEF old
<1>10. /\ IsSeq(new) /\ Len(new) = Len(c.loops) + 1
       /\ \A i \in 1..Len(c.loops) : new[i] = old[i]
       /\ new[Len(c.loops) + 1] = c.depth
  BY <1>9, AppendIs
<1> HIDE DEF new
<1>11. \A i \in 1..Len(new) : d.loops[i].depth = new[i]
  <2> SUFFICES ASSUME NEW i \in 1..Len(c.loops) + 1 PROVE ls[i].depth = new[i] BY <1>8, <1>10
  <2>1. CASE i = Len(c.loops) + 1 BY <1>2, <1>4, <1>10, <2>1
  <2>2. CASE i \in 1..Len(c.loops) BY <1>4, <1>9, <1>10, <2>2
  <2> QED BY <1>1, <2>1, <2>2
<1>12. Shape(d) = Frame(c.depth, c.classes, new) BY <1>4, <1>8, <1>10, <1>11, ShapeFrom
<1> QED BY <1>7, <1>8, <1>12 DEF d, new, old

LEMMA LeaveLoopIs ==
    ASSUME NEW c, IsCompiler(c), NEW loops, NEW depth, IsSeq(loops),
           Shape(c).loops = Append(loops, depth)
    PROVE  LET d == LeaveLoop(c) IN
           /\ Looks(d, c.type, c.locals, c.depth, d.loops, c.upvalues, c.classes)
           /\ Longer(c, d)
           /\ Shape(d) = Frame(c.depth, c.classes, loops)
<1> DEFINE p == PatchJumps(c, Last(c.loops).breaks)
           ls == Front(p.loops)
           d == LeaveLoop(c)
<1>1. Coded(c, p) BY PatchJumpsCoded
<1>2. d = [p EXCEPT !.loops = ls] BY DEF LeaveLoop
<1> HIDE DEF p
<1>3. /\ IsCompiler(p) /\ p.loops = c.loops /\ p.depth = c.depth /\ p.classes = c.classes
      /\ p.type = c.type /\ p.locals = c.locals /\ p.upvalues = c.upvalues
  BY <1>1 DEF Coded, SameButCode
<1>4. IsSeq(c.loops) /\ Len(c.loops) \in Nat /\ DOMAIN c.loops = 1..Len(c.loops) /\ Len(loops) \in Nat
  BY SeqIs DEF IsCompiler
<1>5. Len(c.loops) = Len(loops) + 1 BY ShapeIs, AppendIs
<1>6. /\ IsSeq(ls) /\ Len(ls) = Len(c.loops) - 1 /\ \A i \in 1..Len(c.loops) - 1 : ls[i] = c.loops[i]
  <2>1. IsSeq(p.loops) /\ Len(p.loops) > 0 /\ p.loops = c.loops BY <1>3, <1>4, <1>5
  <2>2. /\ IsSeq(Front(p.loops)) /\ Len(Front(p.loops)) = Len(p.loops) - 1
        /\ \A i \in 1..Len(p.loops) - 1 : Front(p.loops)[i] = p.loops[i]
    BY <2>1, FrontIs
  <2> QED BY <2>1, <2>2
<1>7. Len(c.loops) - 1 = Len(loops) /\ \A i \in 1..Len(loops) : i \in 1..Len(c.loops)
  BY <1>4, <1>5
<1> HIDE DEF ls, d
<1>8. DOMAIN ls = 1..Len(loops) BY <1>6, <1>7, SeqIs
<1>9. \A i \in DOMAIN ls : IsLoop(ls[i]) BY <1>4, <1>6, <1>7, <1>8 DEF IsCompiler
<1>10. Looks(d, p.type, p.locals, p.depth, ls, p.upvalues, p.classes) /\ d.code = p.code
  BY <1>2, <1>3, <1>6, <1>9, LoopsAre
<1>11. IsCompiler(d) /\ d.loops = ls /\ d.depth = c.depth /\ d.classes = c.classes
  BY <1>3, <1>10 DEF Looks
<1>12. \A i \in 1..Len(loops) : d.loops[i].depth = loops[i]
  <2> SUFFICES ASSUME NEW i \in 1..Len(loops) PROVE ls[i].depth = loops[i] BY <1>11
  <2>1. Append(loops, depth)[i] = loops[i] BY AppendIs
  <2>2. Shape(c).loops[i] = c.loops[i].depth BY <1>7, ShapeIs
  <2> QED BY <1>6, <1>7, <2>1, <2>2
<1>13. Shape(d) = Frame(c.depth, c.classes, loops) BY <1>6, <1>7, <1>11, <1>12, ShapeFrom
<1>14. Longer(c, d) BY <1>1, <1>10 DEF Longer, Coded
<1> QED BY <1>3, <1>10, <1>11, <1>13, <1>14 DEF Looks, d

\* An address to patch is noted with the innermost loop.
LEMMA NotedIs ==
    ASSUME NEW c, IsCompiler(c), Len(c.loops) > 0, NEW x
    PROVE  /\ \A d : d = [c EXCEPT !.loops[Len(c.loops)].breaks = x] => Alike(c, d) /\ d.code = c.code /\ d.upvalues = c.upvalues
           /\ \A d : d = [c EXCEPT !.loops[Len(c.loops)].continues = x] => Alike(c, d) /\ d.code = c.code /\ d.upvalues = c.upvalues
<1> DEFINE n == Len(c.loops)
<1>1. IsSeq(c.loops) /\ Len(c.loops) \in Nat /\ DOMAIN c.loops = 1..Len(c.loops)
  BY SeqIs DEF IsCompiler
<1>2. n \in 1..n BY <1>1
<1>3. PICK go, dp, bs, cs :
         c.loops[n] = [continue |-> go, depth |-> dp, breaks |-> bs, continues |-> cs] /\ dp \in Nat
  <2>1. IsLoop(c.loops[n]) BY <1>1, <1>2 DEF IsCompiler
  <2> QED BY <2>1 DEF IsLoop
<1>4. ASSUME NEW l, IsLoop(l), l.depth = dp, NEW d, d = [c EXCEPT !.loops = [c.loops EXCEPT ![n] = l]]
      PROVE  Alike(c, d) /\ d.code = c.code /\ d.upvalues = c.upvalues
  <2> DEFINE ls == [c.loops EXCEPT ![n] = l]
  <2>1. ls = [i \in 1..n |-> ls[i]] BY <1>1
  <2>2. \A i \in 1..n : i # n => ls[i] = c.loops[i] BY <1>1
  <2>3. ls[n] = l BY <1>1, <1>2
  <2> HIDE DEF ls
  <2>4. IsSeq(ls) /\ Len(ls) = n
    <3> HIDE DEF n
    <3> QED BY <1>1, <2>1, FunctionIs DEF n
  <2>5. DOMAIN ls = 1..n BY <2>4, SeqIs
  <2>6. ASSUME NEW i \in 1..n PROVE IsLoop(ls[i]) /\ ls[i].depth = c.loops[i].depth
    <3>1. CASE i = n BY <1>3, <1>4, <2>3, <3>1
    <3>2. CASE i # n
      <4>1. ls[i] = c.loops[i] BY <2>2, <3>2
      <4> QED BY <1>1, <4>1 DEF IsCompiler
    <3> QED BY <3>1, <3>2
  <2>7. \A i \in DOMAIN ls : IsLoop(ls[i]) BY <2>5, <2>6
  <2>8. Looks(d, c.type, c.locals, c.depth, ls, c.upvalues, c.classes) /\ d.code = c.code
    BY <1>4, <2>4, <2>7, LoopsAre DEF ls
  <2>9. IsCompiler(d) /\ d.loops = ls /\ d.depth = c.depth /\ d.classes = c.classes BY <2>8 DEF Looks
  <2> DEFINE s == Shape(c).loops
  <2>10. IsSeq(s) /\ Len(s) = n /\ \A i \in 1..n : s[i] = c.loops[i].depth BY ShapeIs
  <2>11. Shape(c) = Frame(c.depth, c.classes, s) BY DEF Shape, Frame
  <2> HIDE DEF s
  <2>12. \A i \in 1..Len(s) : d.loops[i].depth = s[i] BY <2>6, <2>9, <2>10
  <2>13. Shape(d) = Frame(c.depth, c.classes, s) BY <2>4, <2>9, <2>10, <2>12, ShapeFrom
  <2>14. SameLocals(c, d) BY <2>8 DEF Looks, SameLocals
  <2>15. Len(c.upvalues) \in Nat BY SeqIs DEF IsCompiler
  <2>16. MoreUpvalues(c, d) BY <2>8, <2>15 DEF Looks, MoreUpvalues
  <2> QED BY <2>8, <2>11, <2>13, <2>14, <2>16 DEF Alike, Looks
<1>5. ASSUME NEW d, d = [c EXCEPT !.loops[n].breaks = x] PROVE Alike(c, d) /\ d.code = c.code /\ d.upvalues = c.upvalues
  <2> DEFINE l == [continue |-> go, depth |-> dp, breaks |-> x, continues |-> cs]
  <2>1. [c.loops[n] EXCEPT !.breaks = x] = l BY <1>3
  <2>2. IsLoop(l) /\ l.depth = dp BY <1>3 DEF IsLoop
  <2>3. d = [c EXCEPT !.loops = [c.loops EXCEPT ![n] = [c.loops[n] EXCEPT !.breaks = x]]] BY <1>5
  <2> HIDE DEF l, n
  <2> QED BY <1>4, <2>1, <2>2, <2>3
<1>6. ASSUME NEW d, d = [c EXCEPT !.loops[n].continues = x] PROVE Alike(c, d) /\ d.code = c.code /\ d.upvalues = c.upvalues
  <2> DEFINE l == [continue |-> go, depth |-> dp, breaks |-> bs, continues |-> x]
  <2>1. [c.loops[n] EXCEPT !.continues = x] = l BY <1>3
  <2>2. IsLoop(l) /\ l.depth = dp BY <1>3 DEF IsLoop
  <2>3. d = [c EXCEPT !.loops = [c.loops EXCEPT ![n] = [c.loops[n] EXCEPT !.continues = x]]] BY <1>6
  <2> HIDE DEF l, n
  <2> QED BY <1>4, <2>1, <2>2, <2>3
<1> QED BY <1>5, <1>6

-----------------------------------------------------------------------------
(* Code that accesses no variable, and patches. *)

LEMMA GuardCoded == ASSUME NEW c, IsCompiler(c) PROVE Coded(c, Guard(c))
<1> DEFINE code == <<Goto("JUMP_IF_FALSE", Nowhere), Op("POP")>>
<1>1. AreHarmless(code) BY HarmlessOps, HarmlessTuples DEF Accesses
<1>2. AreHarmless(Condition) BY HarmlessOps, HarmlessTuples DEF Condition
<1>3. Guard(c) = Emit(c, Condition \o code) BY DEF Guard
<1> HIDE DEF code
<1>4. AreHarmless(Condition \o code) BY <1>1, <1>2, HarmlessConcat
<1> QED BY <1>3, <1>4, EmitCoded

\* Code emitted after what c has become.
LEMMA ThenEmit ==
    ASSUME NEW c, NEW d, NEW code, IsCompiler(c), Coded(c, d), AreHarmless(code)
    PROVE  Coded(c, Emit(d, code))
<1>1. Coded(d, Emit(d, code)) BY EmitCoded DEF Coded, SameButCode
<1> QED BY <1>1, CodedTrans

LEMMA ThenPatch ==
    ASSUME NEW c, NEW d, NEW at, IsCompiler(c), Coded(c, d)
    PROVE  Coded(c, PatchJump(d, at))
<1>1. Coded(d, PatchJump(d, at)) BY PatchJumpCoded DEF Coded, SameButCode
<1> QED BY <1>1, CodedTrans

LEMMA SingleHarmless == \A op, to : op \notin Accesses => AreHarmless(<<Goto(op, to)>>) /\ AreHarmless(<<Op(op)>>)
  BY HarmlessOps, HarmlessTuples

LEMMA RepeatCoded ==
    ASSUME NEW c, IsCompiler(c), NEW start, NEW exit
    PROVE  Coded(c, Repeat(c, start, exit))
<1> DEFINE back == Emit(c, <<Goto("LOOP", start)>>)
<1>1. Coded(c, back) BY SingleHarmless, EmitCoded DEF Accesses
<1>2. AreHarmless(<<Op("POP")>>) BY SingleHarmless DEF Accesses
<1>3. Repeat(c, start, exit) = IF exit = Nowhere THEN back ELSE Emit(PatchJump(back, exit), <<Op("POP")>>)
  BY DEF Repeat
<1> HIDE DEF back
<1>4. Coded(c, PatchJump(back, exit)) BY <1>1, ThenPatch
<1>5. Coded(c, Emit(PatchJump(back, exit), <<Op("POP")>>)) BY <1>2, <1>4, ThenEmit
<1> QED BY <1>1, <1>3, <1>5

LEMMA EndHandlerCoded ==
    ASSUME NEW c, IsCompiler(c), NEW out
    PROVE  Coded(c, EndHandler(c, out))
<1> DEFINE exit == Here(c)
           left == Emit(c, <<Goto("JUMP", Nowhere)>>)
           pleft == PatchJump(left, out)
           after == Emit(pleft, <<Op("UNREGISTER_CATCH")>>)
           pafter == PatchJump(after, exit)
<1>1. AreHarmless(<<Op("UNREGISTER_CATCH")>>) /\ AreHarmless(<<Op("MARK_ERRORS_HANDLED")>>)
  BY SingleHarmless DEF Accesses
<1>2. Coded(c, left) BY SingleHarmless, EmitCoded DEF Accesses
<1>3. EndHandler(c, out) = Emit(pafter, <<Op("MARK_ERRORS_HANDLED")>>) BY DEF EndHandler
<1> HIDE DEF left
<1>4. Coded(c, pleft) BY <1>2, ThenPatch
<1> HIDE DEF pleft
<1>5. Coded(c, after) BY <1>1, <1>4, ThenEmit
<1> HIDE DEF after
<1>6. Coded(c, pafter) BY <1>5, ThenPatch
<1> HIDE DEF pafter
<1> QED BY <1>1, <1>3, <1>6, ThenEmit

LEMMA CaughtCoded ==
    ASSUME NEW c, IsCompiler(c), NEW initial, NEW n \in Nat
    PROVE  Coded(c, Caught(c, initial, n))
<1> DEFINE pc == PatchJump(c, initial)
           errors == Emit(pc, Literals(n))
           back == Emit(errors, <<Goto("LOOP", initial + 1)>>)
<1>1. Coded(c, pc) BY PatchJumpCoded
<1>2. Caught(c, initial, n) = SetCatch(back, initial + 1, n) BY DEF Caught
<1> HIDE DEF pc
<1>3. Coded(c, errors) BY <1>1, ThenEmit, LiteralsHarmless
<1> HIDE DEF errors
<1>4. AreHarmless(<<Goto("LOOP", initial + 1)>>) BY SingleHarmless DEF Accesses
<1>5. Coded(c, back) BY <1>3, <1>4, ThenEmit
<1> HIDE DEF back
<1>6. Coded(back, SetCatch(back, initial + 1, n)) BY <1>5, SetCatchCoded DEF Coded, SameButCode
<1> QED BY <1>2, <1>5, <1>6, CodedTrans

LEMMA DeeperFinite ==
    ASSUME NEW c, IsCompiler(c), NEW d
    PROVE  Cardinality(DeeperThan(c, d)) \in Nat
<1>1. Len(c.locals) \in Nat /\ DOMAIN c.locals = 1..Len(c.locals) BY SeqIs DEF IsCompiler
<1>2. IsFiniteSet(1..Len(c.locals))
  <2>1. 1 \in Int /\ Len(c.locals) \in Int BY <1>1
  <2> QED BY <2>1, FS_Interval
<1>3. DeeperThan(c, d) \subseteq 1..Len(c.locals) BY <1>1 DEF DeeperThan
<1>4. IsFiniteSet(DeeperThan(c, d)) BY <1>2, <1>3, FS_Subset
<1> QED BY <1>4, FS_CardinalityType

LEMMA ExitLoopScopeCoded == ASSUME NEW c, IsCompiler(c) PROVE Coded(c, ExitLoopScope(c))
<1> DEFINE n == Cardinality(DeeperThan(c, Last(c.loops).depth))
           pops == PopN(n)
           leave == [k \in DOMAIN pops |-> [pops[k] EXCEPT !.means = Leaving]]
<1>1. n \in Nat BY DeeperFinite
<1>2. ExitLoopScope(c) = Emit(c, leave) BY DEF ExitLoopScope
<1> HIDE DEF n
<1>3. AreHarmless(pops) BY <1>1, PopNHarmless
<1> HIDE DEF pops
<1>4. IsSeq(pops) /\ Len(pops) \in Nat /\ DOMAIN pops = 1..Len(pops) BY <1>3, SeqIs DEF AreHarmless
<1>5. leave = [k \in 1..Len(pops) |-> leave[k]] /\ DOMAIN leave = DOMAIN pops BY <1>4
<1>6. \A k \in DOMAIN pops : Harmless(leave[k]) BY <1>3, StillHarmless DEF AreHarmless
<1> HIDE DEF leave
<1>7. IsSeq(leave) BY <1>4, <1>5, FunctionIs
<1>8. AreHarmless(leave) BY <1>5, <1>6, <1>7 DEF AreHarmless
<1> QED BY <1>2, <1>8, EmitCoded

-----------------------------------------------------------------------------
(* What the upvalues of a function stand for, function by function inwards. *)

TargetsAt(cs, f, j) ==
    [i \in DOMAIN cs[j].upvalues |->
        LET u == cs[j].upvalues[i]
        IN IF u.isLocal THEN cs[j - 1].locals[u.index + 1].id ELSE f[j - 1][u.index + 1]]
TargetsPart(cs, k, f) == f = [j \in 1..k |-> TargetsAt(cs, f, j)]

FirstHasNone(cs) == DOMAIN cs[1].upvalues = {}

LEMMA TargetsExist ==
    ASSUME NEW cs, FirstHasNone(cs), NEW k \in Nat
    PROVE  \E f : TargetsPart(cs, k, f)
<1> DEFINE S == {m \in Nat : ~ \E f : TargetsPart(cs, m, f)}
           m == Min(S)
<1>1. SUFFICES ASSUME S # {} PROVE FALSE OBVIOUS
<1>2. m \in S /\ \A x \in S : m <= x
  <2>1. S \subseteq Nat OBVIOUS
  <2> QED BY <1>1, <2>1, MinIs
<1>3. m \in Nat /\ ~ \E f : TargetsPart(cs, m, f) BY <1>2
<1>4. \A x \in Nat : x < m => \E f : TargetsPart(cs, x, f)
  <2>1. SUFFICES ASSUME NEW x \in Nat, x < m PROVE x \notin S OBVIOUS
  <2> HIDE DEF m
  <2>2. ~ (m <= x) BY <1>3, <2>1
  <2> QED BY <1>2, <2>2
<1> HIDE DEF m
<1>5. CASE m = 0
  <2> DEFINE g == [j \in 1..0 |-> 0]
  <2>1. g = [j \in 1..0 |-> TargetsAt(cs, g, j)] OBVIOUS
  <2> HIDE DEF g
  <2>2. TargetsPart(cs, 0, g) BY <2>1 DEF TargetsPart
  <2> QED BY <1>3, <1>5, <2>2
<1>6. CASE m # 0
  <2>1. m - 1 \in Nat /\ m - 1 < m BY <1>3, <1>6
  <2>2. PICK f : TargetsPart(cs, m - 1, f) BY <1>4, <2>1
  <2> DEFINE top == TargetsAt(cs, f, m)
             g == [j \in 1..m |-> IF j = m THEN top ELSE f[j]]
  <2>3. \A j \in 1..m - 1 : g[j] = f[j] BY <1>3
  <2>4. g[m] = top BY <1>3, <1>6
  <2>5. g = [j \in 1..m |-> g[j]] OBVIOUS
  <2> HIDE DEF g
  <2>6. ASSUME NEW j \in 1..m PROVE g[j] = TargetsAt(cs, g, j)
    <3>1. TargetsAt(cs, g, j) = TargetsAt(cs, f, j)
      <4>1. CASE j = 1 BY <4>1 DEF TargetsAt, FirstHasNone
      <4>2. CASE j # 1
        <5>1. j - 1 \in 1..m - 1 BY <1>3, <4>2
        <5>2. g[j - 1] = f[j - 1] BY <2>3, <5>1
        <5> QED BY <5>2 DEF TargetsAt
      <4> QED BY <4>1, <4>2
    <3>2. CASE j = m BY <2>4, <3>1, <3>2
    <3>3. CASE j # m
      <4>1. j \in 1..m - 1 BY <1>3, <3>3
      <4>2. f[j] = TargetsAt(cs, f, j) BY <2>2, <4>1 DEF TargetsPart
      <4> QED BY <2>3, <3>1, <4>1, <4>2
    <3> QED BY <3>2, <3>3
  <2>7. TargetsPart(cs, m, g) BY <2>5, <2>6 DEF TargetsPart
  <2> QED BY <1>3, <2>7
<1> QED BY <1>5, <1>6

LEMMA TargetsUnique ==
    ASSUME NEW cs, FirstHasNone(cs), NEW k \in Nat, NEW p \in Nat, NEW f, NEW g,
           TargetsPart(cs, k, f), TargetsPart(cs, p, g), NEW n \in 1..k, n <= p
    PROVE  f[n] = g[n]
<1> DEFINE S == {i \in 1..n : f[i] # g[i]}
           m == Min(S)
<1>1. SUFFICES ASSUME S # {} PROVE FALSE OBVIOUS
<1>2. m \in S /\ \A x \in S : m <= x
  <2>1. S \subseteq Nat OBVIOUS
  <2> QED BY <1>1, <2>1, MinIs
<1>3. m \in 1..n /\ f[m] # g[m] BY <1>2
<1>4. \A x \in 1..n : x < m => f[x] = g[x]
  <2>1. SUFFICES ASSUME NEW x \in 1..n, x < m PROVE x \notin S OBVIOUS
  <2> HIDE DEF m
  <2>2. ~ (m <= x) BY <1>3, <2>1
  <2> QED BY <1>2, <2>2
<1> HIDE DEF m, S
<1>5. m \in 1..k /\ m \in 1..p BY <1>3
<1>6. f[m] = TargetsAt(cs, f, m) /\ g[m] = TargetsAt(cs, g, m) BY <1>5 DEF TargetsPart
<1>7. TargetsAt(cs, f, m) = TargetsAt(cs, g, m)
  <2>1. CASE m = 1 BY <2>1 DEF TargetsAt, FirstHasNone
  <2>2. CASE m # 1
    <3>1. m - 1 \in 1..n /\ m - 1 < m BY <1>3, <2>2
    <3>2. f[m - 1] = g[m - 1] BY <1>4, <3>1
    <3> QED BY <3>2 DEF TargetsAt
  <2> QED BY <2>1, <2>2
<1> QED BY <1>3, <1>6, <1>7

LEMMA FirstIs == ASSUME NEW cs, Compilers(cs) PROVE FirstHasNone(cs)
<1>1. Len(cs) \in Nat /\ Len(cs) > 0 BY SeqIs DEF Compilers
<1>2. 1 \in 1..Len(cs) BY <1>1
<1>3. IsSeq(cs[1].upvalues) BY <1>2 DEF Compilers, IsCompiler
<1>4. DOMAIN cs[1].upvalues = 1..0 BY <1>3, SeqIs DEF Compilers, Linked
<1> QED BY <1>4 DEF FirstHasNone

\* An upvalue stands for the local it captures, or for what the upvalue around it does.
LEMMA TargetsAre ==
    ASSUME NEW cs, Compilers(cs), NEW k \in 1..Len(cs)
    PROVE  /\ DOMAIN UpvalueTargets(cs, k) = DOMAIN cs[k].upvalues
           /\ \A i \in DOMAIN cs[k].upvalues :
                 UpvalueTargets(cs, k)[i] =
                    IF cs[k].upvalues[i].isLocal
                    THEN cs[k - 1].locals[cs[k].upvalues[i].index + 1].id
                    ELSE UpvalueTargets(cs, k - 1)[cs[k].upvalues[i].index + 1]
<1>1. FirstHasNone(cs) BY FirstIs
<1>2. Len(cs) \in Nat BY SeqIs DEF Compilers
<1> DEFINE f(n) == CHOOSE h : TargetsPart(cs, n, h)
<1>3. \A n : UpvalueTargets(cs, n) = f(n)[n] BY DEF UpvalueTargets, TargetsPart, TargetsAt
<1>4. \A n \in Nat : TargetsPart(cs, n, f(n)) BY <1>1, TargetsExist
<1> HIDE DEF f
<1>5. k \in Nat /\ k \in 1..k BY <1>2
<1>6. f(k)[k] = TargetsAt(cs, f(k), k) BY <1>4, <1>5 DEF TargetsPart
<1>7. CASE k = 1 BY <1>1, <1>3, <1>6, <1>7 DEF TargetsAt, FirstHasNone
<1>8. CASE k # 1
  <2>1. k - 1 \in Nat /\ k - 1 \in 1..k - 1 /\ k - 1 <= k BY <1>2, <1>8
  <2>2. TargetsPart(cs, k, f(k)) /\ TargetsPart(cs, k - 1, f(k - 1)) BY <1>4, <1>5, <2>1
  <2>3. f(k)[k - 1] = f(k - 1)[k - 1]
    <3> DEFINE a == f(k)
               b == f(k - 1)
               n == k - 1
    <3>1. TargetsPart(cs, k, a) /\ TargetsPart(cs, n, b) BY <2>2
    <3>2. n \in 1..k /\ n <= n /\ n \in Nat BY <1>2, <2>1
    <3> HIDE DEF a, b, n
    <3>3. k \in Nat BY <1>5
    <3>4. a[n] = b[n] BY <1>1, <3>1, <3>2, <3>3, TargetsUnique
    <3> QED BY <3>4 DEF a, b, n
  <2>4. UpvalueTargets(cs, k - 1) = f(k)[k - 1] BY <1>3, <2>3
  <2>5. UpvalueTargets(cs, k) = TargetsAt(cs, f(k), k) BY <1>3, <1>6
  <2> QED BY <2>4, <2>5 DEF TargetsAt
<1> QED BY <1>7, <1>8

\* The variables of c are those of d, which may have more.
Keeps(c, d) ==
    /\ Len(c.locals) <= Len(d.locals)
    /\ \A i \in 1..Len(c.locals) : d.locals[i].id = c.locals[i].id
    /\ MoreUpvalues(c, d)

LEMMA AlikeKeeps == ASSUME NEW c, NEW d, IsCompiler(c), Alike(c, d) PROVE Keeps(c, d)
<1>1. Len(c.locals) \in Nat BY SeqIs DEF IsCompiler
<1> QED BY <1>1 DEF Alike, SameLocals, Keeps

LEMMA AddsKeeps == ASSUME NEW c, NEW d, NEW name, NEW id, IsCompiler(c), Adds(c, d, name, id) PROVE Keeps(c, d)
<1>1. Len(c.locals) \in Nat BY SeqIs DEF IsCompiler
<1> QED BY <1>1 DEF Adds, SameLocals, OneMore, Keeps

\* While functions only get more variables, upvalues stand for what they did.
LEMMA TargetsKept ==
    ASSUME NEW cs, NEW ds, Compilers(cs), Compilers(ds), NEW k \in 1..Len(cs), k <= Len(ds),
           \A j \in 1..k : Keeps(cs[j], ds[j])
    PROVE  \A i \in 1..Len(cs[k].upvalues) : UpvalueTargets(ds, k)[i] = UpvalueTargets(cs, k)[i]
<1> DEFINE Kept(j) == \A i \in 1..Len(cs[j].upvalues) : UpvalueTargets(ds, j)[i] = UpvalueTargets(cs, j)[i]
           S == {j \in 1..k : ~ Kept(j)}
           m == Min(S)
<1>1. Len(cs) \in Nat /\ Len(ds) \in Nat BY SeqIs DEF Compilers
<1>2. S = {}
  <2>1. SUFFICES ASSUME S # {} PROVE FALSE OBVIOUS
  <2>2. m \in S /\ \A x \in S : m <= x
    <3>1. S \subseteq Nat OBVIOUS
    <3> QED BY <2>1, <3>1, MinIs
  <2>3. m \in 1..k /\ ~ Kept(m) BY <2>2
  <2>4. \A x \in 1..k : x < m => Kept(x)
    <3>1. SUFFICES ASSUME NEW x \in 1..k, x < m PROVE x \notin S OBVIOUS
    <3> HIDE DEF m, Kept
    <3>2. ~ (m <= x) BY <2>3, <3>1
    <3> QED BY <2>2, <3>2
  <2> HIDE DEF m, S
  <2>5. m \in 1..Len(cs) /\ m \in 1..Len(ds) BY <1>1, <2>3
  <2>6. PICK i \in 1..Len(cs[m].upvalues) : UpvalueTargets(ds, m)[i] # UpvalueTargets(cs, m)[i]
    BY <2>3
  <2>7. /\ IsSeq(cs[m].upvalues) /\ IsSeq(ds[m].upvalues) /\ Len(cs[m].upvalues) \in Nat
        /\ Len(ds[m].upvalues) \in Nat
    BY <2>5, SeqIs DEF Compilers, IsCompiler
  <2>8. i \in DOMAIN cs[m].upvalues BY <2>7, SeqIs
  <2>9. MoreUpvalues(cs[m], ds[m]) BY <2>3 DEF Keeps
  <2>10. i \in DOMAIN ds[m].upvalues /\ ds[m].upvalues[i] = cs[m].upvalues[i]
    <3>1. i \in 1..Len(ds[m].upvalues) BY <2>7, <2>9 DEF MoreUpvalues
    <3> QED BY <2>7, <2>9, <3>1, SeqIs DEF MoreUpvalues
  <2> DEFINE u == cs[m].upvalues[i]
  <2>11. UpvalueTargets(cs, m)[i] = IF u.isLocal THEN cs[m - 1].locals[u.index + 1].id
                                    ELSE UpvalueTargets(cs, m - 1)[u.index + 1]
    BY <2>5, <2>8, TargetsAre
  <2>12. UpvalueTargets(ds, m)[i] = IF u.isLocal THEN ds[m - 1].locals[u.index + 1].id
                                    ELSE UpvalueTargets(ds, m - 1)[u.index + 1]
    <3>1. /\ ds[m].upvalues[i] = u
          /\ UpvalueTargets(ds, m)[i] =
                IF ds[m].upvalues[i].isLocal THEN ds[m - 1].locals[ds[m].upvalues[i].index + 1].id
                ELSE UpvalueTargets(ds, m - 1)[ds[m].upvalues[i].index + 1]
      BY <2>5, <2>10, TargetsAre
    <3> QED BY <3>1
  <2>13. m # 1 BY <2>8, FirstIs DEF FirstHasNone
  <2>14. m - 1 \in 1..k /\ m - 1 < m /\ m \in 2..Len(cs) BY <2>3, <2>5, <2>13
  <2>15. InRange(u, cs[m - 1]) BY <2>14 DEF Compilers, Linked
  <2>16. Keeps(cs[m - 1], ds[m - 1]) /\ Kept(m - 1) BY <2>4, <2>14
  <2> HIDE DEF u
  <2>17. CASE u.isLocal
    <3>1. u.index + 1 \in 1..Len(cs[m - 1].locals) BY <2>15, <2>17 DEF InRange
    <3> QED BY <2>6, <2>11, <2>12, <2>16, <2>17, <3>1 DEF Keeps
  <2>18. CASE ~ u.isLocal
    <3>1. u.index + 1 \in 1..Len(cs[m - 1].upvalues) BY <2>15, <2>18 DEF InRange
    <3> QED BY <2>6, <2>11, <2>12, <2>16, <2>18, <3>1
  <2> QED BY <2>17, <2>18
<1>3. k \in 1..k BY <1>1
<1> HIDE DEF Kept
<1>4. Kept(k) BY <1>2, <1>3
<1> QED BY <1>4 DEF Kept

(* Upvalues are added once, and found where they were added. *)

\* d is c with upvalues as they were, and perhaps u.
MayHave(c, d, u) ==
    /\ Looks(d, c.type, c.locals, c.depth, c.loops, d.upvalues, c.classes)
    /\ d.code = c.code /\ MoreUpvalues(c, d)
    /\ \A i \in 1..Len(d.upvalues) : i \in 1..Len(c.upvalues) \/ d.upvalues[i] = u

LEMMA AddUpvalueIs ==
    ASSUME NEW c, IsCompiler(c), NEW u, IsUpvalue(u)
    PROVE  LET d == AddUpvalue(c, u) IN
           /\ MayHave(c, d, u)
           /\ UpvalueIndex(d, u) \in Nat
           /\ UpvalueIndex(d, u) + 1 \in 1..Len(d.upvalues)
           /\ d.upvalues[UpvalueIndex(d, u) + 1] = u
<1> DEFINE d == AddUpvalue(c, u)
<1>1. /\ IsSeq(c.upvalues) /\ Len(c.upvalues) \in Nat /\ DOMAIN c.upvalues = 1..Len(c.upvalues)
      /\ \A i \in 1..Len(c.upvalues) : IsUpvalue(c.upvalues[i])
  <2>1. IsSeq(c.upvalues) /\ \A i \in DOMAIN c.upvalues : IsUpvalue(c.upvalues[i]) BY DEF IsCompiler
  <2> QED BY <2>1, SeqIs
<1>2. MayHave(c, d, u) /\ Known(d, u) # {}
  <2>1. CASE Known(c, u) # {}
    <3>1. d = c BY <2>1 DEF AddUpvalue
    <3>2. MayHave(c, c, u) BY <1>1 DEF MayHave, Looks, MoreUpvalues
    <3> QED BY <2>1, <3>1, <3>2
  <2>2. CASE Known(c, u) = {}
    <3> DEFINE us == Append(c.upvalues, u)
    <3>1. d = [c EXCEPT !.upvalues = us] BY <2>2 DEF AddUpvalue
    <3> HIDE DEF d
    <3>2. /\ IsSeq(us) /\ Len(us) = Len(c.upvalues) + 1
          /\ \A i \in 1..Len(c.upvalues) : us[i] = c.upvalues[i]
          /\ us[Len(c.upvalues) + 1] = u
      BY <1>1, AppendIs
    <3> HIDE DEF us
    <3>3. DOMAIN us = 1..Len(c.upvalues) + 1 BY <3>2, SeqIs
    <3>4. \A i \in DOMAIN us : i \in 1..Len(c.upvalues) \/ us[i] = u BY <1>1, <3>2, <3>3
    <3>5. \A i \in DOMAIN us : IsUpvalue(us[i])
      <4> SUFFICES ASSUME NEW i \in DOMAIN us PROVE IsUpvalue(us[i]) OBVIOUS
      <4>1. CASE i \in 1..Len(c.upvalues)
        <5>1. us[i] = c.upvalues[i] BY <3>2, <4>1
        <5> QED BY <1>1, <4>1, <5>1
      <4>2. CASE us[i] = u BY <4>2
      <4> QED BY <3>4, <4>1, <4>2
    <3>6. Looks(d, c.type, c.locals, c.depth, c.loops, us, c.classes) /\ d.code = c.code
      BY <3>1, <3>2, <3>5, UpvaluesAre
    <3>7. d.upvalues = us BY <3>6 DEF Looks
    <3>8. MoreUpvalues(c, d) BY <1>1, <3>2, <3>7 DEF MoreUpvalues
    <3>9. Len(c.upvalues) + 1 \in Known(d, u)
      <4>1. Len(c.upvalues) + 1 \in DOMAIN us BY <1>1, <3>3
      <4> QED BY <3>2, <3>7, <4>1 DEF Known, SameUpvalue
    <3>10. MayHave(c, d, u) BY <3>2, <3>3, <3>4, <3>6, <3>7, <3>8 DEF MayHave
    <3> QED BY <3>9, <3>10
  <2> QED BY <2>1, <2>2
<1> HIDE DEF d
<1>3. IsCompiler(d) BY <1>2 DEF MayHave, Looks
<1>4. /\ IsSeq(d.upvalues) /\ Len(d.upvalues) \in Nat /\ DOMAIN d.upvalues = 1..Len(d.upvalues)
      /\ \A i \in 1..Len(d.upvalues) : IsUpvalue(d.upvalues[i])
  <2>1. IsSeq(d.upvalues) /\ \A i \in DOMAIN d.upvalues : IsUpvalue(d.upvalues[i])
    BY <1>3 DEF IsCompiler
  <2> QED BY <2>1, SeqIs
<1> DEFINE S == Known(d, u)
           m == Min(S)
<1>5. S \subseteq 1..Len(d.upvalues) BY <1>4 DEF Known
<1>6. S \subseteq Nat /\ S # {} BY <1>2, <1>5
<1> HIDE DEF S
<1>7. m \in S BY <1>6, MinIs
<1>8. UpvalueIndex(d, u) = m - 1 BY DEF UpvalueIndex, S
<1> HIDE DEF m
<1>9. m \in 1..Len(d.upvalues) BY <1>5, <1>7
<1>10. SameUpvalue(d.upvalues[m], u) BY <1>7 DEF S, Known
<1>11. d.upvalues[m] = u BY <1>4, <1>9, <1>10 DEF SameUpvalue, IsUpvalue
<1>12. m - 1 \in Nat /\ m - 1 + 1 = m BY <1>4, <1>9
<1> QED BY <1>2, <1>8, <1>9, <1>11, <1>12 DEF d

\* A local is captured.
LEMMA CapturedAlike ==
    ASSUME NEW c, IsCompiler(c), NEW i \in 1..Len(c.locals), NEW y
    PROVE  LET d == [c EXCEPT !.locals[i].captured = y] IN
           Alike(c, d) /\ d.code = c.code /\ d.upvalues = c.upvalues
<1> DEFINE n == Len(c.locals)
           ls == [c.locals EXCEPT ![i].captured = y]
           d == [c EXCEPT !.locals[i].captured = y]
<1>1. IsSeq(c.locals) /\ Len(c.locals) \in Nat /\ DOMAIN c.locals = 1..Len(c.locals)
  BY SeqIs DEF IsCompiler
<1>2. d = [c EXCEPT !.locals = ls] OBVIOUS
<1> HIDE DEF d
<1>3. \A j \in 1..n : IsLocal(c.locals[j]) BY <1>1 DEF IsCompiler
<1>4. ls = [j \in 1..n |-> ls[j]] BY <1>1
<1>5. ASSUME NEW j \in 1..n
      PROVE  /\ IsLocal(ls[j]) /\ ls[j].name = c.locals[j].name /\ ls[j].id = c.locals[j].id
             /\ ls[j].depth = c.locals[j].depth
  <2>1. CASE j # i BY <1>1, <1>3, <2>1
  <2>2. CASE j = i
    <3>1. ls[j] = [c.locals[j] EXCEPT !.captured = y] BY <1>1, <2>2
    <3>2. PICK nm, dp, cp, id : c.locals[j] = [name |-> nm, depth |-> dp, captured |-> cp, id |-> id]
      BY <1>3 DEF IsLocal
    <3> HIDE DEF ls
    <3>3. ls[j] = [name |-> nm, depth |-> dp, captured |-> y, id |-> id] BY <3>1, <3>2
    <3> QED BY <3>2, <3>3 DEF IsLocal
  <2> QED BY <2>1, <2>2
<1> HIDE DEF ls
<1>6. IsSeq(ls) /\ Len(ls) = n
  <2> HIDE DEF n
  <2> QED BY <1>1, <1>4, FunctionIs DEF n
<1>7. DOMAIN ls = 1..n BY <1>6, SeqIs
<1>8. Looks(d, c.type, ls, c.depth, c.loops, c.upvalues, c.classes) /\ d.code = c.code
  BY <1>2, <1>5, <1>6, <1>7, LocalsAre
<1>9. SameLocals(c, d) BY <1>5, <1>6, <1>8 DEF SameLocals, Looks
<1>10. Shape(d) = Shape(c) BY <1>8, ShapeSame DEF Looks
<1>11. Len(c.upvalues) \in Nat BY SeqIs DEF IsCompiler
<1>12. MoreUpvalues(c, d) BY <1>8, <1>11 DEF Looks, MoreUpvalues
<1> QED BY <1>8, <1>9, <1>10, <1>12 DEF Alike, Looks, d

LEMMA ReplacedIs ==
    ASSUME NEW s, IsSeq(s), NEW j \in 1..Len(s), NEW e
    PROVE  LET t == [s EXCEPT ![j] = e] IN
           /\ IsSeq(t) /\ Len(t) = Len(s) /\ t[j] = e
           /\ \A i \in 1..Len(s) : i # j => t[i] = s[i]
<1>1. Len(s) \in Nat /\ DOMAIN s = 1..Len(s) BY SeqIs
<1> DEFINE t == [s EXCEPT ![j] = e]
           n == Len(s)
<1>2. t = [i \in 1..n |-> t[i]] /\ t[j] = e /\ \A i \in 1..n : i # j => t[i] = s[i] BY <1>1
<1> HIDE DEF t
<1>3. IsSeq(t) /\ Len(t) = n
  <2> HIDE DEF n
  <2> QED BY <1>1, <1>2, FunctionIs DEF n
<1> QED BY <1>2, <1>3 DEF t

\* The functions of ds are those of cs, with captures and upvalues.
Grown(cs, ds) ==
    /\ IsSeq(ds) /\ Len(ds) = Len(cs)
    /\ \A m \in 1..Len(cs) : Alike(cs[m], ds[m]) /\ ds[m].code = cs[m].code

LEMMA CompilersAre ==
    ASSUME NEW cs, Compilers(cs)
    PROVE  /\ IsSeq(cs) /\ Len(cs) \in Nat /\ Len(cs) > 0 /\ DOMAIN cs = 1..Len(cs)
           /\ Len(cs) \in 1..Len(cs) /\ 1 \in 1..Len(cs) /\ Last(cs) = cs[Len(cs)]
           /\ \A m \in 1..Len(cs) :
                 /\ IsCompiler(cs[m])
                 /\ IsSeq(cs[m].upvalues) /\ Len(cs[m].upvalues) \in Nat
                 /\ DOMAIN cs[m].upvalues = 1..Len(cs[m].upvalues)
                 /\ IsSeq(cs[m].locals) /\ Len(cs[m].locals) \in Nat
                 /\ DOMAIN cs[m].locals = 1..Len(cs[m].locals)
                 /\ IsSeq(cs[m].code) /\ Len(cs[m].code) \in Nat
                 /\ DOMAIN cs[m].code = 1..Len(cs[m].code)
<1>1. IsSeq(cs) /\ Len(cs) > 0 /\ \A m \in 1..Len(cs) : IsCompiler(cs[m]) BY DEF Compilers
<1>2. Len(cs) \in Nat /\ DOMAIN cs = 1..Len(cs) BY <1>1, SeqIs
<1>3. Len(cs) \in 1..Len(cs) /\ 1 \in 1..Len(cs) BY <1>1, <1>2
<1>4. Last(cs) = cs[Len(cs)] BY <1>1, FrontIs
<1>5. ASSUME NEW m \in 1..Len(cs)
      PROVE  /\ IsCompiler(cs[m])
             /\ IsSeq(cs[m].upvalues) /\ Len(cs[m].upvalues) \in Nat
             /\ DOMAIN cs[m].upvalues = 1..Len(cs[m].upvalues)
             /\ IsSeq(cs[m].locals) /\ Len(cs[m].locals) \in Nat
             /\ DOMAIN cs[m].locals = 1..Len(cs[m].locals)
             /\ IsSeq(cs[m].code) /\ Len(cs[m].code) \in Nat
             /\ DOMAIN cs[m].code = 1..Len(cs[m].code)
  <2>1. IsCompiler(cs[m]) BY <1>1
  <2>2. IsSeq(cs[m].upvalues) /\ IsSeq(cs[m].locals) /\ IsSeq(cs[m].code) BY <2>1 DEF IsCompiler
  <2> QED BY <2>1, <2>2, SeqIs
<1> QED BY <1>1, <1>2, <1>3, <1>4, <1>5

LEMMA GrownRefl == ASSUME NEW cs, Compilers(cs) PROVE Grown(cs, cs)
  BY CompilersAre, AlikeRefl DEF Grown

LEMMA GrownTrans ==
    ASSUME NEW cs, NEW ds, NEW es, Compilers(cs), Grown(cs, ds), Grown(ds, es)
    PROVE  Grown(cs, es)
<1>1. IsSeq(es) /\ Len(es) = Len(cs) BY DEF Grown
<1>2. ASSUME NEW m \in 1..Len(cs) PROVE Alike(cs[m], es[m]) /\ es[m].code = cs[m].code
  <2>1. m \in 1..Len(ds) /\ IsCompiler(cs[m]) BY CompilersAre DEF Grown
  <2>2. Alike(cs[m], ds[m]) /\ Alike(ds[m], es[m]) BY <2>1 DEF Grown
  <2>3. es[m].code = cs[m].code BY <2>1 DEF Grown
  <2> QED BY <2>1, <2>2, <2>3, AlikeTrans
<1> QED BY <1>1, <1>2 DEF Grown

LEMMA InRangeKept ==
    ASSUME NEW u, NEW c, NEW d, IsCompiler(c), IsCompiler(d), InRange(u, c),
           Len(c.locals) <= Len(d.locals), Len(c.upvalues) <= Len(d.upvalues)
    PROVE  InRange(u, d)
<1>1. /\ Len(c.locals) \in Nat /\ Len(d.locals) \in Nat /\ Len(c.upvalues) \in Nat
      /\ Len(d.upvalues) \in Nat
  BY SeqIs DEF IsCompiler
<1> QED BY <1>1 DEF InRange

\* A function inside another gets an upvalue for a variable of that one.
LEMMA LinkedIs ==
    ASSUME NEW cs, Compilers(cs), NEW j \in 2..Len(cs), NEW d, NEW u, MayHave(cs[j], d, u),
           InRange(u, cs[j - 1])
    PROVE  LET ds == [cs EXCEPT ![j] = d] IN Compilers(ds) /\ Grown(cs, ds)
<1> DEFINE ds == [cs EXCEPT ![j] = d]
<1>1. IsSeq(cs) /\ Len(cs) \in Nat /\ Len(cs) > 0 /\ \A m \in 1..Len(cs) : IsCompiler(cs[m])
  BY CompilersAre
<1>2. j \in 1..Len(cs) /\ j # 1 BY <1>1
<1>3. /\ IsSeq(ds) /\ Len(ds) = Len(cs) /\ ds[j] = d
      /\ \A m \in 1..Len(cs) : m # j => ds[m] = cs[m]
  BY <1>1, <1>2, ReplacedIs
<1> HIDE DEF ds
<1>4. Alike(cs[j], d) /\ d.code = cs[j].code /\ IsCompiler(d)
  <2>1. Shape(d) = Shape(cs[j]) BY ShapeSame DEF MayHave, Looks
  <2>2. SameLocals(cs[j], d) BY DEF SameLocals, MayHave, Looks
  <2> QED BY <2>1, <2>2 DEF MayHave, Looks, Alike
<1>5. Grown(cs, ds)
  <2>1. \A m \in 1..Len(cs) : Alike(cs[m], ds[m]) /\ ds[m].code = cs[m].code
    <3> SUFFICES ASSUME NEW m \in 1..Len(cs) PROVE Alike(cs[m], ds[m]) /\ ds[m].code = cs[m].code
      OBVIOUS
    <3>1. CASE m = j BY <1>3, <1>4, <3>1
    <3>2. CASE m # j BY <1>1, <1>3, <3>2, AlikeRefl
    <3> QED BY <3>1, <3>2
  <2> QED BY <1>3, <2>1 DEF Grown
<1>6. \A m \in 1..Len(ds) : IsCompiler(ds[m]) BY <1>3, <1>5 DEF Grown, Alike
<1>7. Len(ds[1].upvalues) = 0
  <2>1. 1 \in 1..Len(cs) BY <1>1
  <2> QED BY <1>2, <1>3, <2>1 DEF Compilers, Linked
<1>8. ASSUME NEW k \in 2..Len(ds), NEW i \in 1..Len(ds[k].upvalues)
      PROVE  InRange(ds[k].upvalues[i], ds[k - 1])
  <2>1. k \in 2..Len(cs) /\ k - 1 \in 1..Len(cs) /\ k \in 1..Len(cs) BY <1>1, <1>3
  <2>2. /\ Len(cs[k - 1].locals) <= Len(ds[k - 1].locals)
        /\ Len(cs[k - 1].upvalues) <= Len(ds[k - 1].upvalues)
        /\ IsCompiler(cs[k - 1]) /\ IsCompiler(ds[k - 1])
    <3>1. IsCompiler(cs[k - 1]) /\ Alike(cs[k - 1], ds[k - 1]) BY <1>1, <1>5, <2>1 DEF Grown
    <3> QED BY <3>1, AlikeKeeps DEF Keeps, MoreUpvalues, Alike
  <2>3. CASE i \in 1..Len(cs[k].upvalues)
    <3>1. ds[k].upvalues[i] = cs[k].upvalues[i] BY <1>5, <2>1, <2>3 DEF Grown, Alike, MoreUpvalues
    <3>2. InRange(cs[k].upvalues[i], cs[k - 1]) BY <2>1, <2>3 DEF Compilers, Linked
    <3> QED BY <2>2, <3>1, <3>2, InRangeKept
  <2>4. CASE i \notin 1..Len(cs[k].upvalues)
    <3>1. k = j
      <4>1. CASE k # j BY <1>3, <2>1, <2>4, <4>1
      <4> QED BY <4>1
    <3>2. ds[k].upvalues[i] = u BY <1>3, <2>4, <3>1 DEF MayHave
    <3>3. InRange(u, cs[k - 1]) BY <3>1
    <3> QED BY <2>2, <3>2, <3>3, InRangeKept
  <2> QED BY <2>3, <2>4
<1>9. Compilers(ds) BY <1>1, <1>3, <1>6, <1>7, <1>8 DEF Compilers, Linked
<1> QED BY <1>5, <1>9 DEF ds

(* The chain of upvalues from a variable inwards. *)

\* The chain as far as function j, from the chain as far as the one around it.
ChainFrom(cs, k, i, f, j) ==
    IF j = k
    THEN [cs |-> [cs EXCEPT ![k].locals[i].captured = TRUE], index |-> i - 1, owner |-> k]
    ELSE Link(f[j - 1], j)

ChainPart(cs, k, i, n, f) == f = [j \in k..n |-> ChainFrom(cs, k, i, f, j)]

LEMMA ChainExists ==
    ASSUME NEW cs, NEW k \in Nat, NEW i, NEW n \in Nat
    PROVE  \E f : ChainPart(cs, k, i, n, f)
<1> DEFINE S == {m \in Nat : ~ \E f : ChainPart(cs, k, i, m, f)}
           m == Min(S)
<1>1. SUFFICES ASSUME S # {} PROVE FALSE OBVIOUS
<1>2. m \in S /\ \A x \in S : m <= x
  <2>1. S \subseteq Nat OBVIOUS
  <2> QED BY <1>1, <2>1, MinIs
<1>3. m \in Nat /\ ~ \E f : ChainPart(cs, k, i, m, f) BY <1>2
<1>4. \A x \in Nat : x < m => \E f : ChainPart(cs, k, i, x, f)
  <2>1. SUFFICES ASSUME NEW x \in Nat, x < m PROVE x \notin S OBVIOUS
  <2> HIDE DEF m
  <2>2. ~ (m <= x) BY <1>3, <2>1
  <2> QED BY <1>2, <2>2
<1> HIDE DEF m
<1>5. CASE m < k
  <2> DEFINE g == [j \in k..m |-> 0]
  <2>1. g = [j \in k..m |-> ChainFrom(cs, k, i, g, j)]
    <3>1. k..m = {} BY <1>3, <1>5
    <3> QED BY <3>1
  <2> HIDE DEF g
  <2>2. ChainPart(cs, k, i, m, g) BY <2>1 DEF ChainPart
  <2> QED BY <1>3, <2>2
<1>6. CASE m = k
  <2> DEFINE g == [j \in k..m |-> ChainFrom(cs, k, i, <<>>, k)]
  <2>1. g = [j \in k..m |-> ChainFrom(cs, k, i, g, j)]
    <3> DEFINE h == [j \in k..m |-> ChainFrom(cs, k, i, g, j)]
    <3>1. \A j \in k..m : h[j] = g[j]
      <4> TAKE j \in k..m
      <4>1. j = k BY <1>6
      <4> QED BY <4>1 DEF ChainFrom
    <3> QED BY <3>1
  <2> HIDE DEF g
  <2>2. ChainPart(cs, k, i, m, g) BY <2>1 DEF ChainPart
  <2> QED BY <1>3, <2>2
<1>7. CASE m > k
  <2>1. m - 1 \in Nat /\ m - 1 < m BY <1>3, <1>7
  <2>2. PICK f : ChainPart(cs, k, i, m - 1, f) BY <1>4, <2>1
  <2> DEFINE top == ChainFrom(cs, k, i, f, m)
             g == [j \in k..m |-> IF j = m THEN top ELSE f[j]]
  <2>3. \A j \in k..m - 1 : g[j] = f[j] BY <1>3
  <2>4. g[m] = top BY <1>3, <1>7
  <2>5. g = [j \in k..m |-> g[j]] OBVIOUS
  <2> HIDE DEF g
  <2>6. ASSUME NEW j \in k..m PROVE g[j] = ChainFrom(cs, k, i, g, j)
    <3>1. ChainFrom(cs, k, i, g, j) = ChainFrom(cs, k, i, f, j)
      <4>1. CASE j = k BY <4>1 DEF ChainFrom
      <4>2. CASE j # k
        <5>1. j - 1 \in k..m - 1 BY <1>3, <4>2
        <5>2. g[j - 1] = f[j - 1] BY <2>3, <5>1
        <5> QED BY <5>2 DEF ChainFrom
      <4> QED BY <4>1, <4>2
    <3>2. CASE j = m BY <2>4, <3>1, <3>2
    <3>3. CASE j # m
      <4>1. j \in k..m - 1 BY <1>3, <3>3
      <4>2. f[j] = ChainFrom(cs, k, i, f, j) BY <2>2, <4>1 DEF ChainPart
      <4> QED BY <2>3, <3>1, <4>1, <4>2
    <3> QED BY <3>2, <3>3
  <2>7. ChainPart(cs, k, i, m, g) BY <2>5, <2>6 DEF ChainPart
  <2> QED BY <1>3, <2>7
<1> QED BY <1>3, <1>5, <1>6, <1>7

\* What the chain of upvalues is as far as function j, and where it leads.
GoodChain(cs, k, i, j, r) ==
    /\ r = [cs |-> r.cs, index |-> r.index, owner |-> k]
    /\ r.index \in Nat /\ Compilers(r.cs) /\ Grown(cs, r.cs)
    /\ j = k => r.index = i - 1
    /\ j # k => /\ r.index + 1 \in 1..Len(r.cs[j].upvalues)
                /\ UpvalueTargets(r.cs, j)[r.index + 1] = cs[k].locals[i].id

\* Compilers that differ in what has been captured are compilers.
LEMMA CapturedCompilers ==
    ASSUME NEW cs, Compilers(cs), NEW k \in 1..Len(cs), NEW i \in 1..Len(cs[k].locals)
    PROVE  LET ds == [cs EXCEPT ![k].locals[i].captured = TRUE] IN Compilers(ds) /\ Grown(cs, ds)
<1> DEFINE d == [cs[k] EXCEPT !.locals[i].captured = TRUE]
           ds == [cs EXCEPT ![k] = d]
<1>1. /\ IsSeq(cs) /\ Len(cs) \in Nat /\ Len(cs) > 0 /\ IsCompiler(cs[k])
      /\ \A m \in 1..Len(cs) : IsCompiler(cs[m])
  BY CompilersAre
<1>2. Alike(cs[k], d) /\ d.code = cs[k].code /\ d.upvalues = cs[k].upvalues
  BY <1>1, CapturedAlike
<1> HIDE DEF d
<1>3. /\ IsSeq(ds) /\ Len(ds) = Len(cs) /\ ds[k] = d
      /\ \A m \in 1..Len(cs) : m # k => ds[m] = cs[m]
  BY <1>1, ReplacedIs
<1> HIDE DEF ds
<1>4. \A m \in 1..Len(cs) : /\ Alike(cs[m], ds[m]) /\ ds[m].code = cs[m].code
                            /\ ds[m].upvalues = cs[m].upvalues
  <2> TAKE m \in 1..Len(cs)
  <2>1. CASE m = k BY <1>2, <1>3, <2>1
  <2>2. CASE m # k BY <1>1, <1>3, <2>2, AlikeRefl
  <2> QED BY <2>1, <2>2
<1>5. Grown(cs, ds) BY <1>3, <1>4 DEF Grown
<1>6. \A m \in 1..Len(ds) : IsCompiler(ds[m]) BY <1>3, <1>4 DEF Alike
<1>7. Len(ds[1].upvalues) = 0
  <2>1. 1 \in 1..Len(cs) BY <1>1
  <2> QED BY <1>4, <2>1 DEF Compilers, Linked
<1>8. ASSUME NEW m \in 2..Len(ds), NEW n \in 1..Len(ds[m].upvalues)
      PROVE  InRange(ds[m].upvalues[n], ds[m - 1])
  <2>1. m \in 2..Len(cs) /\ m - 1 \in 1..Len(cs) /\ m \in 1..Len(cs) BY <1>1, <1>3
  <2>2. ds[m].upvalues = cs[m].upvalues BY <1>4, <2>1
  <2>3. InRange(cs[m].upvalues[n], cs[m - 1]) BY <2>1, <2>2 DEF Compilers, Linked
  <2>4. IsCompiler(cs[m - 1]) /\ Alike(cs[m - 1], ds[m - 1]) BY <1>1, <1>4, <2>1
  <2>5. /\ Len(cs[m - 1].locals) <= Len(ds[m - 1].locals)
        /\ Len(cs[m - 1].upvalues) <= Len(ds[m - 1].upvalues) /\ IsCompiler(ds[m - 1])
    BY <2>4, AlikeKeeps DEF Keeps, MoreUpvalues, Alike
  <2> QED BY <2>2, <2>3, <2>4, <2>5, InRangeKept
<1>9. Compilers(ds) BY <1>1, <1>3, <1>6, <1>7, <1>8 DEF Compilers, Linked
<1> QED BY <1>5, <1>9 DEF ds, d

LEMMA GrownKeeps ==
    ASSUME NEW cs, NEW ds, Compilers(cs), Grown(cs, ds)
    PROVE  \A m \in 1..Len(cs) : Keeps(cs[m], ds[m]) /\ Len(ds[m].locals) = Len(cs[m].locals)
<1> TAKE m \in 1..Len(cs)
<1>1. IsCompiler(cs[m]) /\ Alike(cs[m], ds[m]) BY CompilersAre DEF Grown
<1> QED BY <1>1, AlikeKeeps DEF Alike, SameLocals

LEMMA LinkIs ==
    ASSUME NEW r, NEW j, NEW u, NEW c, NEW k, r.owner = k,
           u = [index |-> r.index, isLocal |-> j = k + 1], c = AddUpvalue(r.cs[j], u)
    PROVE  Link(r, j) = [cs |-> [r.cs EXCEPT ![j] = c], index |-> UpvalueIndex(c, u), owner |-> k]
BY DEF Link

LEMMA BothSides ==
    ASSUME NEW x, NEW y \in BOOLEAN, NEW u, u = [index |-> x, isLocal |-> y], x \in Nat
    PROVE  IsUpvalue(u) /\ u.index = x /\ u.isLocal = y
BY DEF IsUpvalue

\* A link leads where the chain did.
LEMMA LinkGood ==
    ASSUME NEW cs, Compilers(cs), NEW k \in 1..Len(cs), NEW i \in 1..Len(cs[k].locals),
           NEW j \in k + 1..Len(cs), NEW r, GoodChain(cs, k, i, j - 1, r)
    PROVE  GoodChain(cs, k, i, j, Link(r, j))
<1> DEFINE y == (j = k + 1)
           u == [index |-> r.index, isLocal |-> y]
           c == AddUpvalue(r.cs[j], u)
           n == UpvalueIndex(c, u)
           es == r.cs
           fs == [es EXCEPT ![j] = c]
<1>1. IsSeq(cs) /\ Len(cs) \in Nat /\ IsCompiler(cs[k]) /\ Len(cs[k].locals) \in Nat BY CompilersAre
<1>2. /\ r = [cs |-> r.cs, index |-> r.index, owner |-> k] /\ r.index \in Nat
      /\ Compilers(r.cs) /\ Grown(cs, r.cs)
  BY DEF GoodChain
<1>3. Link(r, j) = [cs |-> fs, index |-> n, owner |-> k]
  <2>1. r.owner = k BY <1>2
  <2> QED BY <2>1, LinkIs
<1>4. IsUpvalue(u) /\ u.index = r.index /\ u.isLocal = (j = k + 1)
  <2>1. y \in BOOLEAN OBVIOUS
  <2> HIDE DEF y
  <2>2. u = [index |-> r.index, isLocal |-> y] OBVIOUS
  <2> HIDE DEF u
  <2>3. IsUpvalue(u) /\ u.index = r.index /\ u.isLocal = y BY <1>2, <2>1, <2>2, BothSides
  <2> QED BY <2>3 DEF y
<1> HIDE DEF u
<1>5. Len(es) = Len(cs) BY <1>2 DEF Grown
<1>6. /\ j \in 2..Len(es) /\ j \in 1..Len(es) /\ j - 1 \in 1..Len(cs) /\ j - 1 \in 1..Len(es)
      /\ k \in Nat /\ j \in Nat /\ i \in Nat /\ r.index \in Nat
  BY <1>1, <1>2, <1>5
<1>7. IsCompiler(es[j]) BY <1>2, <1>6, CompilersAre
<1>8. /\ MayHave(es[j], c, u) /\ n \in Nat /\ n + 1 \in 1..Len(c.upvalues)
      /\ c.upvalues[n + 1] = u
  BY <1>4, <1>7, AddUpvalueIs
<1> HIDE DEF c, n
<1>9. InRange(u, es[j - 1])
  <2>1. CASE j = k + 1
    <3>1. j - 1 = k /\ r.index + 1 = i BY <1>6, <2>1 DEF GoodChain
    <3>2. Len(es[k].locals) = Len(cs[k].locals) BY <1>2, GrownKeeps
    <3> QED BY <1>4, <2>1, <3>1, <3>2 DEF InRange
  <2>2. CASE j # k + 1
    <3>1. j - 1 # k BY <1>6, <2>2
    <3>2. r.index + 1 \in 1..Len(es[j - 1].upvalues) BY <3>1 DEF GoodChain
    <3> QED BY <1>4, <2>2, <3>2 DEF InRange
  <2> QED BY <2>1, <2>2
<1>10. Compilers(fs) /\ Grown(es, fs)
  BY <1>2, <1>6, <1>8, <1>9, LinkedIs
<1>11. fs[j] = c /\ Len(fs) = Len(cs)
  <2>1. IsSeq(es) BY <1>2, CompilersAre
  <2> QED BY <1>5, <1>6, <2>1, ReplacedIs
<1> HIDE DEF fs
<1>12. Grown(cs, fs) BY <1>2, <1>10, GrownTrans
<1>13. /\ n + 1 \in DOMAIN fs[j].upvalues
       /\ UpvalueTargets(fs, j)[n + 1] =
             IF j = k + 1 THEN fs[j - 1].locals[r.index + 1].id
                          ELSE UpvalueTargets(fs, j - 1)[r.index + 1]
  <2>1. j \in 1..Len(fs) BY <1>5, <1>6, <1>11
  <2>2. n + 1 \in DOMAIN fs[j].upvalues BY <1>8, <1>10, <1>11, <2>1, CompilersAre
  <2>3. fs[j].upvalues[n + 1] = u BY <1>8, <1>11
  <2> DEFINE v == fs[j].upvalues[n + 1]
  <2>4. UpvalueTargets(fs, j)[n + 1] =
           IF v.isLocal THEN fs[j - 1].locals[v.index + 1].id
                        ELSE UpvalueTargets(fs, j - 1)[v.index + 1]
    BY <1>10, <2>1, <2>2, TargetsAre
  <2>5. v = u BY <2>3
  <2> HIDE DEF v
  <2>6. v.isLocal <=> j = k + 1 BY <1>4, <2>5
  <2>7. v.index = r.index BY <1>4, <2>5
  <2> QED BY <2>2, <2>4, <2>6, <2>7
<1>14. UpvalueTargets(fs, j)[n + 1] = cs[k].locals[i].id
  <2>1. CASE j = k + 1
    <3>1. j - 1 = k /\ r.index + 1 = i BY <1>6, <2>1 DEF GoodChain
    <3>2. fs[k].locals[i].id = cs[k].locals[i].id BY <1>12, GrownKeeps DEF Keeps
    <3> QED BY <1>13, <2>1, <3>1, <3>2
  <2>2. CASE j # k + 1
    <3>1. j - 1 # k BY <1>6, <2>2
    <3>2. /\ r.index + 1 \in 1..Len(es[j - 1].upvalues)
          /\ UpvalueTargets(es, j - 1)[r.index + 1] = cs[k].locals[i].id
      BY <3>1 DEF GoodChain
    <3> DEFINE p == j - 1
    <3>3. p \in 1..Len(es) /\ p <= Len(fs) BY <1>1, <1>5, <1>6, <1>11
    <3>4. \A m \in 1..p : Keeps(es[m], fs[m])
      <4> TAKE m \in 1..p
      <4>1. m \in 1..Len(es) BY <1>1, <1>5, <3>3
      <4> QED BY <1>2, <1>10, <4>1, GrownKeeps
    <3> HIDE DEF p
    <3>5. \A m \in 1..Len(es[p].upvalues) : UpvalueTargets(fs, p)[m] = UpvalueTargets(es, p)[m]
      BY <1>2, <1>10, <3>3, <3>4, TargetsKept
    <3>6. UpvalueTargets(fs, p)[r.index + 1] = cs[k].locals[i].id
      BY <3>2, <3>5 DEF p
    <3> QED BY <1>13, <2>2, <3>6 DEF p
  <2> QED BY <2>1, <2>2
<1>15. n + 1 \in 1..Len(fs[j].upvalues) BY <1>8, <1>11
<1>16. j # k BY <1>6
<1>17. /\ Link(r, j).cs = fs /\ Link(r, j).index = n
       /\ Link(r, j) = [cs |-> Link(r, j).cs, index |-> Link(r, j).index, owner |-> k]
  <2>1. Link(r, j) = [cs |-> fs, index |-> n, owner |-> k] BY <1>3 DEF fs, n
  <2> QED BY <2>1
<1> HIDE DEF es
<1> QED BY <1>8, <1>10, <1>12, <1>14, <1>15, <1>16, <1>17 DEF GoodChain

\* The chain leads from its variable to every function inside.
LEMMA ChainGood ==
    ASSUME NEW cs, Compilers(cs), NEW k \in 1..Len(cs), NEW i \in 1..Len(cs[k].locals)
    PROVE  GoodChain(cs, k, i, Len(cs), Chain(cs, k, i)[Len(cs)])
<1>1. Len(cs) \in Nat /\ k \in Nat /\ i \in Nat /\ Len(cs[k].locals) \in Nat BY CompilersAre
<1> DEFINE f == Chain(cs, k, i)
           n == Len(cs)
<1>2. f = CHOOSE h : ChainPart(cs, k, i, n, h) BY DEF Chain, ChainPart, ChainFrom
<1>3. ChainPart(cs, k, i, n, f)
  <2>1. \E h : ChainPart(cs, k, i, n, h) BY <1>1, ChainExists
  <2> HIDE DEF f, n
  <2> QED BY <1>2, <2>1
<1> HIDE DEF f
<1>4. \A j \in k..n : f[j] = ChainFrom(cs, k, i, f, j)
  <2> HIDE DEF n
  <2> QED BY <1>3 DEF ChainPart
<1> DEFINE S == {j \in k..n : ~ GoodChain(cs, k, i, j, f[j])}
           m == Min(S)
<1>5. S = {}
  <2>1. SUFFICES ASSUME S # {} PROVE FALSE OBVIOUS
  <2>2. m \in S /\ \A x \in S : m <= x
    <3>1. S \subseteq Nat BY <1>1
    <3> QED BY <2>1, <3>1, MinIs
  <2>3. m \in k..n /\ ~ GoodChain(cs, k, i, m, f[m]) BY <2>2
  <2>4. \A x \in k..n : x < m => GoodChain(cs, k, i, x, f[x])
    <3>1. SUFFICES ASSUME NEW x \in k..n, x < m PROVE x \notin S OBVIOUS
    <3>2. m \in Nat /\ x \in Nat BY <1>1, <2>3
    <3> HIDE DEF m
    <3>3. ~ (m <= x) BY <3>1, <3>2
    <3> QED BY <2>2, <3>3
  <2> HIDE DEF m, S
  <2>5. CASE m = k
    <3> DEFINE ds == [cs EXCEPT ![k].locals[i].captured = TRUE]
    <3>1. f[m] = [cs |-> ds, index |-> i - 1, owner |-> k] BY <1>4, <2>3, <2>5 DEF ChainFrom
    <3>2. Compilers(ds) /\ Grown(cs, ds) BY CapturedCompilers
    <3>3. i - 1 \in Nat BY <1>1
    <3> HIDE DEF ds
    <3>4. f[m].cs = ds /\ f[m].index = i - 1 /\ f[m] = [cs |-> f[m].cs, index |-> f[m].index, owner |-> k]
      BY <3>1
    <3>5. GoodChain(cs, k, i, m, f[m]) BY <2>5, <3>2, <3>3, <3>4 DEF GoodChain
    <3> QED BY <2>3, <3>5
  <2>6. CASE m # k
    <3>1. m \in k + 1..Len(cs) /\ m - 1 \in k..n /\ m - 1 < m BY <1>1, <2>3, <2>6
    <3>2. f[m] = Link(f[m - 1], m) BY <1>4, <2>3, <2>6 DEF ChainFrom
    <3>3. GoodChain(cs, k, i, m - 1, f[m - 1]) BY <2>4, <3>1
    <3>4. GoodChain(cs, k, i, m, f[m]) BY <3>1, <3>2, <3>3, LinkGood
    <3> QED BY <2>3, <3>4
  <2> QED BY <2>5, <2>6
<1>6. n \in k..n BY <1>1
<1> QED BY <1>5, <1>6 DEF f

(* Where a name is found. *)

LEMMA FindLocalIs ==
    ASSUME NEW c, IsCompiler(c), NEW name
    PROVE  /\ FindLocal(c, name) \in 0..Len(c.locals)
           /\ FindLocal(c, name) # 0 => c.locals[FindLocal(c, name)].name = name
           /\ \A i \in 1..Len(c.locals) : c.locals[i].name = name => i <= FindLocal(c, name)
<1>1. Len(c.locals) \in Nat /\ DOMAIN c.locals = 1..Len(c.locals) BY SeqIs DEF IsCompiler
<1> DEFINE S == {i \in DOMAIN c.locals : c.locals[i].name = name} \cup {0}
<1>2. S \subseteq 0..Len(c.locals) /\ S # {} BY <1>1
<1>3. Max(S) \in S /\ \A x \in S : x <= Max(S) BY <1>1, <1>2, MaxIs
<1>4. FindLocal(c, name) = Max(S) BY DEF FindLocal
<1>5. \A i \in 1..Len(c.locals) : c.locals[i].name = name => i \in S BY <1>1
<1>6. \A i \in S : i # 0 => c.locals[i].name = name OBVIOUS
<1> HIDE DEF S
<1> QED BY <1>2, <1>3, <1>4, <1>5, <1>6

LEMMA OwnerIs ==
    ASSUME NEW cs, Compilers(cs), NEW name
    PROVE  /\ Owner(cs, name) \in 0..Len(cs) - 1
           /\ Owner(cs, name) # 0 => FindLocal(cs[Owner(cs, name)], name) # 0
           /\ \A k \in 1..Len(cs) - 1 : FindLocal(cs[k], name) # 0 => k <= Owner(cs, name)
<1>1. Len(cs) \in Nat /\ Len(cs) > 0 /\ Len(cs) - 1 \in Nat BY CompilersAre
<1> DEFINE S == {k \in 1..(Len(cs) - 1) : FindLocal(cs[k], name) > 0} \cup {0}
<1>2. S \subseteq 0..Len(cs) - 1 /\ S # {} BY <1>1
<1>3. Max(S) \in S /\ \A x \in S : x <= Max(S) BY <1>1, <1>2, MaxIs
<1>4. Owner(cs, name) = Max(S) BY DEF Owner
<1>5. \A k \in 1..Len(cs) - 1 : FindLocal(cs[k], name) # 0 => k \in S
  <2> TAKE k \in 1..Len(cs) - 1
  <2>1. IsCompiler(cs[k]) /\ Len(cs[k].locals) \in Nat
    <3>1. k \in 1..Len(cs) BY <1>1
    <3> QED BY <3>1, CompilersAre
  <2>2. FindLocal(cs[k], name) \in Nat BY <2>1, FindLocalIs
  <2> QED BY <2>2
<1>6. \A k \in S : k # 0 => FindLocal(cs[k], name) # 0
  <2>1. ~ (0 > 0) OBVIOUS
  <2> QED BY <2>1
<1> HIDE DEF S
<1> QED BY <1>2, <1>3, <1>4, <1>5, <1>6

\* The declaration that the compilers find for a name.
Named(cs, name) ==
    IF FindLocal(cs[Len(cs)], name) # 0 THEN cs[Len(cs)].locals[FindLocal(cs[Len(cs)], name)].id
    ELSE IF Owner(cs, name) # 0
    THEN cs[Owner(cs, name)].locals[FindLocal(cs[Owner(cs, name)], name)].id
    ELSE Global

\* An operand that leads the innermost function to a declaration.
Access(cs, where, n, id) ==
    LET c == cs[Len(cs)] IN
    /\ n \in Nat
    /\ \/ where = "local" /\ n + 1 \in 1..Len(c.locals) /\ c.locals[n + 1].id = id
       \/ where = "upvalue" /\ n + 1 \in 1..Len(c.upvalues) /\ UpvalueTargets(cs, Len(cs))[n + 1] = id
       \/ where = "global" /\ id = Global

LEMMA ResolveIs ==
    ASSUME NEW cs, Compilers(cs), NEW name
    PROVE  LET r == Resolve(cs, name) IN
           /\ Compilers(r.cs) /\ Grown(cs, r.cs)
           /\ Access(r.cs, r.where, r.n, Named(cs, name))
<1> DEFINE n == Len(cs)
           own == FindLocal(cs[n], name)
           k == Owner(cs, name)
           i == FindLocal(cs[k], name)
           chain == Chain(cs, k, i)[n]
           r == Resolve(cs, name)
<1>1. n \in Nat /\ n > 0 /\ n \in 1..n /\ Last(cs) = cs[n] /\ IsCompiler(cs[n]) /\ Len(cs[n].locals) \in Nat
  BY CompilersAre
<1>2. own \in 0..Len(cs[n].locals) BY <1>1, FindLocalIs
<1>3. k \in 0..n - 1 /\ (k # 0 => i # 0) BY OwnerIs
<1>4. CASE own # 0
  <2>1. own > 0 BY <1>1, <1>2, <1>4
  <2>2. r.cs = cs /\ r.where = "local" /\ r.n = own - 1 BY <1>1, <2>1 DEF Resolve
  <2>3. Grown(cs, cs) BY GrownRefl
  <2>4. Named(cs, name) = cs[n].locals[own].id BY <1>4 DEF Named
  <2> HIDE DEF own, r
  <2>5. r.n \in Nat /\ r.n + 1 = own /\ own \in 1..Len(cs[n].locals) BY <1>1, <1>2, <2>1, <2>2
  <2>6. Access(cs, "local", r.n, Named(cs, name)) BY <2>4, <2>5 DEF Access
  <2> QED BY <2>2, <2>3, <2>6 DEF r
<1>5. CASE own = 0 /\ k # 0
  <2>1. k > 0 /\ k \in 1..n BY <1>1, <1>3, <1>5
  <2>2. r.cs = chain.cs /\ r.where = "upvalue" /\ r.n = chain.index
    <3>1. ~ (own > 0) BY <1>5
    <3> QED BY <1>1, <1>5, <2>1, <3>1 DEF Resolve
  <2>3. i \in 1..Len(cs[k].locals)
    <3>1. IsCompiler(cs[k]) /\ Len(cs[k].locals) \in Nat BY <2>1, CompilersAre
    <3>2. i \in 0..Len(cs[k].locals) BY <3>1, FindLocalIs
    <3> QED BY <1>3, <1>5, <3>1, <3>2
  <2>4. GoodChain(cs, k, i, n, chain) BY <2>1, <2>3, ChainGood
  <2>5. Named(cs, name) = cs[k].locals[i].id BY <1>5 DEF Named
  <2>6. n # k BY <1>1, <1>3
  <2> HIDE DEF own, k, i, chain, r
  <2>7. /\ r.n \in Nat /\ Compilers(r.cs) /\ Grown(cs, r.cs) /\ r.n + 1 \in 1..Len(r.cs[n].upvalues)
        /\ UpvalueTargets(r.cs, n)[r.n + 1] = Named(cs, name)
    BY <2>2, <2>4, <2>5, <2>6 DEF GoodChain
  <2>8. Len(r.cs) = n BY <2>7 DEF Grown
  <2>9. Access(r.cs, "upvalue", r.n, Named(cs, name)) BY <2>7, <2>8 DEF Access
  <2> QED BY <2>2, <2>7, <2>9 DEF r
<1>6. CASE own = 0 /\ k = 0
  <2>1. ~ (own > 0) /\ ~ (k > 0) BY <1>6
  <2>2. r.cs = cs /\ r.where = "global" /\ r.n = 0 BY <1>1, <1>6, <2>1 DEF Resolve
  <2>3. Grown(cs, cs) BY GrownRefl
  <2>4. Named(cs, name) = Global BY <1>6 DEF Named
  <2> HIDE DEF own, k, r
  <2>5. Access(cs, "global", 0, Named(cs, name)) BY <2>4 DEF Access
  <2> QED BY <2>2, <2>3, <2>5 DEF r
<1> QED BY <1>4, <1>5, <1>6

(* The declarations in force and the locals agree on what a name denotes. *)

Agrees(c, s, name) ==
    /\ IsSeq(s)
    /\ FindLocal(c, name) = 0 <=> Binding(s, name) = {}
    /\ FindLocal(c, name) # 0 => s[Max(Binding(s, name))][name] = c.locals[FindLocal(c, name)].id

LEMMA BindingMax ==
    ASSUME NEW s, IsSeq(s), NEW name, Binding(s, name) # {}
    PROVE  /\ Max(Binding(s, name)) \in 1..Len(s) /\ name \in DOMAIN s[Max(Binding(s, name))]
           /\ \A d \in 1..Len(s) : name \in DOMAIN s[d] => d <= Max(Binding(s, name))
<1>1. Len(s) \in Nat /\ DOMAIN s = 1..Len(s) BY SeqIs
<1>2. Binding(s, name) \subseteq 0..Len(s) BY <1>1 DEF Binding
<1>3. /\ Max(Binding(s, name)) \in Binding(s, name)
      /\ \A x \in Binding(s, name) : x <= Max(Binding(s, name))
  BY <1>1, <1>2, MaxIs
<1>4. \A d : d \in Binding(s, name) <=> d \in 1..Len(s) /\ name \in DOMAIN s[d] BY <1>1 DEF Binding
<1> QED BY <1>3, <1>4

Nonempty(name) == name # ""

LEMMA ScopedAgrees ==
    ASSUME NEW c, NEW s, IsCompiler(c), Scoped(c, s), NEW name, Nonempty(name)
    PROVE  Agrees(c, s, name)
<1> DEFINE f == FindLocal(c, name)
           L == Len(c.locals)
           b == Max(Binding(s, name))
<1> DEFINE D == c.depth
<1>0. IsSeq(s) /\ D \in Nat /\ L \in Nat BY SeqIs DEF Scoped, IsCompiler
<1>1. Len(s) = D + 1 BY DEF Scoped
<1>2. /\ f \in 0..L /\ (f # 0 => c.locals[f].name = name)
      /\ \A i \in 1..L : c.locals[i].name = name => i <= f
  BY FindLocalIs
<1>3. /\ \A i \in 1..L : c.locals[i].depth \in 0..D
      /\ \A i \in 1..L : \A j \in 1..L : i <= j => c.locals[i].depth <= c.locals[j].depth
  BY DEF Scoped, Ordered
<1>4. \A i \in 1..L : c.locals[i].name = name =>
          /\ name \in DOMAIN s[c.locals[i].depth + 1]
          /\ s[c.locals[i].depth + 1][name] = c.locals[i].id
  BY DEF Scoped, LocalsAreBound, Nonempty
<1>5. Binding(s, name) # {} =>
          /\ b \in 1..Len(s) /\ name \in DOMAIN s[b]
          /\ \A d \in 1..Len(s) : name \in DOMAIN s[d] => d <= b
  BY <1>0, BindingMax
<1>6. DOMAIN s = 1..Len(s) BY <1>0, SeqIs
<1>7. \A d \in 0..D : name \in DOMAIN s[d + 1] =>
          \E i \in 1..L : c.locals[i].depth = d /\ c.locals[i].name = name
  BY DEF Scoped, BoundAreLocals
<1> HIDE DEF f, L, b, D
<1>8. ASSUME f # 0
      PROVE  Binding(s, name) # {} /\ s[b][name] = c.locals[f].id
  <2>1. f \in 1..L BY <1>0, <1>2, <1>8
  <2>0. PICK d : d = c.locals[f].depth OBVIOUS
  <2>2. d \in 0..D /\ name \in DOMAIN s[d + 1] /\ s[d + 1][name] = c.locals[f].id
    BY <1>2, <1>3, <1>4, <1>8, <2>0, <2>1
  <2>3. d + 1 \in 1..Len(s) BY <1>0, <1>1, <2>2
  <2>4. Binding(s, name) # {} BY <1>6, <2>2, <2>3 DEF Binding
  <2>5. b \in 1..Len(s) /\ name \in DOMAIN s[b] /\ d + 1 <= b BY <1>5, <2>2, <2>3, <2>4
  <2>6. b - 1 \in 0..D /\ (b - 1) + 1 = b BY <1>0, <1>1, <2>5
  <2>7. PICK i \in 1..L : c.locals[i].depth = b - 1 /\ c.locals[i].name = name
    <3> DEFINE e == b - 1
    <3>1. e \in 0..D /\ name \in DOMAIN s[e + 1] BY <2>5, <2>6
    <3> HIDE DEF e
    <3>2. \E i \in 1..L : c.locals[i].depth = e /\ c.locals[i].name = name BY <1>7, <3>1
    <3> QED BY <3>2 DEF e
  <2>8. i <= f BY <1>2, <2>7
  <2>9. b - 1 <= d BY <1>3, <2>0, <2>1, <2>7, <2>8
  <2>10. b = d + 1
    <3>1. d \in Nat /\ b \in Nat BY <1>0, <1>1, <2>2, <2>5
    <3> QED BY <2>5, <2>9, <3>1
  <2> QED BY <2>2, <2>4, <2>10
<1>9. ASSUME f = 0 PROVE Binding(s, name) = {}
  <2>1. SUFFICES ASSUME Binding(s, name) # {} PROVE FALSE OBVIOUS
  <2>2. b \in 1..Len(s) /\ name \in DOMAIN s[b] BY <1>5, <2>1
  <2> DEFINE e == b - 1
  <2>3. e \in 0..D /\ e + 1 = b BY <1>0, <1>1, <2>2
  <2> HIDE DEF e
  <2>4. PICK i \in 1..L : c.locals[i].depth = e /\ c.locals[i].name = name BY <1>7, <2>2, <2>3
  <2>5. i <= 0 BY <1>2, <1>9, <2>4
  <2>6. ~ (i <= 0) OBVIOUS
  <2> QED BY <2>5, <2>6
<1> QED BY <1>0, <1>8, <1>9 DEF Agrees, f, b

\* Two compilers with the same locals, or one more of another name, find the same.
LEMMA SameFound ==
    ASSUME NEW c, NEW d, IsCompiler(c), IsCompiler(d), NEW name,
           Len(c.locals) <= Len(d.locals),
           \A i \in 1..Len(c.locals) : /\ d.locals[i].name = c.locals[i].name
                                       /\ d.locals[i].id = c.locals[i].id,
           \A i \in 1..Len(d.locals) : i > Len(c.locals) => d.locals[i].name # name
    PROVE  /\ FindLocal(d, name) = FindLocal(c, name)
           /\ \A s : Agrees(c, s, name) => Agrees(d, s, name)
<1> DEFINE f == FindLocal(c, name)
           g == FindLocal(d, name)
<1>1. Len(c.locals) \in Nat /\ Len(d.locals) \in Nat BY SeqIs DEF IsCompiler
<1>2. /\ f \in 0..Len(c.locals) /\ (f # 0 => c.locals[f].name = name)
      /\ \A i \in 1..Len(c.locals) : c.locals[i].name = name => i <= f
  BY FindLocalIs
<1>3. /\ g \in 0..Len(d.locals) /\ (g # 0 => d.locals[g].name = name)
      /\ \A i \in 1..Len(d.locals) : d.locals[i].name = name => i <= g
  BY FindLocalIs
<1> HIDE DEF f, g
<1>4. g <= f
  <2>1. CASE g = 0 BY <1>1, <1>2, <2>1
  <2>2. CASE g # 0
    <3>1. g \in 1..Len(d.locals) /\ ~ (g > Len(c.locals)) BY <1>1, <1>3, <2>2
    <3>2. g \in 1..Len(c.locals) BY <1>1, <3>1
    <3> QED BY <1>2, <1>3, <2>2, <3>2
  <2> QED BY <2>1, <2>2
<1>5. f <= g
  <2>1. CASE f = 0 BY <1>1, <1>3, <2>1
  <2>2. CASE f # 0
    <3>1. f \in 1..Len(c.locals) /\ f \in 1..Len(d.locals) BY <1>1, <1>2, <2>2
    <3> QED BY <1>2, <1>3, <2>2, <3>1
  <2> QED BY <2>1, <2>2
<1>6. f = g BY <1>1, <1>2, <1>3, <1>4, <1>5
<1>7. f # 0 => d.locals[f].id = c.locals[f].id
  <2>1. f # 0 => f \in 1..Len(c.locals) BY <1>1, <1>2
  <2> QED BY <2>1
<1> QED BY <1>6, <1>7 DEF Agrees, f, g

LEMMA AgreesKept ==
    ASSUME NEW c, NEW d, NEW s, NEW name, IsCompiler(c), Alike(c, d), Agrees(c, s, name)
    PROVE  Agrees(d, s, name)
<1>1. IsCompiler(d) /\ SameLocals(c, d) BY DEF Alike
<1>2. Len(c.locals) \in Nat /\ Len(d.locals) = Len(c.locals) BY <1>1, SeqIs DEF SameLocals, IsCompiler
<1>3. /\ Len(c.locals) <= Len(d.locals)
      /\ \A i \in 1..Len(c.locals) : /\ d.locals[i].name = c.locals[i].name
                                     /\ d.locals[i].id = c.locals[i].id
      /\ \A i \in 1..Len(d.locals) : i > Len(c.locals) => d.locals[i].name # name
  BY <1>1, <1>2 DEF SameLocals
<1> QED BY <1>1, <1>3, SameFound

AllAgree(cs, ss, name) ==
    IsSeq(ss) /\ Len(ss) = Len(cs) /\ \A k \in 1..Len(cs) : Agrees(cs[k], ss[k], name)

LEMMA AllAgreeKept ==
    ASSUME NEW cs, NEW ds, NEW ss, NEW name, Compilers(cs), Grown(cs, ds), AllAgree(cs, ss, name)
    PROVE  AllAgree(ds, ss, name)
<1>1. Len(ds) = Len(cs) BY DEF Grown
<1>2. \A k \in 1..Len(cs) : Agrees(ds[k], ss[k], name)
  <2> TAKE k \in 1..Len(cs)
  <2>1. IsCompiler(cs[k]) /\ Alike(cs[k], ds[k]) BY CompilersAre DEF Grown
  <2>2. Agrees(cs[k], ss[k], name) BY DEF AllAgree
  <2> QED BY <2>1, <2>2, AgreesKept
<1> QED BY <1>1, <1>2 DEF AllAgree

LEMMA DenotedIs ==
    ASSUME NEW cs, NEW ss, NEW name, Compilers(cs), AllAgree(cs, ss, name)
    PROVE  Denoted(ss, name) = Named(cs, name)
<1> DEFINE n == Len(cs)
           F == {k \in DOMAIN ss : Binding(ss[k], name) # {}}
           m == Max(F)
           found(k) == FindLocal(cs[k], name)
<1>1. n \in Nat /\ n > 0 /\ DOMAIN ss = 1..n /\ Len(ss) = n
  BY CompilersAre, SeqIs DEF AllAgree
<1>2. \A k \in 1..n : /\ found(k) = 0 <=> Binding(ss[k], name) = {}
                      /\ found(k) # 0 => ss[k][Max(Binding(ss[k], name))][name] = cs[k].locals[found(k)].id
  BY DEF AllAgree, Agrees
<1>3. \A k \in 1..n : k \in F <=> found(k) # 0 BY <1>1, <1>2
<1>4. F \subseteq 1..n BY <1>1
<1>5. Denoted(ss, name) = IF F = {} THEN Global ELSE ss[m][Max(Binding(ss[m], name))][name]
  BY DEF Denoted
<1>6. F # {} => m \in F /\ \A k \in F : k <= m
  <2>1. F \subseteq 0..n BY <1>4
  <2> QED BY <1>1, <2>1, MaxIs
<1>7. /\ Owner(cs, name) \in 0..n - 1 /\ (Owner(cs, name) # 0 => found(Owner(cs, name)) # 0)
      /\ \A k \in 1..n - 1 : found(k) # 0 => k <= Owner(cs, name)
  BY OwnerIs
<1>8. Named(cs, name) = IF found(n) # 0 THEN cs[n].locals[found(n)].id
                        ELSE IF Owner(cs, name) # 0
                        THEN cs[Owner(cs, name)].locals[found(Owner(cs, name))].id ELSE Global
  BY DEF Named
<1> HIDE DEF F, m, found, n
<1>9. F # {} => Denoted(ss, name) = cs[m].locals[found(m)].id
  <2>1. SUFFICES ASSUME F # {} PROVE Denoted(ss, name) = cs[m].locals[found(m)].id OBVIOUS
  <2>2. m \in 1..n /\ found(m) # 0 BY <1>3, <1>4, <1>6, <2>1
  <2> QED BY <1>2, <1>5, <2>1, <2>2
<1>10. CASE found(n) # 0
  <2>1. n \in 1..n BY <1>1
  <2>2. n \in F BY <1>3, <1>10, <2>1
  <2>3. m = n
    <3>1. m \in 1..n /\ n <= m BY <1>4, <1>6, <2>2
    <3> QED BY <1>1, <3>1
  <2> QED BY <1>8, <1>9, <1>10, <2>2, <2>3
<1>11. CASE found(n) = 0 /\ Owner(cs, name) # 0
  <2> DEFINE o == Owner(cs, name)
  <2>1. o \in 1..n /\ found(o) # 0 BY <1>1, <1>7, <1>11
  <2> HIDE DEF o
  <2>2. o \in F BY <1>3, <2>1
  <2>3. m = o
    <3>1. m \in 1..n /\ o <= m /\ found(m) # 0 BY <1>3, <1>4, <1>6, <2>2
    <3>2. m # n BY <1>11, <3>1
    <3>3. m \in 1..n - 1 BY <1>1, <3>1, <3>2
    <3>4. m <= o BY <1>7, <3>1, <3>3 DEF o
    <3> QED BY <1>1, <2>1, <3>1, <3>4
  <2>4. Named(cs, name) = cs[o].locals[found(o)].id BY <1>8, <1>11 DEF o
  <2> QED BY <1>9, <2>2, <2>3, <2>4
<1>12. CASE found(n) = 0 /\ Owner(cs, name) = 0
  <2>1. F = {}
    <3>1. SUFFICES ASSUME F # {} PROVE FALSE OBVIOUS
    <3>2. m \in 1..n /\ found(m) # 0 BY <1>3, <1>4, <1>6, <3>1
    <3>3. m # n BY <1>12, <3>2
    <3>4. m \in 1..n - 1 BY <1>1, <3>2, <3>3
    <3>5. m <= 0 BY <1>7, <1>12, <3>2, <3>4
    <3> QED BY <1>1, <3>4, <3>5
  <2> QED BY <1>5, <1>8, <1>12, <2>1
<1> QED BY <1>10, <1>11, <1>12

(* The code of expressions. *)

\* An instruction whose operand, if it is a variable, leads to what it means.
Leading(cs, i) ==
    \/ Harmless(i)
    \/ \E w \in {"local", "upvalue", "global"} :
          i.op \in {GetOp[w], SetOp[w]} /\ Access(cs, w, i.n, i.means)
AreLeading(cs, s) == IsSeq(s) /\ \A i \in DOMAIN s : Leading(cs, s[i])

LEMMA LeadingFinds == ASSUME NEW cs, Compilers(cs), NEW i, Leading(cs, i) PROVE Finds(cs, i)
<1>1. Last(cs) = cs[Len(cs)] BY CompilersAre
<1>2. CASE Harmless(i) BY <1>2 DEF Harmless, Accesses, Finds
<1>3. CASE i.op \in {"GET_LOCAL", "SET_LOCAL"} /\ Access(cs, "local", i.n, i.means)
  BY <1>1, <1>3 DEF Access, Finds
<1>4. CASE i.op \in {"GET_UPVALUE", "SET_UPVALUE"} /\ Access(cs, "upvalue", i.n, i.means)
  BY <1>1, <1>4 DEF Access, Finds
<1>5. CASE i.op \in {"GET_GLOBAL", "SET_GLOBAL"} /\ Access(cs, "global", i.n, i.means)
  BY <1>1, <1>5 DEF Access, Finds
<1> QED BY <1>2, <1>3, <1>4, <1>5 DEF Leading, GetOp, SetOp

LEMMA AccessKept ==
    ASSUME NEW cs, NEW ds, Compilers(cs), Compilers(ds), Len(ds) = Len(cs),
           \A k \in 1..Len(cs) : Keeps(cs[k], ds[k]),
           NEW w, NEW n, NEW id, Access(cs, w, n, id)
    PROVE  Access(ds, w, n, id)
<1> DEFINE m == Len(cs)
<1>1. m \in Nat /\ m \in 1..m /\ m <= Len(ds) BY CompilersAre
<1>2. Keeps(cs[m], ds[m]) BY <1>1
<1>3. /\ Len(cs[m].locals) \in Nat /\ Len(ds[m].locals) \in Nat
      /\ Len(cs[m].upvalues) \in Nat /\ Len(ds[m].upvalues) \in Nat
  BY <1>1, CompilersAre
<1>4. n \in Nat BY DEF Access
<1>5. CASE w = "local" /\ n + 1 \in 1..Len(cs[m].locals) /\ cs[m].locals[n + 1].id = id
  <2>1. n + 1 \in 1..Len(ds[m].locals) /\ ds[m].locals[n + 1].id = id
    BY <1>2, <1>3, <1>4, <1>5 DEF Keeps
  <2> QED BY <1>4, <1>5, <2>1 DEF Access
<1>6. CASE w = "upvalue" /\ n + 1 \in 1..Len(cs[m].upvalues) /\ UpvalueTargets(cs, m)[n + 1] = id
  <2>1. n + 1 \in 1..Len(ds[m].upvalues)
    BY <1>2, <1>3, <1>4, <1>6 DEF Keeps, MoreUpvalues
  <2> HIDE DEF m
  <2>2. m \in 1..Len(cs) /\ m <= Len(ds) /\ \A k \in 1..m : Keeps(cs[k], ds[k])
    BY <1>1 DEF m
  <2>3. \A i \in 1..Len(cs[m].upvalues) : UpvalueTargets(ds, m)[i] = UpvalueTargets(cs, m)[i]
    BY <2>2, TargetsKept
  <2>4. UpvalueTargets(ds, m)[n + 1] = id BY <1>6, <2>3
  <2> QED BY <1>4, <1>6, <2>1, <2>4 DEF Access, m
<1>7. CASE w = "global" /\ id = Global BY <1>4, <1>7 DEF Access
<1> QED BY <1>5, <1>6, <1>7 DEF Access

LEMMA LeadingKept ==
    ASSUME NEW cs, NEW ds, Compilers(cs), Compilers(ds), Len(ds) = Len(cs),
           \A k \in 1..Len(cs) : Keeps(cs[k], ds[k])
    PROVE  /\ \A i : Leading(cs, i) => Leading(ds, i)
           /\ \A s : AreLeading(cs, s) => AreLeading(ds, s)
<1>1. \A w, n, id : Access(cs, w, n, id) => Access(ds, w, n, id) BY AccessKept
<1>2. \A i : Leading(cs, i) => Leading(ds, i) BY <1>1 DEF Leading
<1> QED BY <1>2 DEF AreLeading

LEMMA GetSetLead ==
    ASSUME NEW cs, NEW r, NEW name, NEW ss,
           Access(cs, r.where, r.n, Denoted(ss, name))
    PROVE  /\ Leading(cs, Instruction(GetOp[r.where], r.n, Nowhere, Denoted(ss, name)))
           /\ Leading(cs, Instruction(SetOp[r.where], r.n, Nowhere, Denoted(ss, name)))
<1> DEFINE id == Denoted(ss, name)
           g == Instruction(GetOp[r.where], r.n, Nowhere, id)
           s == Instruction(SetOp[r.where], r.n, Nowhere, id)
<1> HIDE DEF id
<1>1. g.op = GetOp[r.where] /\ g.n = r.n /\ g.means = id BY DEF Instruction
<1>2. s.op = SetOp[r.where] /\ s.n = r.n /\ s.means = id BY DEF Instruction
<1>3. r.where \in {"local", "upvalue", "global"} /\ Access(cs, r.where, r.n, id) BY DEF Access, id
<1> HIDE DEF g, s
<1>4. Leading(cs, g) BY <1>1, <1>3 DEF Leading
<1>5. Leading(cs, s) BY <1>2, <1>3 DEF Leading
<1> QED BY <1>4, <1>5 DEF g, s, id

LEMMA HarmlessLead ==
    ASSUME NEW cs
    PROVE  (\A i : Harmless(i) => Leading(cs, i)) /\ (\A s : AreHarmless(s) => AreLeading(cs, s))
BY DEF Leading, AreLeading, AreHarmless

LEMMA LeadingTuples ==
    ASSUME NEW cs
    PROVE  /\ AreLeading(cs, <<>>)
           /\ \A a : Leading(cs, a) => AreLeading(cs, <<a>>)
           /\ \A a, b : Leading(cs, a) /\ Leading(cs, b) => AreLeading(cs, <<a, b>>)
           /\ \A a, b, c : Leading(cs, a) /\ Leading(cs, b) /\ Leading(cs, c)
                               => AreLeading(cs, <<a, b, c>>)
           /\ \A a, b, c, d : Leading(cs, a) /\ Leading(cs, b) /\ Leading(cs, c) /\ Leading(cs, d)
                                  => AreLeading(cs, <<a, b, c, d>>)
<1>1. IsSeq(<<>>) /\ (\A a : IsSeq(<<a>>)) BY TupleIs
<1>2. \A a, b : <<a, b>> \in Seq({a, b}) OBVIOUS
<1>3. \A a, b, c : <<a, b, c>> \in Seq({a, b, c}) OBVIOUS
<1>4. \A a, b, c, d : <<a, b, c, d>> \in Seq({a, b, c, d}) OBVIOUS
<1>5. AreLeading(cs, <<>>) BY <1>1 DEF AreLeading
<1>6. \A a : Leading(cs, a) => AreLeading(cs, <<a>>) BY <1>1 DEF AreLeading
<1>7. \A a, b : Leading(cs, a) /\ Leading(cs, b) => AreLeading(cs, <<a, b>>)
  <2> SUFFICES ASSUME NEW a, NEW b, Leading(cs, a), Leading(cs, b) PROVE AreLeading(cs, <<a, b>>)
    OBVIOUS
  <2>1. IsSeq(<<a, b>>) BY <1>2 DEF IsSeq
  <2>2. DOMAIN <<a, b>> = 1..2 /\ \A i \in 1..2 : Leading(cs, <<a, b>>[i]) OBVIOUS
  <2> QED BY <2>1, <2>2 DEF AreLeading
<1>8. \A a, b, c : Leading(cs, a) /\ Leading(cs, b) /\ Leading(cs, c) => AreLeading(cs, <<a, b, c>>)
  <2> SUFFICES ASSUME NEW a, NEW b, NEW c, Leading(cs, a), Leading(cs, b), Leading(cs, c)
      PROVE  AreLeading(cs, <<a, b, c>>)
    OBVIOUS
  <2>1. IsSeq(<<a, b, c>>) BY <1>3 DEF IsSeq
  <2>2. DOMAIN <<a, b, c>> = 1..3 /\ \A i \in 1..3 : Leading(cs, <<a, b, c>>[i]) OBVIOUS
  <2> QED BY <2>1, <2>2 DEF AreLeading
<1>9. \A a, b, c, d : Leading(cs, a) /\ Leading(cs, b) /\ Leading(cs, c) /\ Leading(cs, d)
                          => AreLeading(cs, <<a, b, c, d>>)
  <2> SUFFICES ASSUME NEW a, NEW b, NEW c, NEW d,
                      Leading(cs, a), Leading(cs, b), Leading(cs, c), Leading(cs, d)
      PROVE  AreLeading(cs, <<a, b, c, d>>)
    OBVIOUS
  <2>1. IsSeq(<<a, b, c, d>>) BY <1>4 DEF IsSeq
  <2>2. DOMAIN <<a, b, c, d>> = 1..4 /\ \A i \in 1..4 : Leading(cs, <<a, b, c, d>>[i]) OBVIOUS
  <2> QED BY <2>1, <2>2 DEF AreLeading
<1> QED BY <1>5, <1>6, <1>7, <1>8, <1>9

LEMMA LeadingConcat ==
    ASSUME NEW cs, NEW s, NEW t, AreLeading(cs, s), AreLeading(cs, t)
    PROVE  AreLeading(cs, s \o t)
<1>1. IsSeq(s) /\ IsSeq(t) BY DEF AreLeading
<1> DEFINE u == s \o t
<1>2. /\ Len(s) \in Nat /\ DOMAIN s = 1..Len(s) /\ Len(t) \in Nat /\ DOMAIN t = 1..Len(t)
  BY <1>1, SeqIs
<1>3. /\ IsSeq(u) /\ Len(u) = Len(s) + Len(t)
      /\ \A i \in 1..Len(s) : u[i] = s[i]
      /\ \A i \in Len(s) + 1..Len(s) + Len(t) : u[i] = t[i - Len(s)]
  BY <1>1, ConcatIs
<1> HIDE DEF u
<1>4. DOMAIN u = 1..Len(u) BY <1>3, SeqIs
<1>5. ASSUME NEW i \in DOMAIN u PROVE Leading(cs, u[i])
  <2>1. CASE i <= Len(s)
    <3>1. i \in DOMAIN s /\ u[i] = s[i] BY <1>2, <1>3, <1>4, <2>1
    <3> QED BY <3>1 DEF AreLeading
  <2>2. CASE i > Len(s)
    <3>1. i - Len(s) \in DOMAIN t /\ u[i] = t[i - Len(s)] BY <1>2, <1>3, <1>4, <2>2
    <3> QED BY <3>1 DEF AreLeading
  <2> QED BY <1>2, <1>4, <2>1, <2>2
<1> QED BY <1>3, <1>5 DEF AreLeading, u

IsExpression(e) ==
    e.form \in Forms /\ e.target \in {"variable", "property", "element"} /\ e.n \in Nat

LEMMA UnlessLeads ==
    ASSUME NEW cs, NEW jump, NEW at, NEW s, AreLeading(cs, s),
           jump \in {"JUMP_IF_NOT_NULL", "JUMP_IF_FALSE", "JUMP_IF_TRUE"}
    PROVE  AreLeading(cs, Unless(jump, at, s))
<1> DEFINE to == at + Len(s) + 2
           two == <<Goto(jump, to), Op("POP")>>
<1>1. jump \notin Accesses /\ "POP" \notin Accesses BY DEF Accesses
<1> HIDE DEF to
<1>2. Harmless(Goto(jump, to)) /\ Harmless(Op("POP")) BY <1>1, HarmlessOps
<1>3. AreLeading(cs, two) BY <1>2, HarmlessTuples, HarmlessLead
<1>4. Unless(jump, at, s) = two \o s BY DEF Unless, to
<1> HIDE DEF two
<1> QED BY <1>3, <1>4, LeadingConcat

\* Instructions that access no variable.
LEMMA Quiet ==
    ASSUME NEW cs
    PROVE  /\ Leading(cs, Const)
           /\ \A op \in {"GET_PROPERTY", "GET_PROPERTY_KEEP_REF", "SET_PROPERTY", "ARRAY_GET",
                         "ARRAY_GET_KEEP_REF", "ARRAY_SET", "BINARY", "UNARY", "GET_SUPER"} :
                 Leading(cs, Op(op))
           /\ \A op \in {"CALL", "INVOKE", "MAKE_ARRAY", "INVOKE_SUPER"} : \A n \in Nat :
                 Leading(cs, Plain(op, n))
           /\ \A n \in Nat : AreLeading(cs, Literals(n))
<1>1. \A op \in {"GET_PROPERTY", "GET_PROPERTY_KEEP_REF", "SET_PROPERTY", "ARRAY_GET",
                 "ARRAY_GET_KEEP_REF", "ARRAY_SET", "BINARY", "UNARY", "GET_SUPER",
                 "CALL", "INVOKE", "MAKE_ARRAY", "INVOKE_SUPER"} : op \notin Accesses
  BY DEF Accesses
<1> QED BY <1>1, HarmlessOps, LiteralsHarmless, HarmlessLead

LEMMA PlaceLeads ==
    ASSUME NEW cs, NEW e, IsExpression(e), NEW r,
           Leading(cs, Get(r, e.name)), Leading(cs, Set(r, e.name))
    PROVE  /\ AreLeading(cs, Place(e, r).find) /\ Leading(cs, Place(e, r).keep)
           /\ Leading(cs, Place(e, r).set) /\ AreLeading(cs, Read(e, r))
<1> DEFINE g == Get(r, e.name)
           s == Set(r, e.name)
<1>1. Leading(cs, g) /\ Leading(cs, s) OBVIOUS
<1>2. CASE e.target = "variable"
  <2>1. Place(e, r) = [find |-> <<>>, keep |-> g, set |-> s] /\ Read(e, r) = <<g>>
    BY <1>2 DEF Place, Read
  <2> HIDE DEF g, s
  <2>2. /\ Place(e, r).find = <<>> /\ Place(e, r).keep = g /\ Place(e, r).set = s
        /\ Read(e, r) = <<g>>
    BY <2>1
  <2> QED BY <1>1, <2>2, LeadingTuples
<1>3. CASE e.target = "property"
  <2>1. /\ Place(e, r) = [find |-> <<g>>, keep |-> Op("GET_PROPERTY_KEEP_REF"), set |-> Op("SET_PROPERTY")]
        /\ Read(e, r) = <<g, Op("GET_PROPERTY")>>
    BY <1>3 DEF Place, Read
  <2> HIDE DEF g, s
  <2>2. /\ Place(e, r).find = <<g>> /\ Place(e, r).keep = Op("GET_PROPERTY_KEEP_REF")
        /\ Place(e, r).set = Op("SET_PROPERTY") /\ Read(e, r) = <<g, Op("GET_PROPERTY")>>
    BY <2>1
  <2>3. AreLeading(cs, <<g>>) BY <1>1, LeadingTuples
  <2>4. /\ Leading(cs, Op("GET_PROPERTY")) /\ Leading(cs, Op("GET_PROPERTY_KEEP_REF"))
        /\ Leading(cs, Op("SET_PROPERTY"))
    BY Quiet
  <2>5. AreLeading(cs, <<g, Op("GET_PROPERTY")>>) BY <1>1, <2>4, LeadingTuples
  <2> QED BY <2>2, <2>3, <2>4, <2>5
<1>4. CASE e.target = "element"
  <2>1. /\ Place(e, r) = [find |-> <<g, Const>>, keep |-> Op("ARRAY_GET_KEEP_REF"), set |-> Op("ARRAY_SET")]
        /\ Read(e, r) = <<g, Const, Op("ARRAY_GET")>>
    BY <1>4 DEF Place, Read
  <2> HIDE DEF g, s
  <2>2. /\ Place(e, r).find = <<g, Const>> /\ Place(e, r).keep = Op("ARRAY_GET_KEEP_REF")
        /\ Place(e, r).set = Op("ARRAY_SET") /\ Read(e, r) = <<g, Const, Op("ARRAY_GET")>>
    BY <2>1
  <2>4. /\ Leading(cs, Op("ARRAY_GET")) /\ Leading(cs, Op("ARRAY_GET_KEEP_REF"))
        /\ Leading(cs, Op("ARRAY_SET")) /\ Leading(cs, Const)
    BY Quiet
  <2>3. AreLeading(cs, <<g, Const>>) BY <1>1, <2>4, LeadingTuples
  <2>5. AreLeading(cs, <<g, Const, Op("ARRAY_GET")>>) BY <1>1, <2>4, LeadingTuples
  <2> QED BY <2>2, <2>3, <2>4, <2>5
<1> QED BY <1>2, <1>3, <1>4 DEF IsExpression

LEMMA AssignmentLeads ==
    ASSUME NEW cs, NEW e, IsExpression(e), NEW r, NEW at, e.form \in {"=", "+=", "??="},
           Leading(cs, Get(r, e.name)), Leading(cs, Set(r, e.name))
    PROVE  AreLeading(cs, HandleAssignment(e, r, at))
<1> DEFINE p == Place(e, r)
           find == p.find
           keep == p.keep
           set == p.set
<1>1. AreLeading(cs, find) /\ Leading(cs, keep) /\ Leading(cs, set) BY PlaceLeads
<1>2. Leading(cs, Const) /\ Leading(cs, Op("BINARY")) BY Quiet
<1>3. CASE e.form = "="
  <2>1. HandleAssignment(e, r, at) = find \o <<Const, set>> BY <1>3 DEF HandleAssignment
  <2> HIDE DEF find, keep, set
  <2>2. AreLeading(cs, <<Const, set>>) BY <1>1, <1>2, LeadingTuples
  <2> QED BY <1>1, <2>1, <2>2, LeadingConcat
<1>4. CASE e.form = "+="
  <2>1. HandleAssignment(e, r, at) = find \o <<keep, Const, Op("BINARY"), set>>
    BY <1>4 DEF HandleAssignment
  <2> HIDE DEF find, keep, set
  <2>2. AreLeading(cs, <<keep, Const, Op("BINARY"), set>>) BY <1>1, <1>2, LeadingTuples
  <2> QED BY <1>1, <2>1, <2>2, LeadingConcat
<1>5. CASE e.form = "??="
  <2> DEFINE a == at + Len(find) + 1
  <2>1. HandleAssignment(e, r, at) = find \o <<keep>> \o Unless("JUMP_IF_NOT_NULL", a, <<Const, set>>)
    BY <1>5 DEF HandleAssignment
  <2> HIDE DEF find, keep, set, a
  <2>2. AreLeading(cs, <<Const, set>>) /\ AreLeading(cs, <<keep>>) BY <1>1, <1>2, LeadingTuples
  <2>3. AreLeading(cs, Unless("JUMP_IF_NOT_NULL", a, <<Const, set>>)) BY <2>2, UnlessLeads
  <2>4. AreLeading(cs, find \o <<keep>>) BY <1>1, <2>2, LeadingConcat
  <2> QED BY <2>1, <2>3, <2>4, LeadingConcat
<1> QED BY <1>3, <1>4, <1>5

LEMMA CodeLeads ==
    ASSUME NEW cs, NEW e, IsExpression(e), NEW r, NEW at, e.form \notin {"super", "superCall"},
           Leading(cs, Get(r, e.name)), Leading(cs, Set(r, e.name))
    PROVE  AreLeading(cs, Code(e, r, at))
<1> DEFINE g == Get(r, e.name)
           n == e.n
           b == at + 1
           code == Code(e, r, at)
<1>1. Leading(cs, g) /\ n \in Nat BY DEF IsExpression
<1>2. /\ Leading(cs, Const) /\ Leading(cs, Op("BINARY")) /\ Leading(cs, Op("UNARY"))
      /\ AreLeading(cs, Literals(n)) /\ Leading(cs, Plain("CALL", n))
      /\ Leading(cs, Plain("INVOKE", n)) /\ Leading(cs, Plain("MAKE_ARRAY", n))
  BY <1>1, Quiet
<1>3. AreLeading(cs, <<g>>) /\ AreLeading(cs, <<Const>>) BY <1>1, <1>2, LeadingTuples
<1>4. \A jump \in {"JUMP_IF_NOT_NULL", "JUMP_IF_FALSE", "JUMP_IF_TRUE"} :
         AreLeading(cs, <<g>> \o Unless(jump, b, <<Const>>))
  <2> TAKE jump \in {"JUMP_IF_NOT_NULL", "JUMP_IF_FALSE", "JUMP_IF_TRUE"}
  <2> HIDE DEF g, b
  <2>1. AreLeading(cs, Unless(jump, b, <<Const>>)) BY <1>3, UnlessLeads
  <2> QED BY <1>3, <2>1, LeadingConcat
<1>5. \A i : Leading(cs, i) => AreLeading(cs, <<g>> \o Literals(n) \o <<i>>)
  <2> SUFFICES ASSUME NEW i, Leading(cs, i) PROVE AreLeading(cs, <<g>> \o Literals(n) \o <<i>>)
    OBVIOUS
  <2> HIDE DEF g, n
  <2>1. AreLeading(cs, <<g>> \o Literals(n)) BY <1>2, <1>3, LeadingConcat
  <2>2. AreLeading(cs, <<i>>) BY LeadingTuples
  <2> QED BY <2>1, <2>2, LeadingConcat
<1>6. CASE e.form = "literal"
  <2>1. code = <<Const>> BY <1>6 DEF Code
  <2> QED BY <1>3, <2>1
<1>7. CASE e.form = "read"
  <2>1. code = Read(e, r) BY <1>7 DEF Code
  <2> QED BY <2>1, PlaceLeads
<1>8. CASE e.form \in {"=", "+=", "??="}
  <2>1. code = HandleAssignment(e, r, at) BY <1>8 DEF Code
  <2> QED BY <1>8, <2>1, AssignmentLeads
<1>9. CASE e.form = "unary"
  <2>1. code = <<g, Op("UNARY")>> BY <1>9 DEF Code
  <2> HIDE DEF g, code
  <2> QED BY <1>1, <1>2, <2>1, LeadingTuples DEF code
<1>10. CASE e.form = "binary"
  <2>1. code = <<g, Const, Op("BINARY")>> BY <1>10 DEF Code
  <2> HIDE DEF g, code
  <2> QED BY <1>1, <1>2, <2>1, LeadingTuples DEF code
<1>11. CASE e.form = "and"
  <2>1. code = <<g>> \o Unless("JUMP_IF_FALSE", b, <<Const>>) BY <1>11 DEF Code
  <2> QED BY <1>4, <2>1
<1>12. CASE e.form = "or"
  <2>1. code = <<g>> \o Unless("JUMP_IF_TRUE", b, <<Const>>) BY <1>12 DEF Code
  <2> QED BY <1>4, <2>1
<1>13. CASE e.form = "??"
  <2>1. code = <<g>> \o Unless("JUMP_IF_NOT_NULL", b, <<Const>>) BY <1>13 DEF Code
  <2> QED BY <1>4, <2>1
<1>14. CASE e.form = "call"
  <2>1. code = <<g>> \o Literals(n) \o <<Plain("CALL", n)>> BY <1>14 DEF Code
  <2> QED BY <1>2, <1>5, <2>1
<1>15. CASE e.form = "invoke"
  <2>1. code = <<g>> \o Literals(n) \o <<Plain("INVOKE", n)>> BY <1>15 DEF Code
  <2> QED BY <1>2, <1>5, <2>1
<1>16. CASE e.form = "array"
  <2>1. code = Literals(n) \o <<Const, Plain("MAKE_ARRAY", n)>> BY <1>16 DEF Code
  <2> HIDE DEF code, n
  <2>2. AreLeading(cs, <<Const, Plain("MAKE_ARRAY", n)>>) BY <1>2, LeadingTuples
  <2> QED BY <1>2, <2>1, <2>2, LeadingConcat DEF code
<1>17. e.form \in Forms BY DEF IsExpression
<1> QED BY <1>6, <1>7, <1>8, <1>9, <1>10, <1>11, <1>12, <1>13, <1>14, <1>15, <1>16, <1>17 DEF Forms

(* The innermost compiler goes on, the others only note what it captures. *)

LEMMA TopIs ==
    ASSUME NEW cs, Compilers(cs), NEW d, IsCompiler(d), d.upvalues = cs[Len(cs)].upvalues
    PROVE  LET ds == With(cs, d) IN
           /\ Compilers(ds) /\ Len(ds) = Len(cs) /\ ds[Len(cs)] = d /\ Last(ds) = d
           /\ \A k \in 1..Len(cs) - 1 : ds[k] = cs[k]
<1> DEFINE ds == With(cs, d)
           n == Len(cs)
<1>1. /\ IsSeq(cs) /\ n \in Nat /\ n > 0 /\ n \in 1..n /\ 1 \in 1..n
      /\ \A k \in 1..n : IsCompiler(cs[k])
  BY CompilersAre
<1>2. /\ IsSeq(ds) /\ Len(ds) = n /\ Last(ds) = d
      /\ \A i \in 1..n : ds[i] = IF i = n THEN d ELSE cs[i]
  BY <1>1, WithIs
<1> HIDE DEF ds
<1>3. ds[n] = d BY <1>1, <1>2
<1>4. \A k \in 1..n - 1 : ds[k] = cs[k]
  <2>1. \A k \in 1..n - 1 : k \in 1..n /\ k # n BY <1>1
  <2> HIDE DEF n
  <2> QED BY <1>2, <2>1
<1>5. \A k \in 1..n : IsCompiler(ds[k]) /\ ds[k].upvalues = cs[k].upvalues BY <1>1, <1>2
<1>6. Len(ds[1].upvalues) = 0
  <2>1. ds[1].upvalues = cs[1].upvalues BY <1>1, <1>5
  <2> QED BY <2>1 DEF Compilers, Linked
<1>7. ASSUME NEW k \in 2..Len(ds), NEW i \in 1..Len(ds[k].upvalues)
      PROVE  InRange(ds[k].upvalues[i], ds[k - 1])
  <2>1. k \in 2..n /\ k \in 1..n /\ k - 1 \in 1..n - 1 BY <1>1, <1>2
  <2>2. ds[k].upvalues = cs[k].upvalues BY <1>5, <2>1
  <2>3. ds[k - 1] = cs[k - 1] BY <1>4, <2>1
  <2>4. i \in 1..Len(cs[k].upvalues) /\ k \in 2..Len(cs) BY <2>1, <2>2
  <2>5. InRange(cs[k].upvalues[i], cs[k - 1]) BY <2>4 DEF Compilers, Linked
  <2> QED BY <2>2, <2>3, <2>5
<1>8. Compilers(ds) BY <1>1, <1>2, <1>5, <1>6, <1>7 DEF Compilers, Linked
<1> QED BY <1>2, <1>3, <1>4, <1>8 DEF ds

\* The code b is a, and more that leads where it should.
Goes(ds, a, b) ==
    /\ Len(a) <= Len(b) /\ \A pc \in 1..Len(a) : b[pc] = a[pc]
    /\ \A pc \in Len(a) + 1..Len(b) : Leading(ds, b[pc])

\* ds are cs, the innermost of them with more code.
Compiled(cs, ds) ==
    /\ Compilers(ds) /\ Len(ds) = Len(cs)
    /\ \A k \in 1..Len(cs) - 1 : Alike(cs[k], ds[k])
    /\ Goes(ds, cs[Len(cs)].code, ds[Len(cs)].code)

LEMMA GoesOn ==
    ASSUME NEW ds, NEW a, NEW s, IsSeq(a), AreLeading(ds, s)
    PROVE  Goes(ds, a, a \o s)
<1> DEFINE b == a \o s
<1>1. IsSeq(s) /\ \A i \in DOMAIN s : Leading(ds, s[i]) BY DEF AreLeading
<1>2. Len(a) \in Nat /\ Len(s) \in Nat /\ DOMAIN s = 1..Len(s) BY <1>1, SeqIs
<1>3. /\ Len(b) = Len(a) + Len(s) /\ \A i \in 1..Len(a) : b[i] = a[i]
      /\ \A i \in Len(a) + 1..Len(a) + Len(s) : b[i] = s[i - Len(a)]
  BY <1>1, ConcatIs
<1> HIDE DEF b
<1>4. \A pc \in Len(a) + 1..Len(b) : Leading(ds, b[pc])
  <2> TAKE pc \in Len(a) + 1..Len(b)
  <2>1. pc - Len(a) \in DOMAIN s /\ b[pc] = s[pc - Len(a)] BY <1>2, <1>3
  <2> QED BY <1>1, <2>1
<1>5. Len(a) <= Len(b) BY <1>2, <1>3
<1> QED BY <1>3, <1>4, <1>5 DEF Goes, b

LEMMA EmitLeads ==
    ASSUME NEW cs, Compilers(cs), NEW code, AreLeading(cs, code)
    PROVE  LET ds == With(cs, Emit(cs[Len(cs)], code)) IN
           Compiled(cs, ds) /\ Alike(cs[Len(cs)], ds[Len(cs)])
<1> DEFINE n == Len(cs)
           d == Emit(cs[n], code)
           ds == With(cs, d)
<1>1. /\ n \in Nat /\ n \in 1..n /\ IsCompiler(cs[n]) /\ IsSeq(code)
      /\ \A k \in 1..n : IsCompiler(cs[k])
  BY CompilersAre DEF AreLeading
<1>2. SameButCode(cs[n], d) /\ d.code = cs[n].code \o code BY <1>1, EmitIs
<1>3. Looks(d, cs[n].type, cs[n].locals, cs[n].depth, cs[n].loops, cs[n].upvalues, cs[n].classes)
  BY <1>2 DEF SameButCode, Looks
<1>4. Alike(cs[n], d) BY <1>1, <1>3, LooksAlike
<1>5. IsCompiler(d) /\ d.upvalues = cs[n].upvalues BY <1>2 DEF SameButCode
<1> HIDE DEF d
<1>6. /\ Compilers(ds) /\ Len(ds) = n /\ ds[n] = d /\ \A k \in 1..n - 1 : ds[k] = cs[k]
  BY <1>5, TopIs
<1> HIDE DEF ds
<1>7. \A k \in 1..n : Alike(cs[k], ds[k])
  <2> TAKE k \in 1..n
  <2>1. CASE k = n BY <1>4, <1>6, <2>1
  <2>2. CASE k # n
    <3>1. k \in 1..n - 1 BY <1>1, <2>2
    <3>2. ds[k] = cs[k] BY <1>6, <3>1
    <3> QED BY <1>1, <3>2, AlikeRefl
  <2> QED BY <2>1, <2>2
<1>8. \A k \in 1..n : Keeps(cs[k], ds[k]) BY <1>1, <1>7, AlikeKeeps
<1>9. AreLeading(ds, code) BY <1>6, <1>8, LeadingKept
<1>10. \A k \in 1..n - 1 : Alike(cs[k], ds[k]) BY <1>1, <1>7
<1>11. Goes(ds, cs[n].code, ds[n].code)
  <2>1. IsSeq(cs[n].code) /\ ds[n].code = cs[n].code \o code BY <1>1, <1>2, <1>6, CompilersAre
  <2> QED BY <1>9, <2>1, GoesOn
<1> HIDE DEF n
<1>12. Alike(cs[n], ds[n]) BY <1>1, <1>7
<1>13. Compiled(cs, ds) BY <1>6, <1>9, <1>10, <1>11 DEF Compiled, n
<1> QED BY <1>12, <1>13 DEF n, ds, d

LEMMA GrownCompiled ==
    ASSUME NEW cs, NEW ds, NEW es, Compilers(cs), Compilers(ds), Grown(cs, ds), Compiled(ds, es),
           Alike(ds[Len(ds)], es[Len(ds)])
    PROVE  Compiled(cs, es) /\ Alike(cs[Len(cs)], es[Len(cs)])
<1> DEFINE n == Len(cs)
<1>1. n \in Nat /\ n \in 1..n /\ \A k \in 1..n : IsCompiler(cs[k]) BY CompilersAre
<1>2. Len(ds) = n /\ \A k \in 1..n : Alike(cs[k], ds[k]) /\ ds[k].code = cs[k].code BY DEF Grown
<1>3. \A k \in 1..n - 1 : Alike(cs[k], es[k])
  <2> TAKE k \in 1..n - 1
  <2>1. k \in 1..n BY <1>1
  <2>2. Alike(ds[k], es[k]) BY <1>2 DEF Compiled
  <2> QED BY <1>1, <1>2, <2>1, <2>2, AlikeTrans
<1>4. Alike(cs[n], es[n]) BY <1>1, <1>2, AlikeTrans
<1> HIDE DEF n
<1>5. Goes(es, ds[n].code, es[n].code) BY <1>2 DEF Compiled
<1>6. Goes(es, cs[n].code, es[n].code) BY <1>1, <1>2, <1>5
<1>7. Compilers(es) /\ Len(es) = n BY <1>2 DEF Compiled
<1>8. Compiled(cs, es) BY <1>3, <1>6, <1>7 DEF Compiled, n
<1> QED BY <1>4, <1>8 DEF n

LEMMA GetLeads ==
    ASSUME NEW cs, Compilers(cs), NEW ss, NEW name, AllAgree(cs, ss, name)
    PROVE  LET r == Resolve(cs, name) IN
           /\ Leading(r.cs, Instruction(GetOp[r.where], r.n, Nowhere, Denoted(ss, name)))
           /\ Leading(r.cs, Instruction(SetOp[r.where], r.n, Nowhere, Denoted(ss, name)))
<1> DEFINE r == Resolve(cs, name)
<1>1. Access(r.cs, r.where, r.n, Named(cs, name)) BY ResolveIs
<1>2. Denoted(ss, name) = Named(cs, name) BY DenotedIs
<1> HIDE DEF r
<1>3. Access(r.cs, r.where, r.n, Denoted(ss, name)) BY <1>1, <1>2
<1> QED BY <1>3, GetSetLead DEF r

\* An expression's code leads to the variables that its names denote.
LEMMA ExpressionIs ==
    ASSUME NEW cs, Compilers(cs), NEW e, IsExpression(e),
           AllAgree(cs, scopes, "this"), AllAgree(cs, scopes, "super"),
           AllAgree(cs, scopes, e.name) \/ ~ Resolve(cs, e.name).ok,
           Expression(cs, e).ok
    PROVE  LET ds == Expression(cs, e).cs IN
           Compiled(cs, ds) /\ Alike(cs[Len(cs)], ds[Len(cs)])
<1> DEFINE n == Len(cs)
<1>1. CASE e.form \in {"super", "superCall"}
  <2> DEFINE this == Resolve(cs, "this")
             es == this.cs
             super == Resolve(es, "super")
             fs == super.cs
             g == Get(this, "this")
             s == Get(super, "super")
             code == Super(cs, e).code
  <2>1. Expression(cs, e).cs = [fs EXCEPT ![n] = Emit(@, code)] BY <1>1 DEF Expression, Super
  <2>2. Compilers(es) /\ Grown(cs, es) BY ResolveIs
  <2>3. AllAgree(es, scopes, "super") BY <2>2, AllAgreeKept
  <2>4. Leading(es, g) BY GetLeads DEF Get
  <2>5. Compilers(fs) /\ Grown(es, fs) BY <2>2, ResolveIs
  <2>6. Leading(fs, s) BY <2>2, <2>3, GetLeads DEF Get
  <2>7. Grown(cs, fs) BY <2>2, <2>5, GrownTrans
  <2>8. Leading(fs, g)
    <3> HIDE DEF es, fs, g
    <3>1. Len(fs) = Len(es) /\ \A k \in 1..Len(es) : Keeps(es[k], fs[k])
      BY <2>2, <2>5, GrownKeeps DEF Grown
    <3> QED BY <2>2, <2>4, <2>5, <3>1, LeadingKept
  <2>9. code = IF e.form = "super" THEN <<g, s, Op("GET_SUPER")>>
               ELSE <<g>> \o Literals(e.n) \o <<s, Plain("INVOKE_SUPER", e.n)>>
    BY DEF Super
  <2>10. /\ Leading(fs, Op("GET_SUPER")) /\ AreLeading(fs, Literals(e.n))
         /\ Leading(fs, Plain("INVOKE_SUPER", e.n))
    BY Quiet DEF IsExpression
  <2> HIDE DEF es, fs, g, s, code, this, super
  <2>11. AreLeading(fs, code)
    <3>1. AreLeading(fs, <<g, s, Op("GET_SUPER")>>) BY <2>6, <2>8, <2>10, LeadingTuples
    <3>2. AreLeading(fs, <<g>>) /\ AreLeading(fs, <<s, Plain("INVOKE_SUPER", e.n)>>)
      BY <2>6, <2>8, <2>10, LeadingTuples
    <3>3. AreLeading(fs, <<g>> \o Literals(e.n)) BY <2>10, <3>2, LeadingConcat
    <3>4. AreLeading(fs, <<g>> \o Literals(e.n) \o <<s, Plain("INVOKE_SUPER", e.n)>>)
      BY <3>2, <3>3, LeadingConcat
    <3> QED BY <2>9, <3>1, <3>4
  <2>12. Len(fs) = n BY <2>7 DEF Grown
  <2> DEFINE ds == With(fs, Emit(fs[Len(fs)], code))
  <2>13. ds = Expression(cs, e).cs BY <2>1, <2>12 DEF With
  <2>14. Compiled(fs, ds) /\ Alike(fs[Len(fs)], ds[Len(fs)]) BY <2>5, <2>11, EmitLeads
  <2> HIDE DEF ds
  <2>15. Compiled(cs, ds) /\ Alike(cs[Len(cs)], ds[Len(cs)]) BY <2>5, <2>7, <2>14, GrownCompiled
  <2> QED BY <2>13, <2>15
<1>2. CASE e.form \notin {"super", "superCall"}
  <2> DEFINE r == Resolve(cs, e.name)
             fs == r.cs
             at == Here(Last(cs))
             code == Code(e, r, at)
  <2>1. Expression(cs, e).cs = [fs EXCEPT ![n] = Emit(@, code)] /\ (Expression(cs, e).ok => r.ok)
    BY <1>2 DEF Expression
  <2>2. AllAgree(cs, scopes, e.name) BY <2>1
  <2>3. Compilers(fs) /\ Grown(cs, fs) BY ResolveIs
  <2>4. Leading(fs, Get(r, e.name)) /\ Leading(fs, Set(r, e.name)) BY <2>2, GetLeads DEF Get, Set
  <2> HIDE DEF r, at
  <2>5. AreLeading(fs, code) BY <1>2, <2>4, CodeLeads
  <2> HIDE DEF fs, code
  <2>6. Len(fs) = n BY <2>3 DEF Grown
  <2> DEFINE ds == With(fs, Emit(fs[Len(fs)], code))
  <2>7. ds = Expression(cs, e).cs BY <2>1, <2>6 DEF With
  <2>8. Compiled(fs, ds) /\ Alike(fs[Len(fs)], ds[Len(fs)]) BY <2>3, <2>5, EmitLeads
  <2> HIDE DEF ds
  <2>9. Compiled(cs, ds) /\ Alike(cs[Len(cs)], ds[Len(cs)]) BY <2>3, <2>8, GrownCompiled
  <2> QED BY <2>7, <2>9
<1> QED BY <1>1, <1>2
-----------------------------------------------------------------------------
(* Steps of the innermost compiler and of the innermost call.               *)

Onward(cs, ds) ==
    /\ Compilers(ds) /\ Len(ds) = Len(cs) /\ ds[Len(cs)].type = cs[Len(cs)].type
    /\ \A k \in 1..Len(cs) - 1 : Alike(cs[k], ds[k])

\* The same calls, some of which may have begun their statement.
SameCalls(ps, qs) ==
    /\ IsSeq(qs) /\ Len(qs) = Len(ps)
    /\ \A j \in 1..Len(ps) : IsCall(qs[j]) /\ qs[j].at = ps[j].at /\ qs[j].name = ps[j].name

LEMMA WithWith ==
    ASSUME NEW s, IsSeq(s), Len(s) > 0
    PROVE  /\ \A a, b : With(With(s, a), b) = With(s, b)
           /\ With(s, s[Len(s)]) = s
<1> DEFINE n == Len(s)
<1>1. n \in Nat /\ n \in 1..n BY SeqIs
<1>2. \A a : IsSeq(With(s, a)) /\ Len(With(s, a)) = n /\ \A i \in 1..n : With(s, a)[i] = IF i = n THEN a ELSE s[i]
  BY WithIs
<1>3. ASSUME NEW a, NEW b PROVE With(With(s, a), b) = With(s, b)
  <2> DEFINE t == With(s, a)
             u == With(t, b)
             v == With(s, b)
  <2>1. IsSeq(t) /\ Len(t) = n /\ \A i \in 1..n : t[i] = IF i = n THEN a ELSE s[i] BY <1>2
  <2>2. IsSeq(v) /\ Len(v) = n /\ \A i \in 1..n : v[i] = IF i = n THEN b ELSE s[i] BY <1>2
  <2> HIDE DEF t, v
  <2>3. Len(t) > 0 BY <1>1, <2>1
  <2>4. IsSeq(u) /\ Len(u) = n /\ \A i \in 1..n : u[i] = IF i = n THEN b ELSE t[i]
    BY <2>1, <2>3, WithIs
  <2> HIDE DEF u
  <2>5. \A i \in 1..n : u[i] = v[i] BY <2>1, <2>2, <2>4
  <2>6. u = v BY <2>2, <2>4, <2>5, SameSeqs
  <2> QED BY <2>6 DEF u, v, t
<1>4. With(s, s[n]) = s
  <2> DEFINE v == With(s, s[n])
  <2>1. IsSeq(v) /\ Len(v) = n /\ \A i \in 1..n : v[i] = IF i = n THEN s[n] ELSE s[i] BY <1>2
  <2> HIDE DEF v
  <2>2. \A i \in 1..n : v[i] = s[i] BY <2>1
  <2>3. v = s BY <2>1, <2>2, SameSeqs
  <2> QED BY <2>3 DEF v
<1> QED BY <1>3, <1>4

\* The innermost function's scopes change with its locals.
LEMMA ScopingStep ==
    ASSUME NEW cs, NEW ss, NEW ds, NEW t, Scoping(cs, ss), Onward(cs, ds),
           Scoped(ds[Len(cs)], t), GoodFrame(Shape(ds[Len(cs)]))
    PROVE  Scoping(ds, With(ss, t))
<1> DEFINE n == Len(cs)
           tt == With(ss, t)
<1>1. Compilers(cs) /\ IsSeq(ss) /\ Len(ss) = n BY DEF Scoping
<1>2. n \in Nat /\ n > 0 BY <1>1, CompilersAre
<1>3. IsSeq(tt) /\ Len(tt) = n /\ \A k \in 1..n : tt[k] = IF k = n THEN t ELSE ss[k]
  BY <1>1, <1>2, WithIs
<1> HIDE DEF tt
<1>4. ASSUME NEW k \in 1..n
      PROVE  /\ Scoped(ds[k], tt[k]) /\ GoodFrame(Shape(ds[k]))
             /\ (k = 1) <=> ds[k].type \in ProgramTypes
  <2>1. /\ Scoped(cs[k], ss[k]) /\ GoodFrame(Shape(cs[k])) /\ IsCompiler(cs[k])
        /\ (k = 1) <=> cs[k].type \in ProgramTypes
    BY <1>1, CompilersAre DEF Scoping
  <2>2. CASE k = n
    <3>1. ds[k].type = cs[k].type BY <2>2 DEF Onward
    <3> QED BY <1>3, <2>1, <2>2, <3>1
  <2>3. CASE k # n
    <3>1. k \in 1..n - 1 BY <1>2, <2>3
    <3>2. Alike(cs[k], ds[k]) BY <3>1 DEF Onward
    <3>3. Scoped(ds[k], ss[k]) BY <2>1, <3>2, AlikeScoped
    <3>4. ds[k].type = cs[k].type /\ Shape(ds[k]) = Shape(cs[k]) BY <3>2 DEF Alike
    <3> QED BY <1>3, <2>1, <2>3, <3>3, <3>4
  <2> QED BY <2>2, <2>3
<1>5. Compilers(ds) /\ Len(ds) = n BY DEF Onward
<1> QED BY <1>3, <1>4, <1>5 DEF Scoping, tt

LEMMA DeclaredKept ==
    ASSUME NEW c, NEW d, NEW name, IsCompiler(c), Alike(c, d), Declared(c, name)
    PROVE  Declared(d, name)
<1>1. d.type = c.type /\ Shape(d) = Shape(c) /\ IsCompiler(d) BY DEF Alike
<1>2. d.depth = c.depth BY <1>1, ShapeIs
<1>3. Len(c.locals) \in Nat /\ Len(d.locals) = Len(c.locals) BY SeqIs DEF IsCompiler, Alike, SameLocals
<1>4. IsGlobalScope(d) <=> IsGlobalScope(c) BY <1>1, <1>2 DEF IsGlobalScope
<1>5. Len(c.locals) > 0 => d.locals[Len(c.locals)].depth = c.locals[Len(c.locals)].depth
  <2> DEFINE m == Len(c.locals)
  <2>1. m > 0 => m \in 1..m BY <1>3
  <2> QED BY <2>1 DEF Alike, SameLocals
<1> QED BY <1>2, <1>3, <1>4, <1>5 DEF Declared

\* The functions that wait for an inner one are below the innermost one.
LEMMA BodiesKept ==
    ASSUME NEW cs, NEW ds, NEW ps, NEW qs, NEW level, NEW frame, Compilers(cs),
           NestedAs(level, frame, cs, ps), Onward(cs, ds), SameCalls(ps, qs)
    PROVE  \A j \in 1..Len(ps) : qs[j].at = "body" =>
              /\ level[j] \in 1..Len(cs) - 1
              /\ frame[j] = Shape(ds[level[j]])
              /\ Declared(ds[level[j]], qs[j].name)
<1> DEFINE n == Len(ps)
<1>1. /\ IsSeq(ps) /\ n > 0 /\ \A j \in 1..n : IsCall(ps[j]) /\ ps[j].at \in Kinds
      /\ IsSeq(level) /\ IsSeq(frame) /\ Len(level) = n + 1 /\ Len(frame) = n + 1
      /\ level[1] = 1 /\ level[n + 1] = Len(cs) /\ frame[n + 1] = Shape(cs[Len(cs)])
  BY DEF NestedAs
<1>2. /\ \A j \in 1..n : /\ (ps[j].at = "program") <=> (j = 1)
                         /\ Inside(ps[j].at, frame[j], frame[j + 1])
                         /\ level[j + 1] = IF ps[j].at = "body" THEN level[j] + 1 ELSE level[j]
                         /\ level[j + 1] \in 1..j
                         /\ GoodFrame(frame[j])
      /\ \A i \in 1..n + 1 : \A j \in 1..n + 1 : i <= j => level[i] <= level[j]
  BY DEF NestedAs
<1>3. \A j \in 1..n : ps[j].at = "body" => /\ frame[j] = Shape(cs[level[j]])
                                            /\ Declared(cs[level[j]], ps[j].name)
  BY DEF NestedAs
<1>4. n \in Nat BY <1>1, SeqIs
<1>5. /\ Len(qs) = n /\ IsSeq(qs)
      /\ \A j \in 1..n : IsCall(qs[j]) /\ qs[j].at = ps[j].at /\ qs[j].name = ps[j].name
  BY DEF SameCalls
<1>6. Len(ds) = Len(cs) /\ Len(cs) \in Nat BY CompilersAre DEF Onward
<1> HIDE DEF n
<1>7. ASSUME NEW j \in 1..n, qs[j].at = "body"
      PROVE  /\ level[j] \in 1..Len(cs) - 1
             /\ frame[j] = Shape(ds[level[j]])
             /\ Declared(ds[level[j]], qs[j].name)
  <2>1. ps[j].at = "body" /\ qs[j].name = ps[j].name BY <1>5, <1>7
  <2>2. j + 1 \in 1..n + 1 /\ n + 1 \in 1..n + 1 /\ j + 1 <= n + 1 /\ j \in 1..n + 1 /\ 1 \in 1..n + 1 /\ 1 <= j
    BY <1>4
  <2>3. level[j + 1] = level[j] + 1 /\ level[j + 1] \in 1..j BY <1>2, <2>1
  <2>4. level[j + 1] <= level[n + 1] BY <1>2, <2>2
  <2>5. level[1] <= level[j] BY <1>2, <2>2
  <2>6. level[j] \in 1..Len(cs) - 1
    <3>1. j = 1 \/ j - 1 \in 1..n BY <1>4
    <3>2. j # 1 => level[j] \in Nat
      <4>1. SUFFICES ASSUME j # 1 PROVE level[j] \in Nat OBVIOUS
      <4> DEFINE i == j - 1
      <4>2. i \in 1..n /\ i + 1 = j /\ i \in Nat BY <3>1, <4>1
      <4> HIDE DEF i
      <4>3. level[i + 1] \in 1..i BY <1>2, <4>2
      <4> QED BY <4>2, <4>3
    <3>3. level[j] \in Nat BY <1>1, <3>2
    <3>4. level[j] + 1 <= Len(cs) BY <1>1, <2>3, <2>4
    <3>5. 1 <= level[j] BY <1>1, <2>5
    <3> QED BY <1>6, <3>3, <3>4, <3>5
  <2> DEFINE m == level[j]
  <2>7. m \in 1..Len(cs) BY <1>6, <2>6
  <2>8. Alike(cs[m], ds[m]) /\ IsCompiler(cs[m]) BY <2>6, <2>7, CompilersAre DEF Onward
  <2>9. frame[j] = Shape(cs[m]) /\ Declared(cs[m], ps[j].name) BY <1>3, <2>1
  <2> HIDE DEF m
  <2>10. frame[j] = Shape(ds[m]) BY <2>8, <2>9 DEF Alike
  <2>11. Declared(ds[m], ps[j].name) BY <2>8, <2>9, DeclaredKept
  <2> QED BY <2>1, <2>6, <2>10, <2>11 DEF m
<1> QED BY <1>7 DEF n

LEMMA NestedKept ==
    ASSUME NEW cs, NEW ds, NEW ps, NEW qs, NEW level, NEW frame, Compilers(cs),
           NestedAs(level, frame, cs, ps), Onward(cs, ds), SameCalls(ps, qs),
           Shape(ds[Len(cs)]) = Shape(cs[Len(cs)])
    PROVE  NestedAs(level, frame, ds, qs)
<1> DEFINE n == Len(ps)
<1>1. /\ IsSeq(ps) /\ n > 0 /\ \A j \in 1..n : IsCall(ps[j]) /\ ps[j].at \in Kinds
      /\ IsSeq(level) /\ IsSeq(frame) /\ Len(level) = n + 1 /\ Len(frame) = n + 1
      /\ level[1] = 1 /\ level[n + 1] = Len(cs) /\ frame[n + 1] = Shape(cs[Len(cs)])
  BY DEF NestedAs
<1>2. /\ \A j \in 1..n : /\ (ps[j].at = "program") <=> (j = 1)
                         /\ Inside(ps[j].at, frame[j], frame[j + 1])
                         /\ level[j + 1] = IF ps[j].at = "body" THEN level[j] + 1 ELSE level[j]
                         /\ level[j + 1] \in 1..j
                         /\ GoodFrame(frame[j])
      /\ \A i \in 1..n + 1 : \A j \in 1..n + 1 : i <= j => level[i] <= level[j]
  BY DEF NestedAs
<1>3. \A j \in 1..n : ps[j].at = "body" => /\ frame[j] = Shape(cs[level[j]])
                                            /\ Declared(cs[level[j]], ps[j].name)
  BY DEF NestedAs
<1>4. n \in Nat BY <1>1, SeqIs
<1>5. /\ Len(qs) = n /\ IsSeq(qs)
      /\ \A j \in 1..n : IsCall(qs[j]) /\ qs[j].at = ps[j].at /\ qs[j].name = ps[j].name
  BY DEF SameCalls
<1>6. Len(ds) = Len(cs) /\ Len(cs) \in Nat BY CompilersAre DEF Onward
<1> HIDE DEF n
<1>7. ASSUME NEW j \in 1..n, qs[j].at = "body"
      PROVE  /\ frame[j] = Shape(ds[level[j]])
             /\ Declared(ds[level[j]], qs[j].name)
  BY <1>7, BodiesKept DEF n
<1>8. \A j \in 1..n : qs[j].at \in Kinds BY <1>1, <1>5
<1>9. \A j \in 1..n : /\ (qs[j].at = "program") <=> (j = 1)
                      /\ Inside(qs[j].at, frame[j], frame[j + 1])
                      /\ level[j + 1] = IF qs[j].at = "body" THEN level[j] + 1 ELSE level[j]
                      /\ level[j + 1] \in 1..j
                      /\ GoodFrame(frame[j])
  BY <1>2, <1>5
<1>10. level[n + 1] = Len(ds) /\ frame[n + 1] = Shape(ds[Len(ds)]) BY <1>1, <1>6
<1>11. n > 0 /\ n = Len(qs) BY <1>1, <1>5 DEF n
<1>12. \A i \in 1..n + 1 : \A j \in 1..n + 1 : i <= j => level[i] <= level[j] BY <1>2
<1> QED BY <1>1, <1>5, <1>7, <1>8, <1>9, <1>10, <1>11, <1>12 DEF NestedAs

LEMMA InsideOpened ==
    ASSUME NEW level, NEW frame, NEW cs, NEW ps, NEW ds, NEW qs, NEW p, NEW x, NEW g,
           Compilers(cs), NestedAs(level, frame, cs, ps), SameCalls(ps, qs),
           Compilers(ds), x = Len(ds), g = Shape(ds[Len(ds)]),
           IsCall(p), p.at \in Kinds, p.at # "program",
           Inside(p.at, Shape(cs[Len(cs)]), g), GoodFrame(Shape(cs[Len(cs)])),
           x = IF p.at = "body" THEN Len(cs) + 1 ELSE Len(cs),
           \A j \in 1..Len(ps) : qs[j].at = "body" =>
              frame[j] = Shape(ds[level[j]]) /\ Declared(ds[level[j]], qs[j].name),
           p.at = "body" =>
              Shape(cs[Len(cs)]) = Shape(ds[Len(cs)]) /\ Declared(ds[Len(cs)], p.name)
    PROVE  NestedAs(Append(level, x), Append(frame, g), ds, Append(qs, p))
<1> DEFINE n == Len(ps)
           lv == Append(level, x)
           fr == Append(frame, g)
           rs == Append(qs, p)
           m == n + 1
<1>1. /\ IsSeq(ps) /\ n > 0 /\ \A j \in 1..n : IsCall(ps[j]) /\ ps[j].at \in Kinds
      /\ IsSeq(level) /\ IsSeq(frame) /\ Len(level) = n + 1 /\ Len(frame) = n + 1
      /\ level[1] = 1 /\ level[n + 1] = Len(cs) /\ frame[n + 1] = Shape(cs[Len(cs)])
  BY DEF NestedAs
<1>2. /\ \A j \in 1..n : /\ (ps[j].at = "program") <=> (j = 1)
                         /\ Inside(ps[j].at, frame[j], frame[j + 1])
                         /\ level[j + 1] = IF ps[j].at = "body" THEN level[j] + 1 ELSE level[j]
                         /\ level[j + 1] \in 1..j
                         /\ GoodFrame(frame[j])
      /\ \A i \in 1..n + 1 : \A j \in 1..n + 1 : i <= j => level[i] <= level[j]
  BY DEF NestedAs
<1>3. n \in Nat BY <1>1, SeqIs
<1>4. /\ Len(qs) = n /\ IsSeq(qs)
      /\ \A j \in 1..n : IsCall(qs[j]) /\ qs[j].at = ps[j].at /\ qs[j].name = ps[j].name
  BY DEF SameCalls
<1> HIDE DEF n
<1>5. /\ IsSeq(lv) /\ Len(lv) = m + 1 /\ lv[m + 1] = x /\ \A j \in 1..m : lv[j] = level[j]
  BY <1>1, AppendIs
<1>6. /\ IsSeq(fr) /\ Len(fr) = m + 1 /\ fr[m + 1] = g /\ \A j \in 1..m : fr[j] = frame[j]
  BY <1>1, AppendIs
<1>7. /\ IsSeq(rs) /\ Len(rs) = m /\ rs[m] = p /\ \A j \in 1..n : rs[j] = qs[j]
  BY <1>4, AppendIs
<1> HIDE DEF lv, fr, rs
<1>8. /\ m \in Nat /\ m > 0 /\ m \in 1..m /\ 1 \in 1..m /\ m = n + 1
      /\ (\A j \in 1..n : j \in 1..m /\ j + 1 \in 1..m)
      /\ \A j \in 1..m : j \in 1..n \/ j = m
  BY <1>3
<1>9. Len(cs) \in Nat /\ Len(cs) > 0 BY CompilersAre
<1>10. level[m] = Len(cs) /\ Len(cs) \in 1..n
  <2>1. n \in 1..n BY <1>1, <1>3
  <2> QED BY <1>1, <1>2, <2>1
<1>11. \A j \in 1..m : IsCall(rs[j]) /\ rs[j].at \in Kinds
  BY <1>1, <1>4, <1>7, <1>8
<1>12. ASSUME NEW j \in 1..m
       PROVE  /\ (rs[j].at = "program") <=> (j = 1)
              /\ Inside(rs[j].at, fr[j], fr[j + 1])
              /\ lv[j + 1] = IF rs[j].at = "body" THEN lv[j] + 1 ELSE lv[j]
              /\ lv[j + 1] \in 1..j
              /\ GoodFrame(fr[j])
  <2>1. CASE j \in 1..n
    <3>1. rs[j].at = ps[j].at BY <1>4, <1>7, <2>1
    <3>2. lv[j] = level[j] /\ lv[j + 1] = level[j + 1] BY <1>5, <1>8, <2>1
    <3>3. fr[j] = frame[j] /\ fr[j + 1] = frame[j + 1] BY <1>6, <1>8, <2>1
    <3> QED BY <1>2, <2>1, <3>1, <3>2, <3>3
  <2>2. CASE j = m
    <3>1. rs[j].at = p.at /\ j # 1 BY <1>1, <1>3, <1>7, <1>8, <2>2
    <3>2. lv[j] = Len(cs) /\ lv[j + 1] = x BY <1>5, <1>8, <1>10, <2>2
    <3>3. fr[j] = Shape(cs[Len(cs)]) /\ fr[j + 1] = g BY <1>1, <1>6, <1>8, <2>2
    <3>4. lv[j + 1] = IF rs[j].at = "body" THEN lv[j] + 1 ELSE lv[j] BY <3>1, <3>2
    <3>5. lv[j + 1] \in 1..j BY <1>8, <1>9, <1>10, <2>2, <3>1, <3>2
    <3>6. (rs[j].at = "program") <=> (j = 1) BY <3>1
    <3> QED BY <3>1, <3>3, <3>4, <3>5, <3>6
  <2> QED BY <1>8, <2>1, <2>2
<1>13. ASSUME NEW i \in 1..m + 1, NEW j \in 1..m + 1, i <= j PROVE lv[i] <= lv[j]
  <2>1. CASE j \in 1..m
    <3>1. i \in 1..m BY <1>8, <1>13, <2>1
    <3> QED BY <1>2, <1>5, <1>8, <1>13, <2>1, <3>1
  <2>2. CASE j = m + 1
    <3>1. lv[j] = x /\ (x = Len(cs) \/ x = Len(cs) + 1) BY <1>5, <2>2
    <3>2. CASE i \in 1..m
      <4>1. level[i] <= level[m] BY <1>2, <1>8, <3>2
      <4>2. lv[i] <= Len(cs) /\ lv[i] = level[i] BY <1>5, <1>10, <3>2, <4>1
      <4>3. level[i] \in Nat
        <5>1. CASE i = 1 BY <1>1, <5>1
        <5>2. CASE i # 1
          <6> DEFINE k == i - 1
          <6>1. k \in 1..n /\ k + 1 = i BY <1>3, <1>8, <3>2, <5>2
          <6> HIDE DEF k
          <6>2. level[k + 1] \in 1..k BY <1>2, <6>1
          <6> QED BY <1>3, <6>1, <6>2
        <5> QED BY <5>1, <5>2
      <4> QED BY <1>9, <3>1, <4>2, <4>3
    <3>3. CASE i = m + 1
      <4>1. lv[i] = x /\ x \in Nat BY <1>5, <1>9, <3>1, <3>3
      <4> QED BY <3>1, <4>1
    <3> QED BY <1>8, <3>2, <3>3
  <2> QED BY <1>8, <2>1, <2>2
<1>14. ASSUME NEW j \in 1..m, rs[j].at = "body"
       PROVE  fr[j] = Shape(ds[lv[j]]) /\ Declared(ds[lv[j]], rs[j].name)
  <2>1. CASE j \in 1..n
    <3>1. rs[j] = qs[j] /\ lv[j] = level[j] /\ fr[j] = frame[j] BY <1>5, <1>6, <1>7, <1>8, <2>1
    <3>2. frame[j] = Shape(ds[level[j]]) /\ Declared(ds[level[j]], qs[j].name)
      BY <1>14, <2>1, <3>1 DEF n
    <3> QED BY <3>1, <3>2
  <2>2. CASE j = m
    <3>1. rs[j] = p /\ lv[j] = Len(cs) BY <1>5, <1>7, <1>8, <1>10, <2>2
    <3>2. fr[j] = Shape(cs[Len(cs)]) BY <1>1, <1>6, <1>8, <2>2
    <3> QED BY <1>14, <3>1, <3>2
  <2> QED BY <1>8, <2>1, <2>2
<1>15. lv[1] = 1 BY <1>1, <1>5, <1>8
<1> HIDE DEF m
<1>16. NestedAs(lv, fr, ds, rs)
  BY <1>5, <1>6, <1>7, <1>8, <1>11, <1>12, <1>13, <1>14, <1>15 DEF NestedAs
<1> QED BY <1>16 DEF lv, fr, rs

LEMMA InsideClosed ==
    ASSUME NEW level, NEW frame, NEW cs, NEW ps, NEW ds,
           Compilers(cs), NestedAs(level, frame, cs, ps), Compilers(ds),
           ps[Len(ps)].at # "program",
           Len(ds) = level[Len(ps)], Shape(ds[Len(ds)]) = frame[Len(ps)],
           \A j \in 1..Len(ps) - 1 : ps[j].at = "body" =>
              frame[j] = Shape(ds[level[j]]) /\ Declared(ds[level[j]], ps[j].name)
    PROVE  NestedAs(Front(level), Front(frame), ds, Front(ps))
<1> DEFINE m == Len(ps)
           n == m - 1
           lv == Front(level)
           fr == Front(frame)
           rs == Front(ps)
<1>1. /\ IsSeq(ps) /\ m > 0 /\ \A j \in 1..m : IsCall(ps[j]) /\ ps[j].at \in Kinds
      /\ IsSeq(level) /\ IsSeq(frame) /\ Len(level) = m + 1 /\ Len(frame) = m + 1
      /\ level[1] = 1 /\ level[m + 1] = Len(cs) /\ frame[m + 1] = Shape(cs[Len(cs)])
  BY DEF NestedAs
<1>2. /\ \A j \in 1..m : /\ (ps[j].at = "program") <=> (j = 1)
                         /\ Inside(ps[j].at, frame[j], frame[j + 1])
                         /\ level[j + 1] = IF ps[j].at = "body" THEN level[j] + 1 ELSE level[j]
                         /\ level[j + 1] \in 1..j
                         /\ GoodFrame(frame[j])
      /\ \A i \in 1..m + 1 : \A j \in 1..m + 1 : i <= j => level[i] <= level[j]
  BY DEF NestedAs
<1>3. m \in Nat BY <1>1, SeqIs
<1>4. m # 1
  <2>1. 1 \in 1..m BY <1>1, <1>3
  <2> QED BY <1>2, <2>1
<1>5. /\ n \in Nat /\ n > 0 /\ m = n + 1 /\ (\A j \in 1..n : j \in 1..m /\ j + 1 \in 1..m)
      /\ (\A j \in 1..m : j \in 1..m + 1) /\ 1 \in 1..m
  <2>1. m > 0 BY <1>1
  <2> HIDE DEF m
  <2>2. n \in Nat /\ n > 0 /\ m = n + 1 BY <1>3, <1>4, <2>1
  <2>3. \A j \in 1..n : j \in 1..m /\ j + 1 \in 1..m BY <1>3, <2>2
  <2>4. (\A j \in 1..m : j \in 1..m + 1) /\ 1 \in 1..m BY <1>3, <2>1
  <2> QED BY <2>2, <2>3, <2>4
<1>6. /\ IsSeq(lv) /\ Len(lv) = m /\ \A j \in 1..m : lv[j] = level[j]
  <2>1. Len(level) > 0 /\ Len(level) - 1 = m BY <1>1, <1>3
  <2> QED BY <1>1, <2>1, FrontIs
<1>7. /\ IsSeq(fr) /\ Len(fr) = m /\ \A j \in 1..m : fr[j] = frame[j]
  <2>1. Len(frame) > 0 /\ Len(frame) - 1 = m BY <1>1, <1>3
  <2> QED BY <1>1, <2>1, FrontIs
<1>8. /\ IsSeq(rs) /\ Len(rs) = n /\ \A j \in 1..n : rs[j] = ps[j]
  BY <1>1, FrontIs
<1>9. /\ Len(ds) = level[m] /\ Shape(ds[Len(ds)]) = frame[m]
      /\ \A j \in 1..n : ps[j].at = "body" =>
            frame[j] = Shape(ds[level[j]]) /\ Declared(ds[level[j]], ps[j].name)
  OBVIOUS
<1> HIDE DEF lv, fr, rs, m, n
<1>10. \A j \in 1..n : IsCall(rs[j]) /\ rs[j].at \in Kinds BY <1>1, <1>5, <1>8
<1>11. lv[1] = 1 /\ lv[n + 1] = Len(ds) /\ fr[n + 1] = Shape(ds[Len(ds)])
  <2>1. m \in 1..m BY <1>1, <1>3
  <2> QED BY <1>1, <1>5, <1>6, <1>7, <1>9, <2>1
<1>12. ASSUME NEW j \in 1..n
       PROVE  /\ (rs[j].at = "program") <=> (j = 1)
              /\ Inside(rs[j].at, fr[j], fr[j + 1])
              /\ lv[j + 1] = IF rs[j].at = "body" THEN lv[j] + 1 ELSE lv[j]
              /\ lv[j + 1] \in 1..j
              /\ GoodFrame(fr[j])
  <2>1. rs[j] = ps[j] /\ lv[j] = level[j] /\ lv[j + 1] = level[j + 1]
        /\ fr[j] = frame[j] /\ fr[j + 1] = frame[j + 1] /\ j \in 1..m
    BY <1>5, <1>6, <1>7, <1>8
  <2> QED BY <1>2, <2>1
<1>13. \A i \in 1..n + 1 : \A j \in 1..n + 1 : i <= j => lv[i] <= lv[j]
  BY <1>2, <1>5, <1>6
<1>14. \A j \in 1..n : rs[j].at = "body" =>
          fr[j] = Shape(ds[lv[j]]) /\ Declared(ds[lv[j]], rs[j].name)
  BY <1>5, <1>6, <1>7, <1>8, <1>9
<1>15. Len(lv) = n + 1 /\ Len(fr) = n + 1 BY <1>5, <1>6, <1>7
<1>16. NestedAs(lv, fr, ds, rs)
  BY <1>5, <1>6, <1>7, <1>8, <1>10, <1>11, <1>12, <1>13, <1>14, <1>15 DEF NestedAs
<1> QED BY <1>16 DEF lv, fr, rs

LEMMA SameCallsRefl ==
    ASSUME NEW level, NEW frame, NEW cs, NEW ps, NestedAs(level, frame, cs, ps)
    PROVE  SameCalls(ps, ps)
BY DEF NestedAs, SameCalls

\* The innermost function goes on in its frame.
LEMMA KeptIs ==
    ASSUME NEW cs, NEW ss, NEW ps, NEW ds, NEW t, NEW qs, Scoping(cs, ss), Nesting(cs, ps),
           Onward(cs, ds), SameCalls(ps, qs), Shape(ds[Len(cs)]) = Shape(cs[Len(cs)]),
           Scoped(ds[Len(cs)], t)
    PROVE  Scoping(ds, With(ss, t)) /\ Nesting(ds, qs)
<1>1. Compilers(cs) BY DEF Scoping
<1>2. Len(cs) \in 1..Len(cs) BY <1>1, CompilersAre
<1>3. GoodFrame(Shape(ds[Len(cs)])) BY <1>2 DEF Scoping
<1>4. Scoping(ds, With(ss, t)) BY <1>3, ScopingStep
<1>5. PICK level, frame : NestedAs(level, frame, cs, ps) BY DEF Nesting
<1>6. NestedAs(level, frame, ds, qs) BY <1>1, <1>5, NestedKept
<1> QED BY <1>4, <1>6 DEF Nesting

\* A call waits for a statement in a frame of its own.
LEMMA OpenedIs ==
    ASSUME NEW cs, NEW ss, NEW ps, NEW ds, NEW t, NEW qs, NEW p, Scoping(cs, ss), Nesting(cs, ps),
           Onward(cs, ds), SameCalls(ps, qs), Scoped(ds[Len(cs)], t), GoodFrame(Shape(ds[Len(cs)])),
           IsCall(p), p.at \in Kinds, p.at \notin {"program", "body"},
           Inside(p.at, Shape(cs[Len(cs)]), Shape(ds[Len(cs)]))
    PROVE  Scoping(ds, With(ss, t)) /\ Nesting(ds, Append(qs, p))
<1> DEFINE n == Len(cs)
           g == Shape(ds[Len(ds)])
           x == Len(ds)
<1>1. Compilers(cs) /\ Compilers(ds) /\ Len(ds) = n BY DEF Scoping, Onward
<1>2. n \in 1..n /\ n \in Nat BY <1>1, CompilersAre
<1>3. GoodFrame(Shape(cs[n])) BY <1>2 DEF Scoping
<1>4. Scoping(ds, With(ss, t)) BY ScopingStep
<1>5. PICK level, frame : NestedAs(level, frame, cs, ps) BY DEF Nesting
<1>6. \A j \in 1..Len(ps) : qs[j].at = "body" =>
         frame[j] = Shape(ds[level[j]]) /\ Declared(ds[level[j]], qs[j].name)
  BY <1>1, <1>5, BodiesKept
<1>7. x = Len(cs) /\ g = Shape(ds[Len(cs)]) BY <1>1
<1>8. x = IF p.at = "body" THEN Len(cs) + 1 ELSE Len(cs) BY <1>7
<1>9. x = Len(ds) /\ g = Shape(ds[Len(ds)]) OBVIOUS
<1> HIDE DEF n, g, x
<1>10. NestedAs(Append(level, x), Append(frame, g), ds, Append(qs, p))
  BY <1>1, <1>3, <1>5, <1>6, <1>7, <1>8, <1>9, InsideOpened DEF n
<1> QED BY <1>4, <1>10 DEF Nesting

\* A statement ends: its frame was the one the call made of the frame before.
LEMMA ClosedIs ==
    ASSUME NEW cs, NEW ss, NEW ps, NEW ds, NEW t, Scoping(cs, ss), Nesting(cs, ps),
           Onward(cs, ds), Scoped(ds[Len(cs)], t),
           ps[Len(ps)].at \notin {"program", "body"},
           \A f : GoodFrame(f) /\ Inside(ps[Len(ps)].at, f, Shape(cs[Len(cs)]))
                      => Shape(ds[Len(cs)]) = f
    PROVE  Scoping(ds, With(ss, t)) /\ Nesting(ds, Front(ps))
<1> DEFINE n == Len(ps)
<1>1. Compilers(cs) /\ Compilers(ds) /\ Len(ds) = Len(cs) BY DEF Scoping, Onward
<1>2. PICK level, frame : NestedAs(level, frame, cs, ps) BY DEF Nesting
<1>3. n \in Nat /\ n > 0 BY <1>2, SeqIs DEF NestedAs
<1>4. n \in 1..n /\ \A j \in 1..n - 1 : j \in 1..n BY <1>3
<1>5. /\ GoodFrame(frame[n]) /\ Inside(ps[n].at, frame[n], frame[n + 1])
      /\ level[n + 1] = level[n] /\ level[n + 1] = Len(cs) /\ frame[n + 1] = Shape(cs[Len(cs)])
  BY <1>2, <1>4 DEF NestedAs
<1>6. Shape(ds[Len(cs)]) = frame[n] BY <1>5
<1>7. SameCalls(ps, ps) BY <1>2, SameCallsRefl
<1>8. \A j \in 1..n : ps[j].at = "body" =>
         frame[j] = Shape(ds[level[j]]) /\ Declared(ds[level[j]], ps[j].name)
  BY <1>1, <1>2, <1>7, BodiesKept
<1>9. GoodFrame(Shape(ds[Len(cs)])) BY <1>5, <1>6
<1>10. Scoping(ds, With(ss, t)) BY <1>9, ScopingStep
<1>11. \A j \in 1..n - 1 : ps[j].at = "body" =>
          frame[j] = Shape(ds[level[j]]) /\ Declared(ds[level[j]], ps[j].name)
  BY <1>4, <1>8
<1>12. Len(ds) = level[n] /\ Shape(ds[Len(ds)]) = frame[n] BY <1>1, <1>5, <1>6
<1>13. NestedAs(Front(level), Front(frame), ds, Front(ps))
  BY <1>1, <1>2, <1>11, <1>12, InsideClosed
<1> QED BY <1>10, <1>13 DEF Nesting

LEMMA CompiledTrans ==
    ASSUME NEW cs, NEW ds, NEW es, Compilers(cs), Compiled(cs, ds), Compiled(ds, es),
           Keeps(ds[Len(cs)], es[Len(cs)])
    PROVE  Compiled(cs, es)
<1> DEFINE n == Len(cs)
           a == cs[n].code
           b == ds[n].code
           c == es[n].code
<1>1. n \in Nat /\ n \in 1..n /\ \A k \in 1..n : IsCompiler(cs[k]) BY CompilersAre
<1>2. /\ Compilers(ds) /\ Len(ds) = n /\ (\A k \in 1..n - 1 : Alike(cs[k], ds[k])) /\ Goes(ds, a, b)
  BY DEF Compiled
<1>3. /\ Compilers(es) /\ Len(es) = n /\ (\A k \in 1..n - 1 : Alike(ds[k], es[k])) /\ Goes(es, b, c)
  BY <1>2 DEF Compiled
<1>4. \A k \in 1..n : IsCompiler(ds[k]) BY <1>2, CompilersAre
<1>5. \A k \in 1..n - 1 : Alike(cs[k], es[k])
  <2> TAKE k \in 1..n - 1
  <2>1. k \in 1..n BY <1>1
  <2> QED BY <1>1, <1>2, <1>3, <2>1, AlikeTrans
<1>6. \A k \in 1..n : Keeps(ds[k], es[k])
  <2> TAKE k \in 1..n
  <2>1. CASE k = n BY <2>1
  <2>2. CASE k # n
    <3>1. k \in 1..n - 1 BY <1>1, <2>2
    <3> QED BY <1>3, <1>4, <3>1, AlikeKeeps
  <2> QED BY <2>1, <2>2
<1>7. \A i : Leading(ds, i) => Leading(es, i) BY <1>2, <1>3, <1>6, LeadingKept
<1>8. Len(a) \in Nat /\ Len(b) \in Nat /\ Len(c) \in Nat BY <1>1, <1>2, <1>3, CompilersAre
<1> HIDE DEF a, b, c, n
<1>9. Goes(es, a, c)
  <2>1. Len(a) <= Len(b) /\ Len(b) <= Len(c) BY <1>2, <1>3 DEF Goes
  <2>2. \A pc \in 1..Len(a) : c[pc] = a[pc]
    <3> TAKE pc \in 1..Len(a)
    <3>1. pc \in 1..Len(b) BY <1>8, <2>1
    <3> QED BY <1>2, <1>3, <3>1 DEF Goes
  <2>3. \A pc \in Len(a) + 1..Len(c) : Leading(es, c[pc])
    <3> TAKE pc \in Len(a) + 1..Len(c)
    <3>1. CASE pc <= Len(b)
      <4>1. pc \in Len(a) + 1..Len(b) /\ pc \in 1..Len(b) BY <1>8, <3>1
      <4>2. c[pc] = b[pc] /\ Leading(ds, b[pc]) BY <1>2, <1>3, <4>1 DEF Goes
      <4> QED BY <1>7, <4>2
    <3>2. CASE pc > Len(b)
      <4>1. pc \in Len(b) + 1..Len(c) BY <1>8, <3>2
      <4> QED BY <1>3, <4>1 DEF Goes
    <3> QED BY <1>8, <3>1, <3>2
  <2>4. Len(a) <= Len(c) BY <1>8, <2>1
  <2> QED BY <2>2, <2>3, <2>4 DEF Goes
<1> QED BY <1>3, <1>5, <1>9 DEF Compiled, n, a, c

\* The innermost compiler becomes d, with harmless code added.
LEMMA TopCompiled ==
    ASSUME NEW cs, Compilers(cs), NEW d, IsCompiler(d), d.upvalues = cs[Len(cs)].upvalues,
           NEW code, AreHarmless(code),
           d.code = cs[Len(cs)].code \/ d.code = cs[Len(cs)].code \o code
    PROVE  LET ds == With(cs, d) IN Compiled(cs, ds) /\ ds[Len(cs)] = d /\ Last(ds) = d
<1> DEFINE n == Len(cs)
           ds == With(cs, d)
<1>1. n \in Nat /\ n \in 1..n /\ IsSeq(cs[n].code) /\ Len(cs[n].code) \in Nat /\ \A k \in 1..n : IsCompiler(cs[k])
  BY CompilersAre
<1>2. /\ Compilers(ds) /\ Len(ds) = n /\ ds[n] = d /\ Last(ds) = d /\ \A k \in 1..n - 1 : ds[k] = cs[k]
  BY TopIs
<1> HIDE DEF ds
<1>3. \A k \in 1..n - 1 : Alike(cs[k], ds[k])
  <2> TAKE k \in 1..n - 1
  <2>1. k \in 1..n BY <1>1
  <2> QED BY <1>1, <1>2, <2>1, AlikeRefl
<1>4. Goes(ds, cs[n].code, d.code)
  <2>1. AreLeading(ds, code) BY HarmlessLead
  <2>2. CASE d.code = cs[n].code \o code BY <1>1, <2>1, <2>2, GoesOn
  <2>3. CASE d.code = cs[n].code
    <3> DEFINE a == cs[n].code
    <3>1. Len(a) \in Nat BY <1>1
    <3> HIDE DEF a
    <3>2. Len(a) + 1..Len(a) = {} BY <3>1
    <3>3. Goes(ds, a, a) BY <3>1, <3>2 DEF Goes
    <3> QED BY <2>3, <3>3 DEF a
  <2> QED BY <2>2, <2>3
<1>5. Goes(ds, cs[n].code, ds[n].code) BY <1>2, <1>4
<1> HIDE DEF n
<1>6. Compiled(cs, ds) BY <1>2, <1>3, <1>5 DEF Compiled, n
<1> QED BY <1>2, <1>6 DEF ds, n

LEMMA CompiledOnward ==
    ASSUME NEW cs, NEW ds, Compiled(cs, ds), ds[Len(cs)].type = cs[Len(cs)].type
    PROVE  Onward(cs, ds)
BY DEF Compiled, Onward

(* The invariant of the whole specification. *)

Inv ==
    /\ source \in Sources
    /\ status \in {"compiling", "compiled", "failed"}
    /\ Scoping(compilers, scopes) /\ Nesting(compilers, parsing)
    /\ source.orderly => NearCaptures(compilers)

\* What is emitted when the compilers become cs finds its variables.
Led(cs) ==
    /\ ~ (Len(cs) < Len(compilers))
    /\ Len(cs) = Len(compilers) =>
          \A pc \in DOMAIN Last(cs).code \ DOMAIN Last(compilers).code : Finds(cs, Last(cs).code[pc])

Sound(cs, ps, ss) == Scoping(cs, ss) /\ Nesting(cs, ps) /\ Led(cs)

\* The same of a step that changes the innermost compiler, and no upvalue.
Rests(top, ps, ss) == Sound(With(compilers, top), ps, ss) /\ top.upvalues = Current.upvalues

LEMMA CompiledLed ==
    ASSUME Compilers(compilers), NEW ds, Compiled(compilers, ds)
    PROVE  Led(ds)
<1> DEFINE n == Len(compilers)
           a == compilers[n].code
           b == ds[n].code
<1>1. /\ Compilers(ds) /\ Len(ds) = n /\ Goes(ds, a, b) BY DEF Compiled
<1>2. n \in Nat /\ n \in 1..n /\ Last(compilers) = compilers[n] /\ DOMAIN a = 1..Len(a) /\ Len(a) \in Nat
  BY CompilersAre
<1>3. Last(ds) = ds[n] /\ DOMAIN b = 1..Len(b) /\ Len(b) \in Nat BY <1>1, <1>2, CompilersAre
<1>4. ASSUME NEW pc \in DOMAIN b \ DOMAIN a PROVE Finds(ds, b[pc])
  <2> HIDE DEF a, b
  <2>1. pc \in Len(a) + 1..Len(b) BY <1>2, <1>3
  <2>2. Leading(ds, b[pc]) BY <1>1, <2>1 DEF Goes
  <2> QED BY <1>1, <2>2, LeadingFinds
<1>5. ~ (Len(ds) < Len(compilers)) BY <1>1, <1>2
<1> QED BY <1>2, <1>3, <1>4, <1>5 DEF Led

LEMMA LongerLed ==
    ASSUME Compilers(compilers), NEW ds, Onward(compilers, ds),
           Longer(compilers[Len(compilers)], ds[Len(compilers)])
    PROVE  Led(ds)
<1> DEFINE n == Len(compilers)
           a == compilers[n].code
           b == ds[n].code
<1>1. Compilers(ds) /\ Len(ds) = n BY DEF Onward
<1>2. n \in Nat /\ n \in 1..n /\ Last(compilers) = compilers[n] /\ DOMAIN a = 1..Len(a) /\ Len(a) \in Nat
  BY CompilersAre
<1>3. Last(ds) = ds[n] /\ DOMAIN b = 1..Len(b) /\ Len(b) \in Nat BY <1>1, <1>2, CompilersAre
<1>4. \A pc \in Len(a) + 1..Len(b) : Harmless(b[pc]) BY DEF Longer
<1>5. ASSUME NEW pc \in DOMAIN b \ DOMAIN a PROVE Finds(ds, b[pc])
  <2> HIDE DEF a, b
  <2>1. pc \in Len(a) + 1..Len(b) BY <1>2, <1>3
  <2>2. Leading(ds, b[pc]) BY <1>4, <2>1, HarmlessLead
  <2> QED BY <1>1, <2>2, LeadingFinds
<1>6. ~ (Len(ds) < Len(compilers)) BY <1>1, <1>2
<1> QED BY <1>2, <1>3, <1>5, <1>6 DEF Led

Found ==
    /\ Len(compilers') = Len(compilers) =>
          \A pc \in Emitted : Finds(compilers', Last(compilers').code[pc])
    /\ Closing =>
          LET around == Front(compilers)
              code == Last(compilers').code
          IN \A pc \in DOMAIN code \ DOMAIN Last(around).code :
               code[pc].op = "CLOSURE" =>
                   [i \in DOMAIN code[pc].captures |-> Captures(around, code[pc].captures[i])]
                       = UpvalueTargets(compilers, Len(compilers))

\* The innermost compiler changes nothing but its code.
Stays(c, d) == Alike(c, d) /\ d.upvalues = c.upvalues /\ Longer(c, d)

LEMMA CodedStays == ASSUME NEW c, NEW d, IsCompiler(c), Coded(c, d) PROVE Stays(c, d)
BY CodedAlike DEF Stays, Coded, SameButCode

LEMMA CallIs ==
    ASSUME NEW p, IsCall(p), NEW y
    PROVE  IsCall([p EXCEPT !.done = y]) /\ [p EXCEPT !.done = y].at = p.at /\ [p EXCEPT !.done = y].name = p.name
<1>1. PICK at, done, jump, start, exit, initial, out, name :
         p = [at |-> at, done |-> done, jump |-> jump, start |-> start, exit |-> exit,
              initial |-> initial, out |-> out, name |-> name]
  BY DEF IsCall
<1>2. [p EXCEPT !.done = y] = [at |-> at, done |-> y, jump |-> jump, start |-> start, exit |-> exit,
                               initial |-> initial, out |-> out, name |-> name]
  BY <1>1
<1> QED BY <1>1, <1>2 DEF IsCall

LEMMA StartedIs == ASSUME Inv PROVE SameCalls(parsing, Started) /\ SameCalls(parsing, parsing)
<1> DEFINE n == Len(parsing)
<1>1. PICK level, frame : NestedAs(level, frame, compilers, parsing) BY DEF Inv, Nesting
<1>2. IsSeq(parsing) /\ n > 0 /\ \A j \in 1..n : IsCall(parsing[j]) BY <1>1 DEF NestedAs
<1>3. n \in Nat /\ n \in 1..n BY <1>2, SeqIs
<1>4. PICK y : y = TRUE OBVIOUS
<1> DEFINE e == [parsing[n] EXCEPT !.done = y]
           qs == [parsing EXCEPT ![n] = e]
<1>5. IsCall(e) /\ e.at = parsing[n].at /\ e.name = parsing[n].name BY <1>2, <1>3, CallIs
<1>6. Started = parsing \/ Started = qs BY <1>4 DEF Started
<1> HIDE DEF e
<1>7. IsSeq(qs) /\ Len(qs) = n /\ qs[n] = e /\ \A j \in 1..n : j # n => qs[j] = parsing[j]
  BY <1>2, <1>3, ReplacedIs
<1> HIDE DEF qs
<1>8. SameCalls(parsing, parsing) BY <1>2 DEF SameCalls
<1>9. SameCalls(parsing, qs) BY <1>2, <1>5, <1>7 DEF SameCalls
<1> QED BY <1>6, <1>8, <1>9

LEMMA NowIs ==
    ASSUME Inv
    PROVE  /\ Compilers(compilers) /\ Current = compilers[Len(compilers)] /\ IsCompiler(Current)
           /\ Scoped(Current, Last(scopes)) /\ Last(scopes) = scopes[Len(compilers)]
           /\ IsSeq(scopes) /\ Len(scopes) = Len(compilers) /\ Len(scopes) > 0
           /\ GoodFrame(Shape(Current)) /\ Len(compilers) \in 1..Len(compilers)
           /\ With(scopes, Last(scopes)) = scopes
           /\ Open = parsing[Len(parsing)]
<1>1. Compilers(compilers) /\ IsSeq(scopes) /\ Len(scopes) = Len(compilers) BY DEF Inv, Scoping
<1>2. /\ Len(compilers) \in 1..Len(compilers) /\ Len(compilers) \in Nat /\ Len(compilers) > 0
      /\ Current = compilers[Len(compilers)] /\ IsCompiler(Current)
  BY <1>1, CompilersAre DEF Current
<1>3. Last(scopes) = scopes[Len(compilers)] BY <1>1, <1>2, FrontIs
<1>4. Scoped(Current, Last(scopes)) /\ GoodFrame(Shape(Current)) BY <1>2, <1>3 DEF Inv, Scoping
<1>5. With(scopes, Last(scopes)) = scopes BY <1>1, <1>2, <1>3, WithWith
<1>6. Open = parsing[Len(parsing)] BY DEF Open, Last
<1> QED BY <1>1, <1>2, <1>3, <1>4, <1>5, <1>6

LEMMA MarkedIs ==
    ASSUME Inv
    PROVE  /\ Last(Marked) = Mark(Current) /\ Coded(Current, Mark(Current)) /\ IsCompiler(Mark(Current))
           /\ \A d : With(Marked, d) = With(compilers, d)
<1>1. Compilers(compilers) /\ IsCompiler(Current) BY NowIs
<1>2. IsSeq(compilers) /\ Len(compilers) > 0 BY <1>1, CompilersAre
<1>3. Last(Marked) = Mark(Current) BY <1>2, WithIs DEF Marked
<1>4. Coded(Current, Mark(Current)) BY <1>1, MarkCoded
<1>5. IsCompiler(Mark(Current)) BY <1>4 DEF Coded, SameButCode
<1>6. \A d : With(Marked, d) = With(compilers, d) BY <1>2, WithWith DEF Marked
<1> QED BY <1>3, <1>4, <1>5, <1>6

\* A compiler that takes the place of the current one.
Follows(d, t) ==
    /\ IsCompiler(d) /\ d.upvalues = Current.upvalues /\ d.type = Current.type
    /\ Scoped(d, t) /\ Longer(Current, d)

LEMMA FollowsIs ==
    ASSUME Inv, NEW d, NEW t, Follows(d, t)
    PROVE  LET ds == With(compilers, d) IN
           /\ Onward(compilers, ds) /\ ds[Len(compilers)] = d /\ Led(ds)
<1> DEFINE ds == With(compilers, d)
           n == Len(compilers)
<1>1. Compilers(compilers) /\ Current = compilers[n] BY NowIs
<1>2. IsCompiler(d) /\ d.upvalues = compilers[n].upvalues /\ d.type = compilers[n].type
      /\ Longer(compilers[n], d)
  BY <1>1 DEF Follows
<1>3. /\ Compilers(ds) /\ Len(ds) = n /\ ds[n] = d /\ \A k \in 1..n - 1 : ds[k] = compilers[k]
  BY <1>1, <1>2, TopIs
<1> HIDE DEF ds
<1>4. \A k \in 1..n - 1 : Alike(compilers[k], ds[k])
  <2> TAKE k \in 1..n - 1
  <2>1. n \in Nat BY <1>1, CompilersAre
  <2>2. k \in 1..n BY <2>1
  <2>3. IsCompiler(compilers[k]) BY <1>1, <2>2, CompilersAre
  <2> QED BY <1>3, <2>3, AlikeRefl
<1>5. Onward(compilers, ds) BY <1>2, <1>3, <1>4 DEF Onward
<1>6. Led(ds) BY <1>1, <1>2, <1>3, <1>5, LongerLed
<1> QED BY <1>3, <1>5, <1>6 DEF ds

LEMMA KeptSound ==
    ASSUME Inv, NEW d, NEW t, NEW qs, Follows(d, t), Shape(d) = Shape(Current), SameCalls(parsing, qs)
    PROVE  Sound(With(compilers, d), qs, With(scopes, t))
<1> DEFINE ds == With(compilers, d)
           n == Len(compilers)
<1>1. Onward(compilers, ds) /\ ds[n] = d /\ Led(ds) BY FollowsIs
<1> HIDE DEF ds
<1>2. Current = compilers[n] BY NowIs
<1>3. Scoped(ds[n], t) /\ Shape(ds[n]) = Shape(compilers[n]) BY <1>1, <1>2 DEF Follows
<1>4. Scoping(ds, With(scopes, t)) /\ Nesting(ds, qs) BY <1>1, <1>3, KeptIs DEF Inv
<1> QED BY <1>1, <1>4 DEF Sound, ds

LEMMA StaysSound ==
    ASSUME Inv, NEW d, NEW qs, Stays(Current, d), SameCalls(parsing, qs)
    PROVE  Sound(With(compilers, d), qs, scopes)
<1>1. IsCompiler(Current) /\ Scoped(Current, Last(scopes)) /\ With(scopes, Last(scopes)) = scopes
  BY NowIs
<1>2. Alike(Current, d) /\ d.upvalues = Current.upvalues /\ Longer(Current, d) BY DEF Stays
<1>3. Scoped(d, Last(scopes)) BY <1>1, <1>2, AlikeScoped
<1>4. Follows(d, Last(scopes)) /\ Shape(d) = Shape(Current) BY <1>2, <1>3 DEF Follows, Alike
<1> QED BY <1>1, <1>4, KeptSound

LEMMA OpenSound ==
    ASSUME Inv, NEW d, NEW t, NEW qs, NEW p, Follows(d, t), SameCalls(parsing, qs),
           IsCall(p), p.at \in Kinds, p.at \notin {"program", "body"},
           Inside(p.at, Shape(Current), Shape(d)), GoodFrame(Shape(d))
    PROVE  Sound(With(compilers, d), Append(qs, p), With(scopes, t))
<1> DEFINE ds == With(compilers, d)
           n == Len(compilers)
<1>1. Onward(compilers, ds) /\ ds[n] = d /\ Led(ds) BY FollowsIs
<1> HIDE DEF ds
<1>2. Current = compilers[n] BY NowIs
<1>3. Scoped(ds[n], t) /\ GoodFrame(Shape(ds[n])) /\ Inside(p.at, Shape(compilers[n]), Shape(ds[n]))
  BY <1>1, <1>2 DEF Follows
<1>4. Scoping(ds, With(scopes, t)) /\ Nesting(ds, Append(qs, p)) BY <1>1, <1>3, OpenedIs DEF Inv
<1> QED BY <1>1, <1>4 DEF Sound, ds

LEMMA CloseSound ==
    ASSUME Inv, NEW d, NEW t, Follows(d, t), Open.at \notin {"program", "body"},
           \A f : GoodFrame(f) /\ Inside(Open.at, f, Shape(Current)) => Shape(d) = f
    PROVE  Rests(d, Front(parsing), With(scopes, t))
<1> DEFINE ds == With(compilers, d)
           n == Len(compilers)
<1>1. Onward(compilers, ds) /\ ds[n] = d /\ Led(ds) BY FollowsIs
<1> HIDE DEF ds
<1>2. Current = compilers[n] /\ Open = parsing[Len(parsing)] BY NowIs
<1>3. Scoped(ds[n], t) BY <1>1 DEF Follows
<1>4. \A f : GoodFrame(f) /\ Inside(parsing[Len(parsing)].at, f, Shape(compilers[n])) => Shape(ds[n]) = f
  BY <1>1, <1>2
<1>5. parsing[Len(parsing)].at \notin {"program", "body"} BY <1>2
<1>6. Scoping(ds, With(scopes, t)) /\ Nesting(ds, Front(parsing))
  BY <1>1, <1>3, <1>4, <1>5, ClosedIs DEF Inv
<1> QED BY <1>1, <1>6 DEF Rests, Sound, Follows, ds

LEMMA SameFoundNothing == ASSUME Inv, compilers' = compilers PROVE Found
<1>1. Compilers(compilers) BY NowIs
<1>2. Len(compilers) \in Nat BY <1>1, CompilersAre
<1>3. ~ Closing BY <1>2 DEF Closing
<1>4. Emitted = {} BY DEF Emitted
<1> QED BY <1>3, <1>4 DEF Found

LEMMA BeginSound ==
    ASSUME Inv, NEW kind, NEW ok, NEW cs, NEW ps, NEW ss, Begin(kind, ok, cs, ps, ss),
           ok => Sound(cs, ps, ss)
    PROVE  Inv' /\ Found
<1>1. source' = source /\ status \in {"compiling", "compiled", "failed"} BY DEF Begin, Inv
<1>2. CASE ok
  <2>1. compilers' = cs /\ parsing' = ps /\ scopes' = ss /\ status' = status BY <1>2 DEF Begin
  <2>2. Inv'
    <3>1. source.orderly => NearCaptures(cs) BY <1>2 DEF Begin
    <3> QED BY <1>1, <1>2, <2>1, <3>1 DEF Inv, Sound
  <2>3. Led(cs) BY <1>2 DEF Sound
  <2>4. Found
    <3>1. Len(compilers') = Len(compilers) =>
             \A pc \in Emitted : Finds(compilers', Last(compilers').code[pc])
      BY <2>1, <2>3 DEF Led, Emitted
    <3>2. ~ Closing BY <2>1, <2>3 DEF Led, Closing
    <3> QED BY <3>1, <3>2 DEF Found
  <2> QED BY <2>2, <2>4
<1>3. CASE ~ ok
  <2>1. /\ compilers' = compilers /\ parsing' = parsing /\ scopes' = scopes /\ status' = "failed"
    BY <1>3 DEF Begin
  <2>2. Inv' BY <1>1, <2>1 DEF Inv
  <2>3. Found BY <2>1, SameFoundNothing
  <2> QED BY <2>2, <2>3
<1> QED BY <1>2, <1>3

LEMMA NearKept ==
    ASSUME Inv, NearCaptures(compilers), NEW top, top.upvalues = Current.upvalues
    PROVE  NearCaptures(With(compilers, top))
<1> DEFINE cs == With(compilers, top)
           n == Len(compilers)
<1>1. IsSeq(compilers) /\ n > 0 /\ DOMAIN compilers = 1..n /\ Current = compilers[n] BY NowIs, CompilersAre
<1>2. IsSeq(cs) /\ Len(cs) = n /\ \A k \in 1..n : cs[k] = IF k = n THEN top ELSE compilers[k] BY <1>1, WithIs
<1> HIDE DEF cs, n
<1>3. DOMAIN cs = 1..n BY <1>2, SeqIs
<1>4. \A k \in 1..n : cs[k].upvalues = compilers[k].upvalues BY <1>1, <1>2
<1> QED BY <1>1, <1>3, <1>4 DEF NearCaptures, cs

LEMMA ResumeSound ==
    ASSUME Inv, NEW at, NEW ok, NEW top, NEW ps, NEW ss, Resume(at, ok, top, ps, ss),
           ok => Rests(top, ps, ss)
    PROVE  Inv' /\ Found
<1> DEFINE cs == With(compilers, top)
<1>1. source' = source /\ status \in {"compiling", "compiled", "failed"} BY DEF Resume, Inv
<1>2. CASE ok
  <2>1. compilers' = cs /\ parsing' = ps /\ scopes' = ss /\ status' = status BY <1>2 DEF Resume
  <2>2. Sound(cs, ps, ss) /\ top.upvalues = Current.upvalues BY <1>2 DEF Rests
  <2>6. source.orderly => NearCaptures(cs) BY <2>2, NearKept DEF Inv
  <2> HIDE DEF cs
  <2>3. Inv' BY <1>1, <2>1, <2>2, <2>6 DEF Inv, Sound
  <2>4. Led(cs) BY <2>2 DEF Sound
  <2>5. Found
    <3>1. Len(compilers') = Len(compilers) =>
             \A pc \in Emitted : Finds(compilers', Last(compilers').code[pc])
      BY <2>1, <2>4 DEF Led, Emitted
    <3>2. ~ Closing BY <2>1, <2>4 DEF Led, Closing
    <3> QED BY <3>1, <3>2 DEF Found
  <2> QED BY <2>3, <2>5
<1>3. CASE ~ ok
  <2>1. /\ compilers' = compilers /\ parsing' = parsing /\ scopes' = scopes /\ status' = "failed"
    BY <1>3 DEF Resume
  <2>2. Inv' BY <1>1, <2>1 DEF Inv
  <2>3. Found BY <2>1, SameFoundNothing
  <2> QED BY <2>2, <2>3
<1> QED BY <1>2, <1>3

LEMMA StaysFollows == ASSUME Inv, NEW d, Stays(Current, d) PROVE Follows(d, Last(scopes)) /\ Shape(d) = Shape(Current)
<1>1. IsCompiler(Current) /\ Scoped(Current, Last(scopes)) BY NowIs
<1>2. Alike(Current, d) /\ d.upvalues = Current.upvalues /\ Longer(Current, d) BY DEF Stays
<1>3. Scoped(d, Last(scopes)) BY <1>1, <1>2, AlikeScoped
<1> QED BY <1>2, <1>3 DEF Follows, Alike

\* One call gives way to another in the frame that the first began in.
LEMMA ReplaceSound ==
    ASSUME Inv, NEW d, NEW t, Follows(d, t), Open.at \notin {"program", "body"},
           \A f : GoodFrame(f) /\ Inside(Open.at, f, Shape(Current)) => Shape(d) = f,
           NEW e, NEW u, Follows(e, u), NEW p, IsCall(p), p.at \in Kinds,
           p.at \notin {"program", "body"}, Inside(p.at, Shape(d), Shape(e)), GoodFrame(Shape(e))
    PROVE  Rests(e, Append(Front(parsing), p), With(scopes, u))
<1> DEFINE ds == With(compilers, d)
           es == With(compilers, e)
           n == Len(compilers)
<1>1. Onward(compilers, ds) /\ ds[n] = d BY FollowsIs
<1>2. Onward(compilers, es) /\ es[n] = e /\ Led(es) BY FollowsIs
<1>3. /\ IsSeq(compilers) /\ n \in Nat /\ n > 0 /\ \A k \in 1..n : IsCompiler(compilers[k])
      /\ IsSeq(scopes) /\ Len(scopes) > 0
  BY NowIs, CompilersAre
<1>4. /\ \A k \in 1..n : ds[k] = IF k = n THEN d ELSE compilers[k]
      /\ \A k \in 1..n : es[k] = IF k = n THEN e ELSE compilers[k]
  BY <1>3, WithIs
<1>5. Scoping(ds, With(scopes, t)) /\ Nesting(ds, Front(parsing))
  <2> HIDE DEF ds
  <2>1. Current = compilers[n] /\ Open = parsing[Len(parsing)] BY NowIs
  <2>2. Scoped(ds[n], t) BY <1>1 DEF Follows
  <2>3. \A f : GoodFrame(f) /\ Inside(parsing[Len(parsing)].at, f, Shape(compilers[n])) => Shape(ds[n]) = f
    BY <1>1, <2>1
  <2>4. parsing[Len(parsing)].at \notin {"program", "body"} BY <2>1
  <2> QED BY <1>1, <2>2, <2>3, <2>4, ClosedIs DEF Inv
<1> HIDE DEF ds, es
<1>6. Len(ds) = n /\ Len(es) = n /\ Compilers(es) BY <1>1, <1>2 DEF Onward
<1>7. Onward(ds, es)
  <2>1. \A k \in 1..n - 1 : Alike(ds[k], es[k])
    <3> TAKE k \in 1..n - 1
    <3>1. k \in 1..n /\ k # n BY <1>3
    <3> QED BY <1>3, <1>4, <3>1, AlikeRefl
  <2>2. es[n].type = ds[n].type BY <1>1, <1>2 DEF Follows
  <2> HIDE DEF n
  <2> QED BY <1>6, <2>1, <2>2 DEF Onward
<1>8. SameCalls(Front(parsing), Front(parsing))
  <2>1. PICK level, frame : NestedAs(level, frame, ds, Front(parsing)) BY <1>5 DEF Nesting
  <2> QED BY <2>1, SameCallsRefl
<1>9. /\ Scoped(es[n], u) /\ GoodFrame(Shape(es[n])) /\ Inside(p.at, Shape(ds[n]), Shape(es[n]))
  BY <1>1, <1>2 DEF Follows
<1>10. Scoping(es, With(With(scopes, t), u)) /\ Nesting(es, Append(Front(parsing), p))
  <2> DEFINE tt == With(scopes, t)
             qs == Front(parsing)
  <2>1. Scoping(ds, tt) /\ Nesting(ds, qs) /\ SameCalls(qs, qs) BY <1>5, <1>8
  <2>2. /\ Scoped(es[Len(ds)], u) /\ GoodFrame(Shape(es[Len(ds)]))
        /\ Inside(p.at, Shape(ds[Len(ds)]), Shape(es[Len(ds)]))
    BY <1>6, <1>9
  <2> HIDE DEF tt, qs, n
  <2>3. Scoping(es, With(tt, u)) /\ Nesting(es, Append(qs, p)) BY <1>7, <2>1, <2>2, OpenedIs
  <2> QED BY <2>3 DEF tt, qs
<1>11. With(With(scopes, t), u) = With(scopes, u) BY <1>3, WithWith
<1> QED BY <1>2, <1>10, <1>11 DEF Rests, Sound, Follows, es

LEMMA AtIs ==
    /\ \A x : IsCall(At(x)) /\ At(x).at = x
    /\ \A x, y : IsCall([At(x) EXCEPT !.jump = y]) /\ [At(x) EXCEPT !.jump = y].at = x
    /\ \A x, y : IsCall([At(x) EXCEPT !.start = y]) /\ [At(x) EXCEPT !.start = y].at = x
    /\ \A x, y : IsCall([At(x) EXCEPT !.initial = y]) /\ [At(x) EXCEPT !.initial = y].at = x
    /\ \A x, y : IsCall([At(x) EXCEPT !.out = y]) /\ [At(x) EXCEPT !.out = y].at = x
    /\ \A x, y : /\ IsCall([At(x) EXCEPT !.name = y]) /\ [At(x) EXCEPT !.name = y].at = x
                 /\ [At(x) EXCEPT !.name = y].name = y
<1>0. PICK f : f = FALSE OBVIOUS
<1>1. \A x : At(x) = [at |-> x, done |-> f, jump |-> Nowhere, start |-> Nowhere, exit |-> Nowhere,
                      initial |-> Nowhere, out |-> Nowhere, name |-> "none"]
  BY <1>0 DEF At
<1>2. \A x : IsCall(At(x)) /\ At(x).at = x BY <1>1 DEF IsCall
<1>3. \A x, y : IsCall([At(x) EXCEPT !.jump = y]) /\ [At(x) EXCEPT !.jump = y].at = x BY <1>1 DEF IsCall
<1>4. \A x, y : IsCall([At(x) EXCEPT !.start = y]) /\ [At(x) EXCEPT !.start = y].at = x BY <1>1 DEF IsCall
<1>5. \A x, y : IsCall([At(x) EXCEPT !.initial = y]) /\ [At(x) EXCEPT !.initial = y].at = x
  BY <1>1 DEF IsCall
<1>6. \A x, y : IsCall([At(x) EXCEPT !.out = y]) /\ [At(x) EXCEPT !.out = y].at = x BY <1>1 DEF IsCall
<1>7. \A x, y : /\ IsCall([At(x) EXCEPT !.name = y]) /\ [At(x) EXCEPT !.name = y].at = x
                /\ [At(x) EXCEPT !.name = y].name = y
  BY <1>1 DEF IsCall
<1> QED BY <1>2, <1>3, <1>4, <1>5, <1>6, <1>7, Zenon

LEMMA FieldsKept ==
    ASSUME NEW p, IsCall(p), NEW y
    PROVE  /\ IsCall([p EXCEPT !.start = y]) /\ [p EXCEPT !.start = y].at = p.at
           /\ IsCall([p EXCEPT !.exit = y]) /\ [p EXCEPT !.exit = y].at = p.at
BY DEF IsCall

LEMMA AtLoopIs ==
    ASSUME NEW x, NEW y, NEW z
    PROVE  IsCall(AtLoop(x, y, z)) /\ AtLoop(x, y, z).at = x
<1> DEFINE p == At(x)
           q == [p EXCEPT !.start = y]
           r == [q EXCEPT !.exit = z]
<1>1. IsCall(p) /\ p.at = x BY AtIs
<1>2. AtLoop(x, y, z) = r BY DEF AtLoop
<1> HIDE DEF p
<1>3. IsCall(q) /\ q.at = x BY <1>1, FieldsKept
<1> HIDE DEF q
<1>4. IsCall(r) /\ r.at = x BY <1>3, FieldsKept
<1> QED BY <1>2, <1>4

-----------------------------------------------------------------------------
(* Statements that change the code only.                                     *)

LEMMA LongerSame ==
    ASSUME NEW c, NEW d, IsCompiler(c), d.code = c.code
    PROVE  Longer(c, d)
<1> DEFINE n == Len(c.code)
<1>1. n \in Nat BY SeqIs DEF IsCompiler
<1>2. n <= n /\ n + 1..n = {} BY <1>1
<1> HIDE DEF n
<1> QED BY <1>2 DEF Longer, n

LEMMA StaysTrans ==
    ASSUME NEW c, NEW d, NEW e, IsCompiler(c), Stays(c, d), Stays(d, e)
    PROVE  Stays(c, e)
<1>1. IsCompiler(d) /\ IsCompiler(e) BY DEF Stays, Alike
<1>2. IsSeq(c.code) /\ IsSeq(d.code) /\ IsSeq(e.code) BY <1>1 DEF IsCompiler
<1>3. Longer(c, e) BY <1>2, LongerTrans DEF Stays
<1>4. Alike(c, e) BY AlikeTrans DEF Stays
<1> QED BY <1>3, <1>4 DEF Stays

LEMMA NotEmpty == ASSUME NEW s, IsSeq(s), s # <<>> PROVE Len(s) > 0
BY DEF IsSeq

\* The jumps of break and continue are noted in the innermost loop.
LEMMA NotedStays ==
    ASSUME NEW c, IsCompiler(c), Len(c.loops) > 0, NEW x
    PROVE  /\ \A d : d = [c EXCEPT !.loops[Len(c.loops)].breaks = x] => Stays(c, d)
           /\ \A d : d = [c EXCEPT !.loops[Len(c.loops)].continues = x] => Stays(c, d)
<1>1. ASSUME NEW d, d = [c EXCEPT !.loops[Len(c.loops)].breaks = x] PROVE Stays(c, d)
  <2>1. Alike(c, d) /\ d.code = c.code /\ d.upvalues = c.upvalues BY <1>1, NotedIs
  <2> QED BY <2>1, LongerSame DEF Stays
<1>2. ASSUME NEW d, d = [c EXCEPT !.loops[Len(c.loops)].continues = x] PROVE Stays(c, d)
  <2>1. Alike(c, d) /\ d.code = c.code /\ d.upvalues = c.upvalues BY <1>2, NotedIs
  <2> QED BY <2>1, LongerSame DEF Stays
<1> QED BY <1>1, <1>2

LEMMA LeftStays ==
    ASSUME Inv, InLoop, NEW code, AreHarmless(code)
    PROVE  LET out == ExitLoopScope(Mark(Current))
               top == Emit(out, code)
           IN /\ Stays(Current, top) /\ IsCompiler(top)
              /\ Len(out.loops) = Len(top.loops) /\ Len(top.loops) > 0
<1> DEFINE m == Mark(Current)
           out == ExitLoopScope(m)
           top == Emit(out, code)
<1>1. IsCompiler(Current) /\ Coded(Current, m) /\ IsCompiler(m) BY NowIs, MarkedIs
<1>2. Coded(m, out) BY <1>1, ExitLoopScopeCoded
<1>3. Coded(Current, out) BY <1>1, <1>2, CodedTrans
<1>4. Coded(Current, top) BY <1>1, <1>3, ThenEmit
<1>5. IsSeq(Current.loops) /\ Current.loops # <<>> BY <1>1 DEF IsCompiler, InLoop
<1>6. Len(Current.loops) > 0 BY <1>5, NotEmpty
<1> HIDE DEF top, out, m
<1>7. /\ IsCompiler(top) /\ Len(out.loops) = Len(top.loops) /\ Len(top.loops) > 0
  BY <1>3, <1>4, <1>6 DEF Coded, SameButCode
<1>8. Stays(Current, top) BY <1>1, <1>4, CodedStays
<1> QED BY <1>7, <1>8 DEF top, out, m

LEMMA BreakIs == ASSUME Inv, BreakStatement PROVE Inv' /\ Found
<1> DEFINE out == ExitLoopScope(Last(Marked))
           o2 == Emit(out, <<Goto("JUMP", Nowhere)>>)
           x == Append(o2.loops[Len(out.loops)].breaks, Here(out))
           top == [o2 EXCEPT !.loops[Len(out.loops)].breaks = Append(@, Here(out))]
           cs == With(Marked, top)
<1>1. Last(Marked) = Mark(Current) /\ cs = With(compilers, top) BY MarkedIs
<1>2. Begin("break", InLoop, cs, Started, scopes) BY DEF BreakStatement, Statement
<1>3. InLoop => Sound(cs, Started, scopes)
  <2> SUFFICES ASSUME InLoop PROVE Sound(cs, Started, scopes) OBVIOUS
  <2>1. AreHarmless(<<Goto("JUMP", Nowhere)>>)
    <3>1. "JUMP" \notin Accesses BY DEF Accesses
    <3> QED BY <3>1, SingleHarmless
  <2>2. /\ Stays(Current, o2) /\ IsCompiler(o2)
        /\ Len(out.loops) = Len(o2.loops) /\ Len(o2.loops) > 0
    BY <1>1, <2>1, LeftStays
  <2>3. top = [o2 EXCEPT !.loops[Len(o2.loops)].breaks = x] BY <2>2
  <2> HIDE DEF o2, x, out, top
  <2>4. Stays(o2, top) BY <2>2, <2>3, NotedStays
  <2>5. Stays(Current, top) BY <2>2, <2>4, NowIs, StaysTrans
  <2>6. Sound(With(compilers, top), Started, scopes) BY <2>5, StartedIs, StaysSound
  <2> QED BY <1>1, <2>6
<1> HIDE DEF cs
<1> QED BY <1>2, <1>3, BeginSound

LEMMA CodedFollows ==
    ASSUME Inv, NEW d, Coded(Current, d)
    PROVE  Follows(d, Last(scopes)) /\ Shape(d) = Shape(Current) /\ IsCompiler(d)
<1>1. Stays(Current, d) BY NowIs, CodedStays
<1>2. IsCompiler(d) BY DEF Coded, SameButCode
<1> QED BY <1>1, <1>2, StaysFollows

LEMMA ContinueIs == ASSUME Inv, ContinueStatement PROVE Inv' /\ Found
<1> DEFINE out == ExitLoopScope(Last(Marked))
           start == Last(Current.loops).continue
           o2 == Emit(out, <<Goto("JUMP", Nowhere)>>)
           x == Append(o2.loops[Len(out.loops)].continues, Here(out))
           forward == [o2 EXCEPT !.loops[Len(out.loops)].continues = Append(@, Here(out))]
           back == Emit(out, <<Goto("LOOP", start)>>)
           top == IF start = Nowhere THEN forward ELSE back
           cs == With(Marked, top)
<1>1. Last(Marked) = Mark(Current) /\ cs = With(compilers, top) BY MarkedIs
<1>2. Begin("continue", InLoop, cs, Started, scopes) BY DEF ContinueStatement, Statement
<1>3. InLoop => Sound(cs, Started, scopes)
  <2> SUFFICES ASSUME InLoop PROVE Sound(cs, Started, scopes) OBVIOUS
  <2>1. AreHarmless(<<Goto("JUMP", Nowhere)>>) /\ AreHarmless(<<Goto("LOOP", start)>>)
    <3>1. "JUMP" \notin Accesses /\ "LOOP" \notin Accesses BY DEF Accesses
    <3> QED BY <3>1, SingleHarmless
  <2>2. /\ Stays(Current, o2) /\ IsCompiler(o2)
        /\ Len(out.loops) = Len(o2.loops) /\ Len(o2.loops) > 0
    BY <1>1, <2>1, LeftStays
  <2>3. Stays(Current, back) BY <1>1, <2>1, LeftStays
  <2>4. forward = [o2 EXCEPT !.loops[Len(o2.loops)].continues = x] BY <2>2
  <2>5. top = forward \/ top = back OBVIOUS
  <2> HIDE DEF o2, x, out, forward, back, start, top
  <2>6. Stays(o2, forward) BY <2>2, <2>4, NotedStays
  <2>7. Stays(Current, forward) BY <2>2, <2>6, NowIs, StaysTrans
  <2>8. Stays(Current, top) BY <2>3, <2>5, <2>7
  <2>9. Sound(With(compilers, top), Started, scopes) BY <2>8, StartedIs, StaysSound
  <2> QED BY <1>1, <2>9
<1> HIDE DEF cs
<1> QED BY <1>2, <1>3, BeginSound

-----------------------------------------------------------------------------
(* Conditions and blocks.                                                    *)

LEMMA OpenIs ==
    ASSUME Inv
    PROVE  \E f : GoodFrame(f) /\ Inside(Open.at, f, Shape(Current))
<1> DEFINE n == Len(parsing)
<1>1. PICK level, frame : NestedAs(level, frame, compilers, parsing) BY DEF Inv, Nesting
<1>2. n > 0 /\ n \in Nat /\ Open = parsing[n] /\ Current = compilers[Len(compilers)]
  BY <1>1, NowIs, SeqIs DEF NestedAs
<1>3. n \in 1..n BY <1>2
<1>4. GoodFrame(frame[n]) /\ Inside(parsing[n].at, frame[n], frame[n + 1])
  BY <1>1, <1>3 DEF NestedAs
<1>5. frame[n + 1] = Shape(compilers[Len(compilers)]) BY <1>1 DEF NestedAs
<1> QED BY <1>2, <1>4, <1>5

LEMMA SameFrame == ASSUME NEW f, NEW g PROVE Inside("then", f, f) /\ Inside("else", f, f)
BY DEF Inside

LEMMA IfIs == ASSUME Inv, IfStatement PROVE Inv' /\ Found
<1> DEFINE tested == Emit(Last(Marked), Condition)
           code == <<Goto("JUMP_IF_FALSE", Nowhere), Op("POP")>>
           top == Emit(tested, code)
           cs == With(Marked, top)
           p == [At("then") EXCEPT !.jump = Here(tested)]
<1>1. /\ Last(Marked) = Mark(Current) /\ Coded(Current, Mark(Current)) /\ IsCompiler(Current)
      /\ cs = With(compilers, top) /\ GoodFrame(Shape(Current))
  BY MarkedIs, NowIs
<1>2. Begin("if", TRUE, cs, Append(Started, p), scopes) BY DEF IfStatement, Statement, Waiting
<1>3. Coded(Current, top)
  <2>1. AreHarmless(Condition) BY HarmlessOps, HarmlessTuples DEF Condition
  <2>2. AreHarmless(code)
    <3>1. "JUMP_IF_FALSE" \notin Accesses /\ "POP" \notin Accesses BY DEF Accesses
    <3> QED BY <3>1, HarmlessOps, HarmlessTuples
  <2> HIDE DEF code
  <2> QED BY <1>1, <2>1, <2>2, ThenEmit
<1>4. IsCall(p) /\ p.at = "then" /\ p.at \in Kinds BY AtIs DEF Kinds
<1> HIDE DEF top, p
<1>5. Follows(top, Last(scopes)) /\ Shape(top) = Shape(Current) BY <1>3, CodedFollows
<1>6. Sound(With(compilers, top), Append(Started, p), With(scopes, Last(scopes)))
  BY <1>1, <1>4, <1>5, SameFrame, StartedIs, OpenSound
<1>7. Sound(cs, Append(Started, p), scopes) BY <1>1, <1>6, NowIs
<1> HIDE DEF cs
<1> QED BY <1>2, <1>7, BeginSound

LEMMA EndThenIs == ASSUME Inv, NEW hasElse, EndThen(hasElse) PROVE Inv' /\ Found
<1> DEFINE jump == Here(Current)
           left == Emit(Current, <<Goto("JUMP", Nowhere)>>)
           patched == PatchJump(left, Open.jump)
           otherwise == Emit(patched, <<Op("POP")>>)
           ended == PatchJump(otherwise, jump)
           p == [At("else") EXCEPT !.jump = jump]
           qs == Append(Front(parsing), p)
<1>1. IsCompiler(Current) /\ GoodFrame(Shape(Current)) /\ With(scopes, Last(scopes)) = scopes BY NowIs
<1>2. Coded(Current, otherwise) /\ Coded(Current, ended)
  <2>1. "JUMP" \notin Accesses /\ "POP" \notin Accesses BY DEF Accesses
  <2>2. AreHarmless(<<Goto("JUMP", Nowhere)>>) /\ AreHarmless(<<Op("POP")>>) BY <2>1, SingleHarmless
  <2>3. Coded(Current, left) BY <1>1, <2>2, EmitCoded
  <2> HIDE DEF left
  <2>4. Coded(Current, patched) BY <1>1, <2>3, ThenPatch
  <2> HIDE DEF patched
  <2>5. Coded(Current, otherwise) BY <1>1, <2>2, <2>4, ThenEmit
  <2> HIDE DEF otherwise
  <2> QED BY <1>1, <2>5, ThenPatch
<1>3. IsCall(p) /\ p.at = "else" /\ p.at \in Kinds BY AtIs DEF Kinds
<1>4. IF hasElse THEN Resume("then", TRUE, otherwise, qs, scopes)
                 ELSE Resume("then", TRUE, ended, Front(parsing), scopes)
  BY DEF EndThen
<1> HIDE DEF otherwise, ended, p
<1>5. Open.at = "then" BY <1>4 DEF Resume
<1>6. \A f : GoodFrame(f) /\ Inside(Open.at, f, Shape(Current)) => Shape(Current) = f
  BY <1>5 DEF Inside
<1>7. Coded(Current, Current) BY <1>1, CodedRefl
<1>8. /\ Follows(Current, Last(scopes)) /\ Follows(otherwise, Last(scopes)) /\ Follows(ended, Last(scopes))
      /\ Shape(otherwise) = Shape(Current) /\ Shape(ended) = Shape(Current)
  BY <1>2, <1>7, CodedFollows
<1>9. CASE hasElse
  <2>1. Inside(p.at, Shape(Current), Shape(otherwise)) BY <1>3, <1>8, SameFrame
  <2>2. Rests(otherwise, qs, With(scopes, Last(scopes)))
    BY <1>1, <1>3, <1>5, <1>6, <1>8, <2>1, ReplaceSound
  <2>3. Rests(otherwise, qs, scopes) BY <1>1, <2>2
  <2>4. Resume("then", TRUE, otherwise, qs, scopes) BY <1>4, <1>9
  <2> HIDE DEF qs
  <2> QED BY <2>3, <2>4, ResumeSound
<1>10. CASE ~ hasElse
  <2>1. \A f : GoodFrame(f) /\ Inside(Open.at, f, Shape(Current)) => Shape(ended) = f BY <1>6, <1>8
  <2>2. Rests(ended, Front(parsing), With(scopes, Last(scopes)))
    BY <1>5, <1>8, <2>1, CloseSound
  <2>3. Rests(ended, Front(parsing), scopes) BY <1>1, <2>2
  <2>4. Resume("then", TRUE, ended, Front(parsing), scopes) BY <1>4, <1>10
  <2> QED BY <2>3, <2>4, ResumeSound
<1> QED BY <1>9, <1>10

LEMMA EndElseIs == ASSUME Inv, EndElse PROVE Inv' /\ Found
<1> DEFINE ended == PatchJump(Current, Open.jump)
<1>1. IsCompiler(Current) /\ With(scopes, Last(scopes)) = scopes BY NowIs
<1>2. Coded(Current, ended) BY <1>1, PatchJumpCoded
<1>3. Resume("else", TRUE, ended, Front(parsing), scopes) BY DEF EndElse
<1> HIDE DEF ended
<1>4. Open.at = "else" BY <1>3 DEF Resume
<1>5. Follows(ended, Last(scopes)) /\ Shape(ended) = Shape(Current) BY <1>2, CodedFollows
<1>6. \A f : GoodFrame(f) /\ Inside(Open.at, f, Shape(Current)) => Shape(ended) = f
  BY <1>4, <1>5 DEF Inside
<1>7. Rests(ended, Front(parsing), With(scopes, Last(scopes)))
  BY <1>4, <1>5, <1>6, CloseSound
<1> QED BY <1>1, <1>3, <1>7, ResumeSound

LEMMA BeginScoped ==
    ASSUME NEW c, IsCompiler(c), NEW s, Scoped(c, s)
    PROVE  Scoped(BeginScope(c), Append(s, <<>>))
<1> DEFINE d == BeginScope(c)
           t == Append(s, <<>>)
           D == c.depth
<1>1. /\ IsSeq(s) /\ Len(s) = D + 1 /\ D \in Nat
      /\ Ordered(c) /\ BoundAreLocals(c, s) /\ LocalsAreBound(c, s)
  BY DEF Scoped, IsCompiler
<1>2. d.locals = c.locals /\ d.depth = D + 1 BY BeginScopeIs DEF Looks
<1>3. /\ IsSeq(t) /\ Len(t) = D + 1 + 1 /\ t[D + 2] = <<>>
      /\ \A i \in 1..D + 1 : t[i] = s[i]
  <2>1. D + 1 + 1 = D + 2 BY <1>1
  <2> HIDE DEF D
  <2> QED BY <1>1, <2>1, AppendIs
<1>4. DOMAIN <<>> = {} OBVIOUS
<1> HIDE DEF d, t
<1>5. Ordered(d)
  <2>1. \A i \in 1..Len(c.locals) : c.locals[i].depth \in 0..D BY <1>1 DEF Ordered
  <2>2. \A x \in 0..D : x \in 0..D + 1 BY <1>1
  <2> QED BY <1>1, <1>2, <2>1, <2>2 DEF Ordered
<1>6. BoundAreLocals(d, t)
  <2>1. SUFFICES ASSUME NEW e \in 0..D + 1, NEW x \in DOMAIN t[e + 1]
                 PROVE  \E i \in 1..Len(c.locals) : c.locals[i].depth = e /\ c.locals[i].name = x
    BY <1>2 DEF BoundAreLocals
  <2>2. e # D + 1
    <3>1. e = D + 1 => e + 1 = D + 2 BY <1>1
    <3> QED BY <1>3, <1>4, <2>1, <3>1
  <2>3. e \in 0..D /\ e + 1 \in 1..D + 1 BY <1>1, <2>2
  <2> QED BY <1>1, <1>3, <2>3 DEF BoundAreLocals
<1>7. LocalsAreBound(d, t)
  <2>1. SUFFICES ASSUME NEW i \in 1..Len(c.locals), c.locals[i].name # ""
                 PROVE  /\ c.locals[i].name \in DOMAIN t[c.locals[i].depth + 1]
                        /\ t[c.locals[i].depth + 1][c.locals[i].name] = c.locals[i].id
    BY <1>2 DEF LocalsAreBound
  <2>2. c.locals[i].depth \in 0..D BY <1>1 DEF Ordered
  <2>3. \A x \in 0..D : x + 1 \in 1..D + 1 BY <1>1
  <2>4. t[c.locals[i].depth + 1] = s[c.locals[i].depth + 1] BY <1>3, <2>2, <2>3
  <2> QED BY <1>1, <2>1, <2>4 DEF LocalsAreBound
<1>8. Scoped(d, t)
  <2> HIDE DEF D
  <2> QED BY <1>2, <1>3, <1>5, <1>6, <1>7 DEF Scoped
<1> QED BY <1>8 DEF d, t

\* A scope is opened in the innermost function.
LEMMA ScopeOpened ==
    ASSUME Inv, NEW d, NEW s, Follows(d, s), GoodFrame(Shape(d))
    PROVE  LET e == BeginScope(d)
               f == Shape(d)
           IN /\ Follows(e, Append(s, <<>>))
              /\ Shape(e) = Frame(f.depth + 1, f.classes, f.loops) /\ GoodFrame(Shape(e))
              /\ Looks(e, d.type, d.locals, d.depth + 1, d.loops, d.upvalues, d.classes)
<1> DEFINE e == BeginScope(d)
           f == Shape(d)
           D == d.depth
<1>1. IsCompiler(d) /\ Scoped(d, s) BY DEF Follows
<1>2. Looks(e, d.type, d.locals, D + 1, d.loops, d.upvalues, d.classes) /\ e.code = d.code
  BY <1>1, BeginScopeIs
<1>3. Scoped(e, Append(s, <<>>)) BY <1>1, BeginScoped
<1>4. f.depth = D /\ f.classes = d.classes BY <1>1, ShapeIs
<1> HIDE DEF e
<1>5. Shape(e) = Frame(D + 1, f.classes, f.loops)
  <2>1. e.depth = D + 1 /\ e.classes = f.classes /\ e.loops = d.loops
    BY <1>2, <1>4 DEF Looks
  <2> HIDE DEF D
  <2>2. f.loops = [i \in DOMAIN d.loops |-> d.loops[i].depth] BY DEF Shape, Frame
  <2> QED BY <2>1, <2>2 DEF Shape
<1>6. GoodFrame(Frame(D + 1, f.classes, f.loops))
  <2>1. D \in Nat /\ IsSeq(f.classes) /\ IsSeq(f.loops) /\ \A i \in 1..Len(f.loops) : f.loops[i] \in 0..D
    BY <1>4 DEF GoodFrame
  <2>2. D + 1 \in Nat /\ \A x \in 0..D : x \in 0..D + 1 BY <2>1
  <2> DEFINE g == Frame(D + 1, f.classes, f.loops)
  <2>3. g.depth = D + 1 /\ g.classes = f.classes /\ g.loops = f.loops /\ g = Frame(g.depth, g.classes, g.loops)
    BY DEF Frame
  <2> HIDE DEF g, D, f
  <2> QED BY <2>1, <2>2, <2>3 DEF GoodFrame, g
<1>7. Follows(e, Append(s, <<>>))
  <2>1. Longer(Current, e) BY <1>2 DEF Follows, Longer, e
  <2> QED BY <1>2, <1>3, <2>1 DEF Follows, Looks, e
<1> QED BY <1>2, <1>4, <1>5, <1>6, <1>7 DEF e

\* A scope of the innermost function ends.
LEMMA ScopeClosed ==
    ASSUME Inv, NEW d, NEW s, Follows(d, s), d.depth > 0
    PROVE  LET e == EndScope(d)
               f == Shape(d)
           IN /\ Follows(e, Front(s))
              /\ Shape(e) = Frame(f.depth - 1, f.classes, f.loops)
<1> DEFINE e == EndScope(d)
           f == Shape(d)
           D == d.depth
<1>1. IsCompiler(Current) /\ IsCompiler(d) /\ Scoped(d, s) BY NowIs DEF Follows
<1>2. /\ IsCompiler(e) /\ e.type = d.type
      /\ e.depth = D - 1 /\ e.loops = d.loops
      /\ e.upvalues = d.upvalues /\ e.classes = d.classes
      /\ Scoped(e, Front(s)) /\ Longer(d, e)
  BY <1>1, EndScopeIs
<1> HIDE DEF e
<1>3. Longer(Current, e)
  <2>1. IsSeq(Current.code) /\ IsSeq(d.code) /\ IsSeq(e.code) BY <1>1, <1>2 DEF IsCompiler
  <2> QED BY <1>2, <2>1, LongerTrans DEF Follows
<1>4. Follows(e, Front(s)) BY <1>2, <1>3 DEF Follows
<1>5. f.depth = D /\ f.classes = d.classes BY <1>1, ShapeIs
<1>6. f.loops = [i \in DOMAIN d.loops |-> d.loops[i].depth] BY DEF Shape, Frame
<1> HIDE DEF D
<1>7. Shape(e) = Frame(D - 1, f.classes, f.loops) BY <1>2, <1>5, <1>6 DEF Shape
<1> QED BY <1>4, <1>5, <1>7 DEF e

LEMMA BeginBlockIs == ASSUME Inv, BeginBlock PROVE Inv' /\ Found
<1> DEFINE m == Mark(Current)
           top == BeginScope(m)
           p == At("block")
           t == Append(Last(scopes), <<>>)
<1>1. /\ Last(Marked) = m /\ Coded(Current, m) /\ With(Marked, top) = With(compilers, top)
  BY MarkedIs
<1>2. Begin("block", TRUE, With(compilers, top), Append(Started, p), With(scopes, t))
  BY <1>1 DEF BeginBlock, Statement, Waiting, Opened
<1>3. /\ Follows(top, t) /\ GoodFrame(Shape(top))
      /\ Shape(top) = Frame(Shape(Current).depth + 1, Shape(Current).classes, Shape(Current).loops)
  <2>1. Follows(m, Last(scopes)) /\ Shape(m) = Shape(Current) BY <1>1, CodedFollows
  <2>2. GoodFrame(Shape(m)) BY <2>1, NowIs
  <2> QED BY <2>1, <2>2, ScopeOpened
<1>4. IsCall(p) /\ p.at = "block" /\ p.at \in Kinds BY AtIs DEF Kinds
<1> HIDE DEF top, p, t
<1>5. Inside(p.at, Shape(Current), Shape(top)) BY <1>3, <1>4 DEF Inside
<1>6. Sound(With(compilers, top), Append(Started, p), With(scopes, t))
  BY <1>3, <1>4, <1>5, StartedIs, OpenSound
<1> QED BY <1>2, <1>6, BeginSound

\* The frame that a scope began in.
LEMMA FrameAround ==
    ASSUME NEW f, GoodFrame(f), NEW g, g = Frame(f.depth + 1, f.classes, f.loops)
    PROVE  g.depth > 0 /\ Frame(g.depth - 1, g.classes, g.loops) = f
<1>1. f = Frame(f.depth, f.classes, f.loops) /\ f.depth \in Nat BY DEF GoodFrame
<1>2. g.depth = f.depth + 1 /\ g.classes = f.classes /\ g.loops = f.loops BY DEF Frame
<1>3. g.depth > 0 /\ g.depth - 1 = f.depth BY <1>1, <1>2
<1> QED BY <1>1, <1>2, <1>3

\* The statement of a scope ends with it.
LEMMA ScopeEnds ==
    ASSUME Inv, Open.at \in {"block", "try", "handler"}
    PROVE  /\ Current.depth > 0
           /\ \A d : Coded(Current, d) =>
                 /\ Follows(EndScope(d), Front(Last(scopes)))
                 /\ \A f : GoodFrame(f) /\ Inside(Open.at, f, Shape(Current)) => Shape(EndScope(d)) = f
<1> DEFINE g == Shape(Current)
<1>1. \A f : GoodFrame(f) /\ Inside(Open.at, f, g) => g = Frame(f.depth + 1, f.classes, f.loops)
  BY DEF Inside
<1>2. g.depth = Current.depth BY NowIs, ShapeIs
<1> HIDE DEF g
<1>3. Current.depth > 0
  <2>1. PICK f : GoodFrame(f) /\ Inside(Open.at, f, g) BY OpenIs DEF g
  <2>2. g = Frame(f.depth + 1, f.classes, f.loops) BY <1>1, <2>1
  <2> QED BY <1>2, <2>1, <2>2, FrameAround
<1>4. ASSUME NEW d, Coded(Current, d)
      PROVE  /\ Follows(EndScope(d), Front(Last(scopes)))
             /\ Shape(EndScope(d)) = Frame(g.depth - 1, g.classes, g.loops)
  <2>1. Follows(d, Last(scopes)) /\ Shape(d) = g BY <1>4, CodedFollows DEF g
  <2>2. d.depth > 0 BY <1>3, <1>4 DEF Coded, SameButCode
  <2> QED BY <2>1, <2>2, ScopeClosed
<1>5. \A f : GoodFrame(f) /\ Inside(Open.at, f, g) => Frame(g.depth - 1, g.classes, g.loops) = f
  BY <1>1, FrameAround
<1> QED BY <1>3, <1>4, <1>5 DEF g

LEMMA EndBlockIs == ASSUME Inv, EndBlock PROVE Inv' /\ Found
<1> DEFINE top == EndScope(Current)
           t == Front(Last(scopes))
<1>1. Resume("block", TRUE, top, Front(parsing), With(scopes, t)) BY DEF EndBlock, Left
<1>2. Open.at = "block" BY <1>1 DEF Resume
<1>3. Coded(Current, Current) BY NowIs, CodedRefl
<1>4. Follows(top, t) /\ \A f : GoodFrame(f) /\ Inside(Open.at, f, Shape(Current)) => Shape(top) = f
  BY <1>2, <1>3, ScopeEnds
<1> HIDE DEF top, t
<1>5. Rests(top, Front(parsing), With(scopes, t)) BY <1>2, <1>4, CloseSound
<1> QED BY <1>1, <1>5, ResumeSound

-----------------------------------------------------------------------------
(* Loops.                                                                    *)

\* A loop begins in the innermost function, after code was emitted.
LEMMA LoopOpened ==
    ASSUME NEW d, NEW start, IsCompiler(d), GoodFrame(Shape(d))
    PROVE  LET e == PushLoop(d, start)
               f == Shape(d)
           IN /\ Looks(e, d.type, d.locals, d.depth, e.loops, d.upvalues, d.classes)
              /\ e.code = d.code
              /\ Shape(e) = Frame(f.depth, f.classes, Append(f.loops, f.depth)) /\ GoodFrame(Shape(e))
<1> DEFINE e == PushLoop(d, start)
           f == Shape(d)
           g == Frame(f.depth, f.classes, Append(f.loops, f.depth))
           ls == Append(f.loops, f.depth)
<1>1. /\ Looks(e, d.type, d.locals, d.depth, e.loops, d.upvalues, d.classes)
      /\ e.code = d.code /\ Shape(e) = Frame(d.depth, d.classes, Append(f.loops, d.depth))
  BY PushLoopIs
<1>2. f.depth = d.depth /\ f.classes = d.classes BY ShapeIs
<1>3. Shape(e) = g BY <1>1, <1>2
<1>4. GoodFrame(g)
  <2>1. /\ f.depth \in Nat /\ IsSeq(f.classes) /\ IsSeq(f.loops)
        /\ \A i \in 1..Len(f.loops) : f.loops[i] \in 0..f.depth
    BY DEF GoodFrame
  <2>2. g.depth = f.depth /\ g.classes = f.classes /\ g.loops = ls /\ g = Frame(g.depth, g.classes, g.loops)
    BY DEF Frame
  <2> HIDE DEF g, f
  <2>3. IsSeq(ls) /\ Len(ls) = Len(f.loops) + 1 /\ \A i \in 1..Len(f.loops) : ls[i] = f.loops[i]
    BY <2>1, AppendIs
  <2>4. ls[Len(f.loops) + 1] = f.depth /\ f.depth \in 0..f.depth BY <2>1, AppendIs
  <2>5. Len(f.loops) \in Nat BY <2>1, SeqIs
  <2> HIDE DEF ls
  <2>6. \A i \in 1..Len(ls) : ls[i] \in 0..f.depth
    <3> TAKE i \in 1..Len(ls)
    <3>1. i \in 1..Len(f.loops) \/ i = Len(f.loops) + 1 BY <2>3, <2>5
    <3> QED BY <2>1, <2>3, <2>4, <3>1
  <2> QED BY <2>1, <2>2, <2>3, <2>6 DEF GoodFrame
<1> QED BY <1>1, <1>3, <1>4

\* A compiler with the locals and the depth of another agrees with the same scopes.
LEMMA LooksScoped ==
    ASSUME NEW d, NEW e, NEW t, Scoped(d, t), e.locals = d.locals, e.depth = d.depth
    PROVE  Scoped(e, t)
<1>1. Ordered(d) /\ BoundAreLocals(d, t) /\ LocalsAreBound(d, t) BY DEF Scoped
<1>2. Ordered(e) BY <1>1 DEF Ordered
<1>3. BoundAreLocals(e, t) BY <1>1 DEF BoundAreLocals
<1>4. LocalsAreBound(e, t) BY <1>1 DEF LocalsAreBound
<1> QED BY <1>2, <1>3, <1>4 DEF Scoped

\* What follows when the loops or the classes around change.
LEMMA FollowsLoop ==
    ASSUME Inv, NEW d, NEW t, NEW e, NEW classes, Follows(d, t), Longer(d, e),
           Looks(e, d.type, d.locals, d.depth, e.loops, d.upvalues, classes)
    PROVE  Follows(e, t)
<1>1. IsCompiler(Current) /\ IsCompiler(d) /\ IsCompiler(e) BY NowIs DEF Follows, Looks
<1>2. Longer(Current, e)
  <2>1. IsSeq(Current.code) /\ IsSeq(d.code) /\ IsSeq(e.code) BY <1>1 DEF IsCompiler
  <2> QED BY <2>1, LongerTrans DEF Follows
<1>3. Scoped(e, t) BY LooksScoped DEF Follows, Looks
<1> QED BY <1>1, <1>2, <1>3 DEF Follows, Looks

LEMMA CodedFollowsOn ==
    ASSUME Inv, NEW d, NEW t, NEW e, Follows(d, t), Coded(d, e)
    PROVE  Follows(e, t) /\ Shape(e) = Shape(d)
<1>1. Looks(e, d.type, d.locals, d.depth, e.loops, d.upvalues, d.classes) /\ Longer(d, e)
      /\ e.loops = d.loops
  BY DEF Coded, SameButCode, Looks
<1>2. Shape(e) = Shape(d)
  <2>1. e.depth = d.depth /\ e.classes = d.classes /\ e.loops = d.loops BY <1>1 DEF Looks
  <2> QED BY <2>1, ShapeSame
<1> QED BY <1>1, <1>2, FollowsLoop

LEMMA LoopStarts ==
    ASSUME Inv, NEW start, NEW at, at \in {"while", "do"}
    PROVE  LET top == PushLoop(Mark(Current), start) IN
           /\ Follows(top, Last(scopes)) /\ GoodFrame(Shape(top)) /\ IsCompiler(top)
           /\ Inside(at, Shape(Current), Shape(top))
<1> DEFINE m == Mark(Current)
           top == PushLoop(m, start)
<1>1. Coded(Current, m) /\ IsCompiler(m) BY MarkedIs
<1>2. Follows(m, Last(scopes)) /\ Shape(m) = Shape(Current) BY <1>1, CodedFollows
<1>3. GoodFrame(Shape(m)) BY <1>2, NowIs
<1> HIDE DEF m
<1>4. /\ Looks(top, m.type, m.locals, m.depth, top.loops, m.upvalues, m.classes)
      /\ top.code = m.code /\ GoodFrame(Shape(top))
      /\ Shape(top) = Frame(Shape(m).depth, Shape(m).classes, Append(Shape(m).loops, Shape(m).depth))
  BY <1>1, <1>3, LoopOpened
<1> HIDE DEF top
<1>5. Longer(m, top) BY <1>1, <1>4, LongerSame
<1>6. Follows(top, Last(scopes)) BY <1>2, <1>4, <1>5, FollowsLoop
<1>7. Inside(at, Shape(Current), Shape(top)) BY <1>2, <1>4 DEF Inside
<1>8. IsCompiler(top) BY <1>4 DEF Looks
<1> QED BY <1>4, <1>6, <1>7, <1>8 DEF top, m

LEMMA WhileIs == ASSUME Inv, WhileStatement PROVE Inv' /\ Found
<1> DEFINE top == PushLoop(Last(Marked), Here(Current))
           e == Guard(top)
           p == AtLoop("while", Here(Current), GuardJump(top))
           cs == With(Marked, e)
<1>1. Begin("while", TRUE, cs, Append(Started, p), scopes) BY DEF WhileStatement, Statement, Waiting
<1>2. cs = With(compilers, e) /\ Last(Marked) = Mark(Current) BY MarkedIs
<1>3. /\ Follows(top, Last(scopes)) /\ GoodFrame(Shape(top)) /\ IsCompiler(top)
      /\ Inside("while", Shape(Current), Shape(top))
  BY <1>2, LoopStarts
<1>4. IsCall(p) /\ p.at = "while" /\ p.at \in Kinds BY AtLoopIs DEF Kinds
<1> HIDE DEF top, p
<1>5. Coded(top, e) BY <1>3, GuardCoded
<1> HIDE DEF e
<1>6. Follows(e, Last(scopes)) /\ Shape(e) = Shape(top) BY <1>3, <1>5, CodedFollowsOn
<1>7. Sound(With(compilers, e), Append(Started, p), With(scopes, Last(scopes)))
  BY <1>3, <1>4, <1>6, StartedIs, OpenSound
<1>8. Sound(cs, Append(Started, p), scopes) BY <1>2, <1>7, NowIs
<1> HIDE DEF cs
<1> QED BY <1>1, <1>8, BeginSound

LEMMA DoIs == ASSUME Inv, DoStatement PROVE Inv' /\ Found
<1> DEFINE top == PushLoop(Last(Marked), Nowhere)
           p == [At("do") EXCEPT !.start = Here(Current)]
           cs == With(Marked, top)
<1>1. Begin("do", TRUE, cs, Append(Started, p), scopes) BY DEF DoStatement, Statement, Waiting
<1>2. cs = With(compilers, top) /\ Last(Marked) = Mark(Current) BY MarkedIs
<1>3. /\ Follows(top, Last(scopes)) /\ GoodFrame(Shape(top))
      /\ Inside("do", Shape(Current), Shape(top))
  BY <1>2, LoopStarts
<1>4. IsCall(p) /\ p.at = "do" /\ p.at \in Kinds BY AtIs DEF Kinds
<1> HIDE DEF top, p
<1>5. Sound(With(compilers, top), Append(Started, p), With(scopes, Last(scopes)))
  BY <1>3, <1>4, StartedIs, OpenSound
<1>6. Sound(cs, Append(Started, p), scopes) BY <1>2, <1>5, NowIs
<1> HIDE DEF cs
<1> QED BY <1>1, <1>6, BeginSound

\* What a loop's end makes of the compiler, after code was emitted.
LEMMA LoopEnds ==
    ASSUME Inv, Open.at \in {"while", "do"}, NEW d, Coded(Current, d)
    PROVE  LET e == LeaveLoop(d) IN
           /\ Follows(e, Last(scopes))
           /\ \A f : GoodFrame(f) /\ Inside(Open.at, f, Shape(Current)) => Shape(e) = f
<1> DEFINE e == LeaveLoop(d)
<1>1. Follows(d, Last(scopes)) /\ Shape(d) = Shape(Current) /\ IsCompiler(d) BY CodedFollows
<1>2. ASSUME NEW f, GoodFrame(f), Inside(Open.at, f, Shape(Current))
      PROVE  /\ Looks(e, d.type, d.locals, d.depth, e.loops, d.upvalues, d.classes)
             /\ Longer(d, e) /\ Shape(e) = f
  <2>1. Shape(d) = Frame(f.depth, f.classes, Append(f.loops, f.depth)) BY <1>1, <1>2 DEF Inside
  <2>2. /\ Shape(d).loops = Append(f.loops, f.depth) /\ Shape(d).depth = f.depth
        /\ Shape(d).classes = f.classes
    BY <2>1 DEF Frame
  <2>3. IsSeq(f.loops) /\ f = Frame(f.depth, f.classes, f.loops) BY <1>2 DEF GoodFrame
  <2>4. /\ Looks(e, d.type, d.locals, d.depth, e.loops, d.upvalues, d.classes)
        /\ Longer(d, e) /\ Shape(e) = Frame(d.depth, d.classes, f.loops)
    BY <1>1, <2>2, <2>3, LeaveLoopIs
  <2>5. d.depth = f.depth /\ d.classes = f.classes BY <1>1, <2>2, ShapeIs
  <2> QED BY <2>3, <2>4, <2>5
<1>3. PICK f : GoodFrame(f) /\ Inside(Open.at, f, Shape(Current)) BY OpenIs
<1> HIDE DEF e
<1>4. Follows(e, Last(scopes)) BY <1>1, <1>2, <1>3, FollowsLoop
<1> QED BY <1>2, <1>4 DEF e

LEMMA EndWhileIs == ASSUME Inv, EndWhile PROVE Inv' /\ Found
<1> DEFINE d == Repeat(Current, Open.start, Open.exit)
           top == LeaveLoop(d)
<1>1. Resume("while", TRUE, top, Front(parsing), scopes) BY DEF EndWhile
<1>2. Open.at = "while" BY <1>1 DEF Resume
<1>3. Coded(Current, d) BY NowIs, RepeatCoded
<1> HIDE DEF d
<1>4. /\ Follows(top, Last(scopes))
      /\ \A f : GoodFrame(f) /\ Inside(Open.at, f, Shape(Current)) => Shape(top) = f
  BY <1>2, <1>3, LoopEnds
<1> HIDE DEF top
<1>5. Rests(top, Front(parsing), With(scopes, Last(scopes))) BY <1>2, <1>4, CloseSound
<1> QED BY <1>1, <1>5, NowIs, ResumeSound

LEMMA EndDoIs == ASSUME Inv, EndDo PROVE Inv' /\ Found
<1> DEFINE body == PatchJumps(Current, Last(Current.loops).continues)
           guarded == Guard(body)
           d == Repeat(guarded, Open.start, GuardJump(body))
           top == LeaveLoop(d)
<1>1. Resume("do", TRUE, top, Front(parsing), scopes) BY DEF EndDo
<1>2. Open.at = "do" BY <1>1 DEF Resume
<1>3. Coded(Current, d)
  <2>1. IsCompiler(Current) /\ Coded(Current, body) BY NowIs, PatchJumpsCoded
  <2> HIDE DEF body
  <2>2. Coded(body, guarded) BY <2>1, GuardCoded DEF Coded, SameButCode
  <2> HIDE DEF guarded
  <2>3. Coded(guarded, d) BY <2>2, RepeatCoded DEF Coded, SameButCode
  <2> HIDE DEF d
  <2>4. Coded(Current, guarded) BY <2>1, <2>2, CodedTrans
  <2> QED BY <2>1, <2>3, <2>4, CodedTrans
<1> HIDE DEF d
<1>4. /\ Follows(top, Last(scopes))
      /\ \A f : GoodFrame(f) /\ Inside(Open.at, f, Shape(Current)) => Shape(top) = f
  BY <1>2, <1>3, LoopEnds
<1> HIDE DEF top
<1>5. Rests(top, Front(parsing), With(scopes, Last(scopes))) BY <1>2, <1>4, CloseSound
<1> QED BY <1>1, <1>5, NowIs, ResumeSound

-----------------------------------------------------------------------------
(* Declarations.                                                             *)

LEMMA CodedSame ==
    ASSUME NEW c, NEW d, Coded(c, d), NEW name
    PROVE  /\ IsGlobalScope(d) <=> IsGlobalScope(c)
           /\ CanDeclare(d, name) <=> CanDeclare(c, name)
           /\ \A s, t, id : Binds(d, s, t, name, id) <=> Binds(c, s, t, name, id)
<1>1. d.type = c.type /\ d.locals = c.locals /\ d.depth = c.depth BY DEF Coded, SameButCode
<1>2. IsGlobalScope(d) <=> IsGlobalScope(c) BY <1>1 DEF IsGlobalScope
<1>3. InThisScope(d) = InThisScope(c) BY <1>1 DEF InThisScope
<1>4. CanDeclare(d, name) <=> CanDeclare(c, name) BY <1>1, <1>2, <1>3 DEF CanDeclare
<1>5. \A s, t, id : Binds(d, s, t, name, id) <=> Binds(c, s, t, name, id) BY <1>2 DEF Binds
<1> QED BY <1>2, <1>4, <1>5

\* A variable is declared, code is emitted, and the variable is made one to find.
LEMMA AddFollows ==
    ASSUME Inv, NEW d, NEW s, Follows(d, s), NEW name, NEW id, CanDeclare(d, name),
           NEW w, Coded(DeclareVariable(d, name, id), w),
           NEW e, Looks(e, w.type, e.locals, w.depth, w.loops, w.upvalues, w.classes), Longer(w, e),
           IF IsGlobalScope(w) THEN e.locals = w.locals ELSE LastMarked(w, e),
           NEW t, Binds(d, s, t, name, id)
    PROVE  Follows(e, t) /\ Shape(e) = Shape(d)
<1> DEFINE v == DeclareVariable(d, name, id)
<1>1. IsCompiler(Current) /\ IsCompiler(d) /\ Scoped(d, s) BY NowIs DEF Follows
<1>2. /\ IsCompiler(v) /\ v.type = d.type /\ v.upvalues = d.upvalues /\ v.code = d.code
  <2>1. CASE IsGlobalScope(d) BY <1>1, <2>1 DEF DeclareVariable
  <2>2. CASE ~ IsGlobalScope(d) BY <1>1, <2>2, DeclareIs DEF Looks
  <2> QED BY <2>1, <2>2
<1> HIDE DEF v
<1>3. Coded(v, w) /\ IsCompiler(w) /\ w.type = v.type /\ w.upvalues = v.upvalues
  BY DEF Coded, SameButCode, v
<1>4. Alike(v, w) BY <1>2, <1>3, CodedAlike
<1>5. Adds(d, e, name, id) BY <1>1, <1>4, AddsIs DEF v
<1>6. Scoped(e, t) BY <1>1, <1>5, AddsScoped
<1>7. IsCompiler(e) /\ e.type = d.type /\ e.upvalues = d.upvalues BY <1>2, <1>3 DEF Looks
<1>8. Longer(Current, e)
  <2>1. IsSeq(Current.code) /\ IsSeq(d.code) /\ IsSeq(v.code) /\ IsSeq(w.code) /\ IsSeq(e.code)
    BY <1>1, <1>2, <1>3, <1>7 DEF IsCompiler
  <2>2. Longer(Current, d) /\ Longer(d, v) /\ Longer(v, w)
    BY <1>1, <1>2, <1>3, LongerSame DEF Follows, Coded
  <2>3. Longer(Current, v) BY <2>1, <2>2, LongerTrans
  <2>4. Longer(Current, w) BY <2>1, <2>2, <2>3, LongerTrans
  <2> QED BY <2>1, <2>4, LongerTrans
<1>9. Shape(e) = Shape(d) BY <1>5 DEF Adds
<1> QED BY <1>6, <1>7, <1>8, <1>9 DEF Follows

LEMMA DeclaredLocals ==
    ASSUME NEW d, IsCompiler(d), NEW name, NEW id, NEW w, Coded(DeclareVariable(d, name, id), w)
    PROVE  IsCompiler(w) /\ (~ IsGlobalScope(w) => Len(w.locals) > 0)
<1> DEFINE v == DeclareVariable(d, name, id)
<1>1. /\ IsCompiler(w) /\ w.locals = v.locals /\ (IsGlobalScope(w) <=> IsGlobalScope(v))
  BY CodedSame DEF Coded, SameButCode
<1>2. CASE IsGlobalScope(d)
  <2>1. v = d BY <1>2 DEF DeclareVariable
  <2> QED BY <1>1, <1>2, <2>1
<1>3. CASE ~ IsGlobalScope(d)
  <2>1. v.locals = Append(d.locals, Local(name, -1, id)) BY <1>3, DeclareIs DEF Looks
  <2>2. IsSeq(d.locals) BY DEF IsCompiler
  <2> DEFINE l == Local(name, -1, id)
  <2>3. v.locals = Append(d.locals, l) BY <2>1
  <2> HIDE DEF v, l
  <2>4. Len(Append(d.locals, l)) = Len(d.locals) + 1 BY <2>2, AppendIs
  <2>5. Len(d.locals) \in Nat BY <2>2, SeqIs
  <2> QED BY <1>1, <2>3, <2>4, <2>5
<1> QED BY <1>2, <1>3

LEMMA DefineFollows ==
    ASSUME Inv, NEW d, NEW s, Follows(d, s), NEW name, NEW id, CanDeclare(d, name),
           NEW w, Coded(DeclareVariable(d, name, id), w), NEW t, Binds(d, s, t, name, id)
    PROVE  LET e == DefineVariable(w, name) IN Follows(e, t) /\ Shape(e) = Shape(d) /\ IsCompiler(e)
<1> DEFINE e == DefineVariable(w, name)
<1>1. IsCompiler(d) BY DEF Follows
<1>2. IsCompiler(w) /\ (~ IsGlobalScope(w) => Len(w.locals) > 0) BY <1>1, DeclaredLocals
<1>3. /\ Looks(e, w.type, e.locals, w.depth, w.loops, w.upvalues, w.classes)
      /\ Longer(w, e)
      /\ IF IsGlobalScope(w) THEN e.locals = w.locals ELSE LastMarked(w, e)
  BY <1>2, DefineIs
<1> HIDE DEF e
<1>4. Follows(e, t) /\ Shape(e) = Shape(d) BY <1>3, AddFollows
<1> QED BY <1>4 DEF e, Follows

LEMMA MarkFollows ==
    ASSUME Inv, NEW d, NEW s, Follows(d, s), NEW name, NEW id, CanDeclare(d, name),
           NEW w, Coded(DeclareVariable(d, name, id), w), NEW t, Binds(d, s, t, name, id)
    PROVE  LET e == MarkInitialised(w) IN
           /\ Follows(e, t) /\ Shape(e) = Shape(d) /\ IsCompiler(e)
           /\ IF IsGlobalScope(w) THEN e.locals = w.locals ELSE LastMarked(w, e)
<1> DEFINE e == MarkInitialised(w)
<1>1. IsCompiler(d) BY DEF Follows
<1>2. IsCompiler(w) /\ (~ IsGlobalScope(w) => Len(w.locals) > 0) BY <1>1, DeclaredLocals
<1>3. /\ Looks(e, w.type, e.locals, w.depth, w.loops, w.upvalues, w.classes)
      /\ e.code = w.code
      /\ IF IsGlobalScope(w) THEN e.locals = w.locals ELSE LastMarked(w, e)
  <2>1. CASE IsGlobalScope(w)
    <3>1. e = w BY <2>1 DEF MarkInitialised
    <3> QED BY <1>2, <2>1, <3>1 DEF Looks
  <2>2. CASE ~ IsGlobalScope(w) BY <1>2, <2>2, MarkIs
  <2> QED BY <2>1, <2>2
<1> HIDE DEF e
<1>4. Longer(w, e) BY <1>2, <1>3, LongerSame
<1>5. Follows(e, t) /\ Shape(e) = Shape(d) BY <1>3, <1>4, AddFollows
<1> QED BY <1>3, <1>5 DEF e, Follows

\* The scopes with a name bound by a declaration.
LEMMA BoundIs ==
    ASSUME Inv, NEW name
    PROVE  \E t : Bound(name) = With(scopes, t) /\ Binds(Current, Last(scopes), t, name, Declaration(name))
<1> DEFINE s == Last(scopes)
           id == Declaration(name)
           n == Len(s)
           b == Bind(Last(s), name, id)
           u == With(s, b)
<1>1. IsSeq(s) /\ n = Current.depth + 1 /\ Current.depth \in Nat BY NowIs DEF Scoped, IsCompiler
<1>2. CASE IsGlobalScope(Current)
  <2>1. Bound(name) = With(scopes, s) BY <1>2, NowIs DEF Bound
  <2> QED BY <1>2, <2>1 DEF Binds
<1>3. CASE ~ IsGlobalScope(Current)
  <2>1. Bound(name) = With(scopes, u) BY <1>3 DEF Bound
  <2> HIDE DEF s, id, b
  <2>2. n \in Nat /\ n > 0 /\ n \in 1..n BY <1>1
  <2>3. IsSeq(u) /\ Len(u) = n /\ \A k \in 1..n : u[k] = IF k = n THEN b ELSE s[k]
    BY <1>1, <2>2, WithIs
  <2>4. u[n] = b /\ \A k \in 1..n - 1 : u[k] = s[k]
    <3>1. \A k \in 1..n - 1 : k \in 1..n /\ k # n BY <2>2
    <3> QED BY <2>2, <2>3, <3>1
  <2>5. Last(s) = s[n] BY <1>1, <2>2, FrontIs
  <2>6. /\ DOMAIN b = DOMAIN s[n] \cup {name}
        /\ \A x \in DOMAIN b : b[x] = IF x = name THEN id ELSE s[n][x]
    BY <2>5 DEF b, Bind
  <2> HIDE DEF u
  <2>7. Bindings(s, u, name, id) BY <2>3, <2>4, <2>6 DEF Bindings
  <2>8. Binds(Current, s, u, name, id) BY <1>3, <2>7 DEF Binds
  <2> QED BY <2>1, <2>8 DEF s, id
<1> QED BY <1>2, <1>3

LEMMA ImportIs == ASSUME Inv, NEW name, ImportStatement(name) PROVE Inv' /\ Found
<1> DEFINE m == Mark(Current)
           named == Emit(m, <<Const>>)
           id == Declaration(name)
           declared == DeclareVariable(named, name, id)
           w == Emit(declared, <<Op("IMPORT")>>)
           e == DefineVariable(w, name)
           ok == CanDeclare(Current, name)
<1>1. /\ Last(Marked) = m /\ Coded(Current, m) /\ IsCompiler(Current)
      /\ With(Marked, e) = With(compilers, e)
  BY MarkedIs, NowIs
<1>2. Begin("import", ok, With(compilers, e), Started, Bound(name))
  BY <1>1 DEF ImportStatement, Statement
<1>3. ASSUME ok PROVE Sound(With(compilers, e), Started, Bound(name))
  <2>1. PICK t : Bound(name) = With(scopes, t) /\ Binds(Current, Last(scopes), t, name, id)
    BY BoundIs
  <2>2. AreHarmless(<<Const>>) BY HarmlessOps, HarmlessTuples
  <2>3. Coded(Current, named) BY <1>1, <2>2, ThenEmit
  <2>4. "IMPORT" \notin Accesses BY DEF Accesses
  <2>5. AreHarmless(<<Op("IMPORT")>>) BY <2>4, SingleHarmless
  <2> HIDE DEF named, id
  <2>6. Follows(named, Last(scopes)) /\ Shape(named) = Shape(Current) /\ IsCompiler(named)
    BY <2>3, CodedFollows
  <2>7. CanDeclare(named, name) /\ Binds(named, Last(scopes), t, name, id)
    BY <1>3, <2>1, <2>3, CodedSame
  <2>8. IsCompiler(declared)
    <3>1. CASE IsGlobalScope(named) BY <2>6, <3>1 DEF DeclareVariable
    <3>2. CASE ~ IsGlobalScope(named) BY <2>6, <3>2, DeclareIs DEF Looks
    <3> QED BY <3>1, <3>2
  <2>9. Coded(declared, w) BY <2>5, <2>8, EmitCoded
  <2> HIDE DEF w
  <2>10. Follows(e, t) /\ Shape(e) = Shape(Current) BY <2>6, <2>7, <2>9, DefineFollows
  <2> HIDE DEF e
  <2>11. Sound(With(compilers, e), Started, With(scopes, t)) BY <2>10, StartedIs, KeptSound
  <2> QED BY <2>1, <2>11
<1> HIDE DEF e, ok
<1> QED BY <1>2, <1>3, BeginSound

-----------------------------------------------------------------------------
(* Expressions in statements.                                                *)

LEMMA MarkSame ==
    ASSUME NEW c, IsCompiler(c)
    PROVE  /\ Looks(Mark(c), c.type, c.locals, c.depth, c.loops, c.upvalues, c.classes)
           /\ Mark(c).code = c.code
<1> DEFINE x == c.marks \cup {<<Here(c), Len(c.locals)>>}
<1>1. Mark(c) = [c EXCEPT !.marks = x] BY DEF Mark
<1>2. [c EXCEPT !.marks = x].code = c.code BY DEF IsCompiler
<1>3. Coded(c, Mark(c)) BY MarkCoded
<1> HIDE DEF x
<1> QED BY <1>1, <1>2, <1>3 DEF Coded, SameButCode, Looks

LEMMA MarkedGrown ==
    ASSUME Inv
    PROVE  /\ Compiled(compilers, Marked) /\ Grown(compilers, Marked) /\ Compilers(Marked)
           /\ Len(Marked) = Len(compilers) /\ Marked[Len(compilers)] = Mark(Current)
           /\ Alike(Current, Mark(Current)) /\ IsCompiler(Mark(Current))
<1> DEFINE m == Mark(Current)
           n == Len(compilers)
<1>1. Compilers(compilers) /\ IsCompiler(Current) /\ Current = compilers[n] BY NowIs
<1>2. Looks(m, Current.type, Current.locals, Current.depth, Current.loops, Current.upvalues, Current.classes)
      /\ m.code = Current.code
  BY <1>1, MarkSame
<1>3. IsCompiler(m) /\ m.upvalues = compilers[n].upvalues /\ m.code = compilers[n].code
  BY <1>1, <1>2 DEF Looks
<1>4. Alike(Current, m) BY <1>1, <1>2, LooksAlike
<1>5. Marked = With(compilers, m) BY DEF Marked
<1> HIDE DEF m
<1>6. AreHarmless(<<>>) BY HarmlessTuples
<1>7. Compiled(compilers, Marked) /\ Marked[n] = m BY <1>1, <1>3, <1>5, <1>6, TopCompiled
<1>8. /\ Compilers(Marked) /\ Len(Marked) = n /\ \A k \in 1..n - 1 : Marked[k] = compilers[k]
  BY <1>1, <1>3, <1>5, TopIs
<1>9. Grown(compilers, Marked)
  <2>1. \A k \in 1..n : IsCompiler(compilers[k]) BY <1>1, CompilersAre
  <2>2. n \in Nat /\ IsSeq(Marked) BY <1>1, <1>8, CompilersAre
  <2>3. \A k \in 1..n : Alike(compilers[k], Marked[k]) /\ Marked[k].code = compilers[k].code
    <3> TAKE k \in 1..n
    <3>1. CASE k = n BY <1>1, <1>3, <1>4, <1>7, <3>1
    <3>2. CASE k # n
      <4>1. k \in 1..n - 1 BY <2>2, <3>2
      <4> QED BY <1>8, <2>1, <4>1, AlikeRefl
    <3> QED BY <3>1, <3>2
  <2> QED BY <1>8, <2>2, <2>3 DEF Grown
<1> QED BY <1>3, <1>4, <1>7, <1>8, <1>9 DEF m

LEMMA AgreeNow ==
    ASSUME Inv, NEW name, Nonempty(name)
    PROVE  AllAgree(compilers, scopes, name) /\ AllAgree(Marked, scopes, name)
<1> DEFINE n == Len(compilers)
<1>1. Scoping(compilers, scopes) BY DEF Inv
<1>2. \A k \in 1..n : IsCompiler(compilers[k]) /\ Scoped(compilers[k], scopes[k])
  BY <1>1, CompilersAre DEF Scoping
<1>3. \A k \in 1..n : Agrees(compilers[k], scopes[k], name) BY <1>2, ScopedAgrees
<1>4. IsSeq(scopes) /\ Len(scopes) = n BY <1>1 DEF Scoping
<1>5. AllAgree(compilers, scopes, name) BY <1>3, <1>4 DEF AllAgree
<1> QED BY <1>1, <1>5, MarkedGrown, AllAgreeKept DEF Scoping

LEMMA AlikeSound ==
    ASSUME Inv, NEW ds, Onward(compilers, ds), Alike(Current, ds[Len(compilers)]), Led(ds),
           NEW qs, SameCalls(parsing, qs)
    PROVE  Sound(ds, qs, scopes)
<1> DEFINE n == Len(compilers)
<1>1. /\ Current = compilers[n] /\ IsCompiler(Current) /\ Scoped(Current, Last(scopes))
      /\ With(scopes, Last(scopes)) = scopes
  BY NowIs
<1>2. Scoped(ds[n], Last(scopes)) /\ Shape(ds[n]) = Shape(compilers[n])
  BY <1>1, AlikeScoped DEF Alike
<1>3. Scoping(compilers, scopes) /\ Nesting(compilers, parsing) BY DEF Inv
<1> HIDE DEF n
<1>4. Scoping(ds, With(scopes, Last(scopes))) /\ Nesting(ds, qs) BY <1>2, <1>3, KeptIs DEF n
<1> QED BY <1>1, <1>4 DEF Sound

LEMMA UsesHarmless == \A kind \in DOMAIN Uses : AreHarmless(Uses[kind])
<1>1. /\ "POP" \notin Accesses /\ "UNARY" \notin Accesses /\ "PRINT" \notin Accesses
      /\ "RAISE" \notin Accesses
  BY DEF Accesses
<1>2. /\ Harmless(Op("POP")) /\ Harmless(Op("UNARY")) /\ Harmless(Op("PRINT")) /\ Harmless(Op("RAISE"))
  BY <1>1, HarmlessOps
<1>3. /\ AreHarmless(<<Op("POP")>>) /\ AreHarmless(<<Op("UNARY"), Op("PRINT")>>)
      /\ AreHarmless(<<Op("RAISE")>>)
  BY <1>2, HarmlessTuples
<1> QED BY <1>3 DEF Uses

LEMMA SourceIs ==
    ASSUME Inv
    PROVE  /\ \A x \in source.names : IsName(x)
           /\ \A e \in source.expressions : IsExpression(e) /\ (IsName(e.name) \/ e.name = "this")
           /\ \A x : IsName(x) => Nonempty(x) /\ x # "this" /\ x # "super" /\ x # "none" /\ x # "expression"
           /\ Nonempty("this") /\ Nonempty("super")
           /\ \A params \in source.params : params \in Seq(source.names)
           /\ source.counts \subseteq Nat
<1>1. source \in Sources BY DEF Inv
<1>2. \A x : IsName(x) => Nonempty(x) /\ x # "this" /\ x # "super" /\ x # "none" /\ x # "expression"
  BY DEF IsName, Nonempty
<1>3. Nonempty("this") /\ Nonempty("super") BY DEF Nonempty
<1>4. \A x \in source.names : IsName(x) BY <1>1, SourcesAreSources
<1>5. \A e \in source.expressions : IsExpression(e) /\ (IsName(e.name) \/ e.name = "this")
  BY <1>1, <1>4, SourcesAreSources DEF IsExpression
<1> QED BY <1>1, <1>2, <1>3, <1>4, <1>5, SourcesAreSources

LEMMA UseIs == ASSUME Inv, NEW kind \in DOMAIN Uses, NEW e \in source.expressions, Use(kind, e) PROVE Inv' /\ Found
<1> DEFINE n == Len(compilers)
           x == Expression(Marked, e)
           ok == x.ok
           es == With(x.cs, Emit(Last(x.cs), Uses[kind]))
<1>1. Begin(kind, ok, es, Started, scopes) BY DEF Use, Statement, EmitTo
<1>2. ASSUME ok PROVE Sound(es, Started, scopes)
  <2> DEFINE xs == x.cs
  <2>1. /\ Compiled(compilers, Marked) /\ Compilers(Marked) /\ Len(Marked) = n
        /\ Marked[n] = Mark(Current) /\ Alike(Current, Mark(Current)) /\ IsCompiler(Mark(Current))
    BY MarkedGrown
  <2>2. IsExpression(e) /\ Nonempty(e.name) /\ Nonempty("this") /\ Nonempty("super") BY SourceIs
  <2>3. AllAgree(Marked, scopes, "this") /\ AllAgree(Marked, scopes, "super")
        /\ AllAgree(Marked, scopes, e.name)
    BY <2>2, AgreeNow
  <2>4. Compiled(Marked, xs) /\ Alike(Marked[Len(Marked)], xs[Len(Marked)])
    BY <1>2, <2>1, <2>2, <2>3, ExpressionIs
  <2>5. Compilers(compilers) /\ IsCompiler(Current) /\ Current = compilers[n] BY NowIs
  <2> HIDE DEF xs, x, ok
  <2>6. Compilers(xs) /\ Len(xs) = n /\ Last(xs) = xs[n] BY <2>1, <2>4, CompilersAre DEF Compiled
  <2>7. es = With(xs, Emit(xs[Len(xs)], Uses[kind])) BY <2>6 DEF xs
  <2>8. AreLeading(xs, Uses[kind]) BY UsesHarmless, HarmlessLead
  <2>9. Compiled(xs, es) /\ Alike(xs[n], es[n]) BY <2>6, <2>7, <2>8, EmitLeads
  <2> HIDE DEF es
  <2>10. Alike(Mark(Current), xs[n]) BY <2>1, <2>4
  <2>11. IsCompiler(xs[n]) BY <2>10 DEF Alike
  <2>12. Keeps(Marked[n], xs[n]) /\ Keeps(xs[n], es[n]) BY <2>1, <2>9, <2>10, <2>11, AlikeKeeps
  <2> HIDE DEF n
  <2>13. Compiled(compilers, xs) BY <2>1, <2>4, <2>5, <2>12, CompiledTrans DEF n
  <2>14. Compiled(compilers, es) BY <2>5, <2>9, <2>12, <2>13, CompiledTrans DEF n
  <2>15. Alike(Current, es[n])
    <3>1. Alike(Current, xs[n]) BY <2>1, <2>5, <2>10, AlikeTrans
    <3> QED BY <2>5, <2>9, <3>1, AlikeTrans
  <2>16. Onward(compilers, es) BY <2>5, <2>14, <2>15, CompiledOnward DEF Alike, n
  <2>17. Led(es) BY <2>5, <2>14, CompiledLed
  <2> QED BY <2>15, <2>16, <2>17, StartedIs, AlikeSound DEF n
<1> HIDE DEF es, ok
<1> QED BY <1>1, <1>2, BeginSound

LEMMA ReturnHarmless ==
    /\ AreHarmless(<<Const, Op("RETURN")>>)
    /\ \A f : f.type # "initialiser" => AreHarmless(EmitReturn(f))
<1>1. "RETURN" \notin Accesses BY DEF Accesses
<1>2. AreHarmless(<<Const, Op("RETURN")>>) BY <1>1, HarmlessOps, HarmlessTuples
<1> QED BY <1>2 DEF EmitReturn

\* An initialiser returns the receiver.
LEMMA InitialiserSound ==
    ASSUME Inv, Current.type = "initialiser"
    PROVE  Sound(With(compilers, Emit(Mark(Current), EmitReturn(Current))), Started, scopes)
<1> DEFINE n == Len(compilers)
           m == Mark(Current)
           c == Current
           get == Instruction("GET_LOCAL", 0, Nowhere, c.locals[1].id)
           code == <<get, Op("RETURN")>>
           d == Emit(m, code)
           ds == With(compilers, d)
           L == Len(c.code)
<1>1. /\ Compilers(compilers) /\ c = compilers[n] /\ IsCompiler(c) BY NowIs
<1>2. Looks(m, c.type, c.locals, c.depth, c.loops, c.upvalues, c.classes) /\ m.code = c.code /\ IsCompiler(m)
  BY <1>1, MarkSame DEF Looks
<1>3. IsSeq(code) /\ Len(code) = 2 /\ code[1] = get /\ code[2] = Op("RETURN")
  <2> DEFINE S == {get, Op("RETURN")}
  <2>1. code \in Seq(S) OBVIOUS
  <2> HIDE DEF S
  <2> QED BY <2>1 DEF IsSeq
<1>4. EmitReturn(c) = code BY DEF EmitReturn
<1>5. get.op = "GET_LOCAL" /\ get.n = 0 /\ get.means = c.locals[1].id /\ Op("RETURN").op = "RETURN"
  BY DEF Instruction, Op, Plain
<1> HIDE DEF get, code, m
<1>6. SameButCode(m, d) /\ d.code = c.code \o code BY <1>2, <1>3, EmitIs
<1> HIDE DEF d, c
<1>7. IsCompiler(d) /\ d.upvalues = compilers[n].upvalues /\ d.type = c.type /\ d.locals = c.locals
      /\ Looks(d, c.type, c.locals, c.depth, c.loops, c.upvalues, c.classes)
  BY <1>1, <1>2, <1>6 DEF SameButCode, Looks
<1>8. Compilers(ds) /\ Len(ds) = n /\ ds[n] = d /\ Last(ds) = d /\ \A k \in 1..n - 1 : ds[k] = compilers[k]
  BY <1>1, <1>7, TopIs
<1> HIDE DEF ds
<1>9. Alike(c, d) BY <1>1, <1>7, LooksAlike
<1>10. Onward(compilers, ds)
  <2>1. \A k \in 1..n - 1 : IsCompiler(compilers[k])
    <3>1. \A k \in 1..n - 1 : k \in 1..n BY <1>1, CompilersAre
    <3> QED BY <1>1, <3>1, CompilersAre
  <2> QED BY <1>1, <1>7, <1>8, <2>1, AlikeRefl DEF Onward
<1>11. Led(ds)
  <2>1. IsSeq(c.code) /\ L \in Nat /\ DOMAIN c.code = 1..L BY <1>1, SeqIs DEF IsCompiler
  <2>2. /\ IsSeq(d.code) /\ Len(d.code) = L + 2 /\ DOMAIN d.code = 1..L + 2
        /\ \A i \in 1..2 : d.code[L + i] = code[i]
    <3>1. /\ IsSeq(d.code) /\ Len(d.code) = L + Len(code)
          /\ \A i \in 1..Len(code) : d.code[L + i] = code[i]
      <4> DEFINE a == c.code
      <4>1. IsSeq(a) /\ IsSeq(code) /\ d.code = a \o code BY <1>3, <1>6, <2>1
      <4> HIDE DEF a
      <4>2. /\ IsSeq(a \o code) /\ Len(a \o code) = Len(a) + Len(code)
            /\ \A i \in 1..Len(code) : (a \o code)[Len(a) + i] = code[i]
        BY <4>1, ConcatIs
      <4> QED BY <4>1, <4>2 DEF a
    <3> QED BY <1>3, <3>1, SeqIs
  <2> HIDE DEF L
  <2>3. 1 \in 1..2 /\ 2 \in 1..2 OBVIOUS
  <2>4. d.code[L + 1] = get /\ d.code[L + 2] = Op("RETURN") BY <1>3, <2>2, <2>3
  <2>5. Finds(ds, get) /\ Finds(ds, Op("RETURN"))
    <3>1. Last(ds).locals[0 + 1].id = c.locals[1].id BY <1>7, <1>8
    <3>2. Finds(ds, get) BY <1>5, <3>1 DEF Finds
    <3>3. Finds(ds, Op("RETURN")) BY <1>5 DEF Finds
    <3> QED BY <3>2, <3>3
  <2>6. ASSUME NEW pc \in DOMAIN d.code \ DOMAIN c.code PROVE Finds(ds, d.code[pc])
    <3>1. pc \in 1..L + 2 /\ pc \notin 1..L BY <2>1, <2>2, <2>6
    <3>2. pc = L + 1 \/ pc = L + 2 BY <2>1, <3>1
    <3> QED BY <2>4, <2>5, <3>2
  <2>7. n \in Nat /\ ~ (n < n) BY <1>1, CompilersAre
  <2>8. Last(compilers) = c BY DEF c, Current
  <2> QED BY <1>8, <2>6, <2>7, <2>8 DEF Led
<1>12. Sound(ds, Started, scopes) BY <1>8, <1>9, <1>10, <1>11, StartedIs, AlikeSound DEF c
<1> QED BY <1>4, <1>12 DEF ds, d, m, c

LEMMA ReturnIs == ASSUME Inv, NEW hasValue, ReturnStatement(hasValue) PROVE Inv' /\ Found
<1> DEFINE m == Mark(Current)
           ok == Current.type \notin {"script", "module"} /\ ~(hasValue /\ Current.type = "initialiser")
           code == IF hasValue THEN <<Const, Op("RETURN")>> ELSE EmitReturn(Current)
           d == Emit(m, code)
<1>1. Last(Marked) = m /\ Coded(Current, m) /\ IsCompiler(Current) /\ With(Marked, d) = With(compilers, d)
  BY MarkedIs, NowIs
<1>2. Begin("return", ok, With(compilers, d), Started, scopes) BY <1>1 DEF ReturnStatement, Statement, EmitTo
<1>3. Sound(With(compilers, d), Started, scopes)
  <2>1. CASE hasValue \/ Current.type # "initialiser"
    <3>1. AreHarmless(code) BY <2>1, ReturnHarmless
    <3> HIDE DEF code
    <3>2. Coded(Current, d) BY <1>1, <3>1, ThenEmit
    <3> HIDE DEF d
    <3> QED BY <1>1, <3>2, CodedStays, StartedIs, StaysSound
  <2>2. CASE ~ hasValue /\ Current.type = "initialiser"
    <3>1. code = EmitReturn(Current) BY <2>2
    <3> HIDE DEF code
    <3> QED BY <2>2, <3>1, InitialiserSound
  <2> QED BY <2>1, <2>2
<1> HIDE DEF ok, d
<1> QED BY <1>2, <1>3, BeginSound

-----------------------------------------------------------------------------
(* The declaration of a variable: its initialiser is compiled when the local is *)
(* there already, and cannot be used yet.                                       *)

LEMMA AppendLocal ==
    ASSUME NEW c, IsCompiler(c), NEW l, NEW d, IsSeq(d.locals), d.locals = Append(c.locals, l)
    PROVE  /\ Len(c.locals) \in Nat /\ Len(d.locals) \in Nat
           /\ Len(c.locals) <= Len(d.locals) /\ Len(d.locals) = Len(c.locals) + 1
           /\ \A i \in 1..Len(c.locals) : d.locals[i] = c.locals[i]
           /\ \A i \in 1..Len(d.locals) : i > Len(c.locals) => d.locals[i] = l
           /\ d.locals[Len(d.locals)] = l
<1> DEFINE s == c.locals
           n == Len(s)
<1>1. IsSeq(s) /\ d.locals = Append(s, l) /\ n \in Nat BY SeqIs DEF IsCompiler
<1> HIDE DEF s
<1>2. Len(d.locals) = n + 1 /\ (\A i \in 1..n : d.locals[i] = s[i]) /\ d.locals[n + 1] = l
  BY <1>1, AppendIs
<1> HIDE DEF n
<1>3. n <= n + 1 /\ n + 1 \in Nat /\ \A i \in 1..n + 1 : i > n => i = n + 1 BY <1>1
<1> QED BY <1>1, <1>2, <1>3 DEF n, s

\* What the names denote, other than the one being declared.
LEMMA PendingAgrees ==
    ASSUME Inv, NEW name, NEW id, NEW v, v = DeclareVariable(Mark(Current), name, id),
           NEW other, Nonempty(other), other # name \/ IsGlobalScope(Current)
    PROVE  AllAgree(With(Marked, v), scopes, other)
<1> DEFINE n == Len(compilers)
           m == Mark(Current)
           ds == With(Marked, v)
<1>1. /\ Compilers(Marked) /\ Len(Marked) = n /\ Marked[n] = m /\ IsCompiler(m)
  BY MarkedGrown
<1>2. AllAgree(Marked, scopes, other) BY AgreeNow
<1>3. IsSeq(Marked) /\ n \in Nat /\ n > 0 /\ n \in 1..n BY <1>1, CompilersAre
<1>4. IsGlobalScope(m) <=> IsGlobalScope(Current) BY NowIs, MarkSame DEF Looks, IsGlobalScope
<1>5. Agrees(m, scopes[n], other) BY <1>1, <1>2, <1>3 DEF AllAgree
<1> HIDE DEF m, n
<1>6. Agrees(v, scopes[n], other)
  <2>1. CASE IsGlobalScope(m)
    <3>1. v = m BY <2>1 DEF DeclareVariable, m
    <3> QED BY <1>5, <3>1
  <2>2. CASE ~ IsGlobalScope(m)
    <3>1. Looks(v, m.type, Append(m.locals, Local(name, -1, id)), m.depth, m.loops, m.upvalues, m.classes)
      BY <1>1, <2>2, DeclareIs DEF m
    <3>2. IsCompiler(v) /\ v.locals = Append(m.locals, Local(name, -1, id)) BY <3>1 DEF Looks
    <3>3. /\ Len(m.locals) <= Len(v.locals)
          /\ \A i \in 1..Len(m.locals) : v.locals[i] = m.locals[i]
          /\ \A i \in 1..Len(v.locals) : i > Len(m.locals) => v.locals[i].name = name
      <4> DEFINE l == Local(name, -1, id)
      <4>1. v.locals = Append(m.locals, l) /\ IsSeq(v.locals) BY <3>2 DEF IsCompiler
      <4>2. l.name = name BY DEF Local
      <4> HIDE DEF l
      <4> QED BY <1>1, <4>1, <4>2, AppendLocal
    <3>4. other # name BY <1>4, <2>2
    <3>5. \A i \in 1..Len(v.locals) : i > Len(m.locals) => v.locals[i].name # other BY <3>3, <3>4
    <3>6. \A i \in 1..Len(m.locals) : v.locals[i].name = m.locals[i].name /\ v.locals[i].id = m.locals[i].id
      BY <3>3
    <3> QED BY <1>1, <1>5, <3>2, <3>3, <3>5, <3>6, SameFound
  <2> QED BY <2>1, <2>2
<1>7. Len(ds) = n /\ \A k \in 1..n : ds[k] = IF k = n THEN v ELSE Marked[k]
  BY <1>1, <1>3, WithIs
<1> HIDE DEF ds
<1>8. \A k \in 1..n : Agrees(ds[k], scopes[k], other) BY <1>1, <1>2, <1>6, <1>7 DEF AllAgree
<1>9. AllAgree(ds, scopes, other) BY <1>1, <1>2, <1>7, <1>8 DEF AllAgree
<1> QED BY <1>9 DEF ds

\* A local that is declared and not initialised is not to be used.
LEMMA PendingIsNot ==
    ASSUME NEW cs, Compilers(cs), NEW c, IsCompiler(c), NEW name, NEW id,
           cs[Len(cs)].locals = Append(c.locals, Local(name, -1, id))
    PROVE  ~ Resolve(cs, name).ok
<1> DEFINE d == cs[Len(cs)]
           own == FindLocal(d, name)
           L == Len(d.locals)
           l == Local(name, -1, id)
<1>1. Last(cs) = d /\ IsCompiler(d) /\ IsSeq(d.locals) BY CompilersAre
<1>2. l.name = name /\ l.depth = -1 BY DEF Local
<1>3. d.locals = Append(c.locals, l) OBVIOUS
<1> HIDE DEF d, l
<1>4. L = Len(c.locals) + 1 /\ d.locals[L] = l /\ Len(c.locals) \in Nat BY <1>1, <1>3, AppendLocal
<1>5. own \in 0..L /\ \A i \in 1..L : d.locals[i].name = name => i <= own BY <1>1, FindLocalIs
<1>6. own = L /\ own > 0
  <2> HIDE DEF own, L
  <2>1. L \in 1..L BY <1>4
  <2> QED BY <1>2, <1>4, <1>5, <2>1
<1>7. PICK b : b = (d.locals[own].depth # -1) OBVIOUS
<1>8. ~ b BY <1>2, <1>4, <1>6, <1>7
<1>9. FindLocal(Last(cs), name) = own BY <1>1
<1>10. Resolve(cs, name) = [where |-> "local", n |-> own - 1, cs |-> cs, ok |-> b]
  BY <1>1, <1>6, <1>7, <1>9 DEF Resolve
<1> QED BY <1>8, <1>10

LEMMA VarIs ==
    ASSUME Inv, NEW name \in source.names, NEW e \in source.expressions, VarDeclaration(name, e)
    PROVE  Inv' /\ Found
<1> DEFINE n == Len(compilers)
           c == Current
           m == Mark(c)
           id == Declaration(name)
           v == DeclareVariable(Last(Marked), name, id)
           declared == With(Marked, v)
           x == Expression(declared, e)
           xs == x.cs
           f == DefineVariable(Last(xs), name)
           es == With(xs, f)
           ok == CanDeclare(Current, name) /\ x.ok
<1>1. Begin("let", ok, es, Started, Bound(name)) BY DEF VarDeclaration, Declare
<1>2. ASSUME ok PROVE Sound(es, Started, Bound(name))
  <2>1. /\ Compiled(compilers, Marked) /\ Compilers(Marked) /\ Len(Marked) = n
        /\ Marked[n] = m /\ Alike(c, m) /\ IsCompiler(m) /\ Last(Marked) = m
    BY MarkedGrown, MarkedIs
  <2>2. Compilers(compilers) /\ IsCompiler(c) /\ c = compilers[n] /\ Scoped(c, Last(scopes)) BY NowIs
  <2>3. Coded(c, m) BY MarkedIs
  <2>4. PICK t : Bound(name) = With(scopes, t) /\ Binds(c, Last(scopes), t, name, id)
    BY BoundIs
  <2>5. /\ IsGlobalScope(m) <=> IsGlobalScope(c)
        /\ CanDeclare(m, name) /\ Binds(m, Last(scopes), t, name, id)
    BY <1>2, <2>3, <2>4, CodedSame
  <2>6. v = DeclareVariable(m, name, id) BY <2>1
  <2> HIDE DEF id
  <2>7. IsExpression(e) /\ Nonempty(e.name) /\ Nonempty("this") /\ Nonempty("super")
        /\ name # "this" /\ name # "super"
    BY SourceIs
  <2>8. x.ok BY <1>2
  <2> HIDE DEF v, ok
  <2>9. /\ IsCompiler(v) /\ v.upvalues = m.upvalues /\ v.type = m.type /\ v.code = m.code
        /\ Shape(v) = Shape(m)
        /\ IF IsGlobalScope(m) THEN v = m ELSE v.locals = Append(m.locals, Local(name, -1, id))
    <3>1. CASE IsGlobalScope(m)
      <4>1. v = m BY <2>6, <3>1 DEF DeclareVariable
      <4> QED BY <2>1, <3>1, <4>1
    <3>2. CASE ~ IsGlobalScope(m)
      <4>1. /\ Looks(v, m.type, Append(m.locals, Local(name, -1, id)), m.depth, m.loops, m.upvalues, m.classes)
            /\ v.code = m.code
        BY <2>1, <2>6, <3>2, DeclareIs
      <4>2. Shape(v) = Shape(m) BY <4>1, ShapeSame DEF Looks
      <4> QED BY <3>2, <4>1, <4>2 DEF Looks
    <3> QED BY <3>1, <3>2
  <2>10. Compiled(Marked, declared) /\ declared[n] = v
    <3>1. AreHarmless(<<>>) BY HarmlessTuples
    <3> HIDE DEF m
    <3> QED BY <2>1, <2>9, <3>1, TopCompiled
  <2>11. Compilers(declared) /\ Len(declared) = n BY <2>1, <2>10 DEF Compiled
  <2>12. AllAgree(declared, scopes, "this") /\ AllAgree(declared, scopes, "super")
    BY <2>6, <2>7, PendingAgrees
  <2>13. AllAgree(declared, scopes, e.name) \/ ~ Resolve(declared, e.name).ok
    <3>1. CASE e.name # name \/ IsGlobalScope(c)
      BY <2>6, <2>7, <3>1, PendingAgrees
    <3>2. CASE e.name = name /\ ~ IsGlobalScope(c)
      <4>1. declared[Len(declared)].locals = Append(m.locals, Local(name, -1, id))
        BY <2>5, <2>9, <2>10, <2>11, <3>2
      <4> HIDE DEF declared, m
      <4> QED BY <2>1, <2>11, <3>2, <4>1, PendingIsNot
    <3> QED BY <3>1, <3>2
  <2> HIDE DEF declared
  <2>14. Compiled(declared, xs) /\ Alike(v, xs[n])
    BY <2>7, <2>8, <2>10, <2>11, <2>12, <2>13, ExpressionIs
  <2> HIDE DEF xs, x
  <2>15. Compilers(xs) /\ Len(xs) = n /\ Last(xs) = xs[n] BY <2>11, <2>14, CompilersAre DEF Compiled
  <2> DEFINE y == xs[n]
  <2>16. /\ IsCompiler(y) /\ f = DefineVariable(y, name) /\ es = With(xs, f) /\ y.type = v.type
         /\ Shape(y) = Shape(v) /\ MoreUpvalues(v, y)
    BY <2>14, <2>15 DEF Alike
  <2>17. ~ IsGlobalScope(y) => Len(y.locals) > 0
    <3>1. y.depth = m.depth
      <4>1. Shape(y) = Shape(m) BY <2>9, <2>16
      <4> HIDE DEF y, m
      <4>2. IsCompiler(y) /\ IsCompiler(m) BY <2>1, <2>16
      <4> QED BY <4>1, <4>2, ShapeIs
    <3>2. y.type = m.type BY <2>9, <2>16
    <3>3. Len(y.locals) = Len(v.locals) BY <2>14 DEF Alike, SameLocals
    <3> HIDE DEF y, m
    <3>4. IsGlobalScope(y) <=> IsGlobalScope(m) BY <3>1, <3>2 DEF IsGlobalScope
    <3>5. ~ IsGlobalScope(m) => Len(v.locals) = Len(m.locals) + 1
      <4>1. IsSeq(v.locals) BY <2>9 DEF IsCompiler
      <4> QED BY <2>1, <2>9, <4>1, AppendLocal
    <3>6. Len(m.locals) \in Nat BY <2>1, SeqIs DEF IsCompiler
    <3> QED BY <3>3, <3>4, <3>5, <3>6
  <2> HIDE DEF f, es, y
  <2>18. /\ Looks(f, y.type, f.locals, y.depth, y.loops, y.upvalues, y.classes)
         /\ IF IsGlobalScope(y) THEN f.locals = y.locals /\ f.code = y.code \o <<Op("DEFINE_GLOBAL")>>
                                ELSE LastMarked(y, f) /\ f.code = y.code
    BY <2>16, <2>17, DefineIs
  <2>19. Adds(m, f, name, id) BY <2>1, <2>6, <2>14, <2>18, AddsIs DEF y
  <2>20. Scoped(m, Last(scopes)) BY <2>1, <2>2, AlikeScoped
  <2>21. Scoped(f, t) BY <2>1, <2>5, <2>19, <2>20, AddsScoped
  <2>22. /\ IsCompiler(f) /\ f.upvalues = y.upvalues /\ f.type = y.type
         /\ Len(f.locals) = Len(y.locals) /\ \A i \in 1..Len(y.locals) : f.locals[i].id = y.locals[i].id
    BY <2>18 DEF Looks, LastMarked
  <2>23. Compiled(xs, es) /\ es[n] = f
    <3>1. "DEFINE_GLOBAL" \notin Accesses BY DEF Accesses
    <3>2. AreHarmless(<<Op("DEFINE_GLOBAL")>>) BY <3>1, SingleHarmless
    <3> DEFINE code == <<Op("DEFINE_GLOBAL")>>
    <3>3. f.code = y.code \/ f.code = y.code \o code BY <2>18
    <3> HIDE DEF code
    <3>4. y = xs[Len(xs)] /\ AreHarmless(code) BY <2>15, <3>2 DEF y, code
    <3>5. /\ f.upvalues = xs[Len(xs)].upvalues
          /\ f.code = xs[Len(xs)].code \/ f.code = xs[Len(xs)].code \o code
      BY <2>22, <3>3, <3>4
    <3>6. Compiled(xs, With(xs, f)) /\ With(xs, f)[Len(xs)] = f
      BY <2>15, <2>22, <3>4, <3>5, TopCompiled
    <3> QED BY <2>15, <2>16, <3>6
  <2>24. Keeps(v, y) BY <2>9, <2>14, AlikeKeeps DEF y
  <2>25. Keeps(y, f)
    <3>1. Len(y.locals) \in Nat /\ Len(y.upvalues) \in Nat BY <2>16, SeqIs DEF IsCompiler
    <3> QED BY <2>22, <3>1 DEF Keeps, MoreUpvalues
  <2>26. Keeps(m, v)
    <3>1. Len(m.locals) \in Nat /\ Len(m.upvalues) \in Nat BY <2>1, SeqIs DEF IsCompiler
    <3>2. CASE IsGlobalScope(m)
      BY <2>9, <3>1, <3>2 DEF Keeps, MoreUpvalues
    <3>3. CASE ~ IsGlobalScope(m)
      <4> HIDE DEF m
      <4>1. Len(m.locals) <= Len(v.locals) /\ \A i \in 1..Len(m.locals) : v.locals[i] = m.locals[i]
        <5>1. IsSeq(v.locals) BY <2>9 DEF IsCompiler
        <5> QED BY <2>1, <2>9, <3>3, <5>1, AppendLocal
      <4> QED BY <2>9, <3>1, <4>1 DEF Keeps, MoreUpvalues
    <3> QED BY <3>2, <3>3
  <2> HIDE DEF n, m, c
  <2>27. Compiled(compilers, declared) BY <2>1, <2>2, <2>10, <2>26, CompiledTrans DEF n
  <2>28. Compiled(compilers, xs) BY <2>2, <2>10, <2>14, <2>24, <2>27, CompiledTrans DEF n, y
  <2>29. Compiled(compilers, es) BY <2>2, <2>23, <2>25, <2>28, CompiledTrans DEF n, y
  <2>30. f.type = c.type /\ Shape(f) = Shape(c)
    <3>1. Shape(f) = Shape(m) BY <2>19 DEF Adds
    <3> QED BY <2>1, <2>9, <2>16, <2>22, <3>1 DEF Alike
  <2>31. Onward(compilers, es) BY <2>2, <2>23, <2>29, <2>30, CompiledOnward DEF n
  <2>32. Led(es) BY <2>2, <2>29, CompiledLed
  <2>33. Scoping(compilers, scopes) /\ Nesting(compilers, parsing) /\ SameCalls(parsing, Started)
    BY StartedIs DEF Inv
  <2>34. Shape(es[n]) = Shape(compilers[n]) /\ Scoped(es[n], t) BY <2>2, <2>21, <2>23, <2>30
  <2>35. Scoping(es, With(scopes, t)) /\ Nesting(es, Started) BY <2>31, <2>33, <2>34, KeptIs DEF n
  <2> QED BY <2>4, <2>32, <2>35 DEF Sound
<1> HIDE DEF es, ok
<1> QED BY <1>1, <1>2, BeginSound

-----------------------------------------------------------------------------
(* For loops.                                                                *)

\* Any name may be declared in a scope that has just been opened.
LEMMA FreshScope ==
    ASSUME NEW c, NEW s, NEW e, NEW name, IsCompiler(c), Scoped(c, s), e.locals = c.locals, e.depth = c.depth + 1
    PROVE  CanDeclare(e, name) /\ ~ IsGlobalScope(e)
<1> DEFINE D == c.depth
<1>1. D \in Nat /\ DOMAIN c.locals = 1..Len(c.locals) BY SeqIs DEF IsCompiler
<1>2. \A i \in 1..Len(c.locals) : c.locals[i].depth \in 0..D BY DEF Scoped, Ordered
<1>3. \A x \in 0..D : x # -1 /\ x # D + 1 BY <1>1
<1>4. e.depth = D + 1 OBVIOUS
<1> HIDE DEF D
<1>5. \A i \in DOMAIN e.locals : e.locals[i].depth \notin {-1, e.depth} BY <1>1, <1>2, <1>3, <1>4
<1>6. InThisScope(e) = {} BY <1>5 DEF InThisScope
<1>7. D + 1 # 0 BY <1>1
<1>8. ~ IsGlobalScope(e) BY <1>4, <1>7 DEF IsGlobalScope
<1> QED BY <1>6, <1>8 DEF CanDeclare

LEMMA OnlyBinds ==
    ASSUME NEW s, IsSeq(s), NEW name, NEW id
    PROVE  Bindings(Append(s, <<>>), Append(s, Only(name, id)), name, id)
<1> DEFINE n == Len(s)
           a == Append(s, <<>>)
           b == Append(s, Only(name, id))
           o == Only(name, id)
<1>1. DOMAIN o = {name} /\ \A x \in {name} : o[x] = id BY DEF Only
<1> HIDE DEF o
<1>2. /\ IsSeq(a) /\ Len(a) = n + 1 /\ a[n + 1] = <<>> /\ \A i \in 1..n : a[i] = s[i]
      /\ n \in Nat
  BY AppendIs, SeqIs
<1>3. IsSeq(b) /\ Len(b) = n + 1 /\ b[n + 1] = o /\ \A i \in 1..n : b[i] = s[i]
  <2>1. b = Append(s, o) BY DEF o
  <2> HIDE DEF b
  <2> QED BY <2>1, AppendIs
<1> HIDE DEF a, b, n
<1>4. Len(a) = Len(b) /\ \A k \in 1..Len(a) - 1 : b[k] = a[k]
  <2>1. \A k \in 1..n + 1 - 1 : k \in 1..n BY <1>2
  <2> QED BY <1>2, <1>3, <2>1
<1>5. DOMAIN a[n + 1] = {}
  <2>1. DOMAIN <<>> = {} OBVIOUS
  <2> QED BY <1>2, <2>1
<1>6. /\ DOMAIN b[Len(a)] = DOMAIN a[Len(a)] \cup {name}
      /\ \A x \in DOMAIN b[Len(a)] : b[Len(a)][x] = IF x = name THEN id ELSE a[Len(a)][x]
  BY <1>1, <1>2, <1>3, <1>5
<1>7. Bindings(a, b, name, id) BY <1>3, <1>4, <1>6 DEF Bindings
<1> QED BY <1>7 DEF a, b

LEMMA DeclaredCompiler ==
    ASSUME NEW d, IsCompiler(d), NEW name, NEW id
    PROVE  IsCompiler(DeclareVariable(d, name, id))
<1>1. CASE IsGlobalScope(d) BY <1>1 DEF DeclareVariable
<1>2. CASE ~ IsGlobalScope(d) BY <1>2, DeclareIs DEF Looks
<1> QED BY <1>1, <1>2

\* A variable declared alone in the scope that has just been opened for it.
LEMMA FirstFollows ==
    ASSUME Inv, NEW b, NEW s, IsSeq(s), Follows(b, Append(s, <<>>)), NEW name, NEW id,
           CanDeclare(b, name), ~ IsGlobalScope(b), NEW w, Coded(DeclareVariable(b, name, id), w)
    PROVE  LET e == DefineVariable(w, name) IN
           Follows(e, Append(s, Only(name, id))) /\ Shape(e) = Shape(b) /\ IsCompiler(e)
<1> DEFINE s1 == Append(s, <<>>)
           t == Append(s, Only(name, id))
<1>1. Bindings(s1, t, name, id) BY OnlyBinds
<1>2. Follows(b, s1) OBVIOUS
<1> HIDE DEF s1, t
<1>3. Binds(b, s1, t, name, id) BY <1>1 DEF Binds
<1>4. LET e == DefineVariable(w, name) IN Follows(e, t) /\ Shape(e) = Shape(b) /\ IsCompiler(e)
  BY <1>2, <1>3, DefineFollows
<1> QED BY <1>4 DEF t

LEMMA InitialisedFollows ==
    ASSUME Inv, NEW b, NEW s, IsSeq(s), Follows(b, Append(s, <<>>)), NEW name, NEW id,
           CanDeclare(b, name), ~ IsGlobalScope(b)
    PROVE  LET e == Initialised(b, name, id)
               t == IF name \in {"none", "expression"} THEN Append(s, <<>>) ELSE Append(s, Only(name, id))
           IN Follows(e, t) /\ Shape(e) = Shape(b) /\ IsCompiler(e)
<1> DEFINE e == Initialised(b, name, id)
           t == IF name \in {"none", "expression"} THEN Append(s, <<>>) ELSE Append(s, Only(name, id))
<1>1. IsCompiler(b) BY DEF Follows
<1>2. CASE name = "none"
  <2>1. e = b BY <1>2 DEF Initialised
  <2> QED BY <1>1, <1>2, <2>1
<1>3. CASE name = "expression"
  <2> DEFINE code == <<Const, Op("POP")>>
  <2>1. e = Emit(b, code) BY <1>3 DEF Initialised
  <2>2. AreHarmless(code)
    <3>1. "POP" \notin Accesses BY DEF Accesses
    <3> QED BY <3>1, HarmlessOps, HarmlessTuples
  <2> HIDE DEF code, e
  <2>3. Coded(b, e) BY <1>1, <2>1, <2>2, EmitCoded
  <2>4. Follows(e, Append(s, <<>>)) /\ Shape(e) = Shape(b) BY <2>3, CodedFollowsOn
  <2>5. IsCompiler(e) BY <2>3 DEF Coded, SameButCode
  <2>6. t = Append(s, <<>>) BY <1>3
  <2> QED BY <2>4, <2>5, <2>6 DEF e
<1>4. CASE name \notin {"none", "expression"}
  <2> DEFINE v == DeclareVariable(b, name, id)
             w == Emit(v, <<Const>>)
  <2>1. e = DefineVariable(w, name) BY <1>4 DEF Initialised
  <2>2. IsCompiler(v) BY <1>1, DeclaredCompiler
  <2>3. AreHarmless(<<Const>>) BY HarmlessOps, HarmlessTuples
  <2>4. Coded(v, w)
    <3> HIDE DEF v
    <3> QED BY <2>2, <2>3, EmitCoded
  <2>5. t = Append(s, Only(name, id)) BY <1>4
  <2> HIDE DEF w, t, e
  <2>6. LET x == DefineVariable(w, name) IN
        Follows(x, Append(s, Only(name, id))) /\ Shape(x) = Shape(b) /\ IsCompiler(x)
    BY <2>4, FirstFollows
  <2> QED BY <2>1, <2>5, <2>6 DEF e, t
<1> QED BY <1>2, <1>3, <1>4

LEMMA OpenedAt ==
    ASSUME Inv, NEW d, Coded(Current, d)
    PROVE  LET b == BeginScope(d)
               f == Shape(Current)
           IN /\ Follows(b, Append(Last(scopes), <<>>)) /\ IsCompiler(b)
              /\ Shape(b) = Frame(f.depth + 1, f.classes, f.loops) /\ GoodFrame(Shape(b))
              /\ \A name : CanDeclare(b, name)
              /\ ~ IsGlobalScope(b)
<1> DEFINE b == BeginScope(d)
<1>1. Follows(d, Last(scopes)) /\ Shape(d) = Shape(Current) /\ IsCompiler(d) BY CodedFollows
<1>2. GoodFrame(Shape(d)) BY <1>1, NowIs
<1>3. /\ Follows(b, Append(Last(scopes), <<>>))
      /\ Shape(b) = Frame(Shape(d).depth + 1, Shape(d).classes, Shape(d).loops) /\ GoodFrame(Shape(b))
      /\ Looks(b, d.type, d.locals, d.depth + 1, d.loops, d.upvalues, d.classes)
  BY <1>1, <1>2, ScopeOpened
<1> HIDE DEF b
<1>4. Scoped(d, Last(scopes)) BY <1>1 DEF Follows
<1>5. IsCompiler(b) /\ b.locals = d.locals /\ b.depth = d.depth + 1 BY <1>3 DEF Looks
<1>6. (\A name : CanDeclare(b, name)) /\ ~ IsGlobalScope(b) BY <1>1, <1>4, <1>5, FreshScope
<1> QED BY <1>1, <1>3, <1>5, <1>6 DEF b

LEMMA GuardOrNot ==
    ASSUME NEW first, IsCompiler(first), NEW hasCondition, NEW hasIncrement, NEW x, NEW y
    PROVE  LET tested == IF hasCondition THEN Guard(first) ELSE first
               stepped == Emit(tested, <<Goto("JUMP", x), Const, Op("POP"), Goto("LOOP", y)>>)
               d == IF hasIncrement THEN stepped ELSE tested
           IN Coded(first, d) /\ IsCompiler(d)
<1> DEFINE tested == IF hasCondition THEN Guard(first) ELSE first
           code == <<Goto("JUMP", x), Const, Op("POP"), Goto("LOOP", y)>>
           stepped == Emit(tested, code)
           d == IF hasIncrement THEN stepped ELSE tested
<1>1. Coded(first, tested) BY GuardCoded, CodedRefl
<1>2. AreHarmless(code)
  <2>1. "JUMP" \notin Accesses /\ "POP" \notin Accesses /\ "LOOP" \notin Accesses BY DEF Accesses
  <2>2. Harmless(Goto("JUMP", x)) /\ Harmless(Const) /\ Harmless(Op("POP")) /\ Harmless(Goto("LOOP", y))
    BY <2>1, HarmlessOps
  <2> QED BY <2>2, HarmlessTuples
<1> HIDE DEF code, tested
<1>3. Coded(first, stepped) BY <1>1, <1>2, ThenEmit
<1>4. d = stepped \/ d = tested OBVIOUS
<1> HIDE DEF stepped, d
<1>5. Coded(first, d) BY <1>1, <1>3, <1>4
<1> QED BY <1>5 DEF d, stepped, tested, code, Coded, SameButCode

LEMMA ForIs ==
    ASSUME Inv, NEW name \in source.names \cup {"none", "expression"}, NEW hasCondition, NEW hasIncrement,
           ForStatement(name, hasCondition, hasIncrement)
    PROVE  Inv' /\ Found
<1> DEFINE m == Mark(Current)
           b == BeginScope(Last(Marked))
           id == Declaration(name)
           first == Initialised(b, name, id)
           tested == IF hasCondition THEN Guard(first) ELSE first
           increment == Here(tested) + 1
           stepped == Emit(tested, <<Goto("JUMP", increment + 3), Const, Op("POP"), Goto("LOOP", Here(first))>>)
           start == IF hasIncrement THEN increment ELSE Here(first)
           d == IF hasIncrement THEN stepped ELSE tested
           top == PushLoop(d, start)
           s == Last(scopes)
           t == IF name \in {"none", "expression"} THEN Append(s, <<>>) ELSE Append(s, Only(name, id))
           p == AtLoop("for", start, IF hasCondition THEN GuardJump(first) ELSE Nowhere)
           f == Shape(Current)
<1>1. /\ Last(Marked) = m /\ Coded(Current, m) /\ With(Marked, top) = With(compilers, top)
  BY MarkedIs
<1>2. Opened(scopes, IF name \in source.names THEN Only(name, id) ELSE <<>>) = With(scopes, t)
  <2>1. name \in source.names <=> name \notin {"none", "expression"} BY SourceIs
  <2> HIDE DEF id
  <2>2. CASE name \in source.names BY <2>1, <2>2 DEF Opened
  <2>3. CASE name \notin source.names BY <2>1, <2>3 DEF Opened
  <2> QED BY <2>2, <2>3
<1>3. Begin("for", TRUE, With(compilers, top), Append(Started, p), With(scopes, t))
  <2>1. Statement("for", TRUE, With(Marked, top), Waiting(p),
                  Opened(scopes, IF name \in source.names THEN Only(name, id) ELSE <<>>))
    BY DEF ForStatement
  <2> HIDE DEF top, p, t, id
  <2> QED BY <1>1, <1>2, <2>1 DEF Statement, Waiting
<1>4. IsCall(p) /\ p.at = "for" /\ p.at \in Kinds
  <2> HIDE DEF start
  <2> QED BY AtLoopIs DEF Kinds
<1> HIDE DEF p
<1>5. /\ Follows(b, Append(s, <<>>)) /\ IsCompiler(b)
      /\ Shape(b) = Frame(f.depth + 1, f.classes, f.loops) /\ GoodFrame(Shape(b))
      /\ CanDeclare(b, name) /\ ~ IsGlobalScope(b)
  BY <1>1, OpenedAt
<1>6. IsSeq(s) BY NowIs DEF Scoped
<1> HIDE DEF b, m, s, id
<1>7. Follows(first, t) /\ Shape(first) = Shape(b) /\ IsCompiler(first) BY <1>5, <1>6, InitialisedFollows
<1>8. Coded(first, d) /\ IsCompiler(d)
  <2> HIDE DEF first, increment
  <2> QED BY <1>7, GuardOrNot
<1> HIDE DEF first, t, start, d
<1>9. Follows(d, t) /\ Shape(d) = Shape(b) BY <1>7, <1>8, CodedFollowsOn
<1>10. /\ Looks(top, d.type, d.locals, d.depth, top.loops, d.upvalues, d.classes)
       /\ top.code = d.code /\ GoodFrame(Shape(top))
       /\ Shape(top) = Frame(Shape(d).depth, Shape(d).classes, Append(Shape(d).loops, Shape(d).depth))
  BY <1>5, <1>8, <1>9, LoopOpened
<1> HIDE DEF top
<1>11. Longer(d, top) BY <1>8, <1>10, LongerSame
<1>12. Follows(top, t) BY <1>9, <1>10, <1>11, FollowsLoop
<1>13. Inside(p.at, f, Shape(top))
  <2> HIDE DEF f
  <2>1. /\ Shape(b).depth = f.depth + 1 /\ Shape(b).classes = f.classes /\ Shape(b).loops = f.loops
    BY <1>5 DEF Frame
  <2>2. Shape(top) = Frame(f.depth + 1, f.classes, Append(f.loops, f.depth + 1)) BY <1>9, <1>10, <2>1
  <2> QED BY <1>4, <2>2 DEF Inside
<1>14. Sound(With(compilers, top), Append(Started, p), With(scopes, t))
  BY <1>4, <1>10, <1>12, <1>13, StartedIs, OpenSound
<1> QED BY <1>3, <1>14, BeginSound

LEMMA EndForIs == ASSUME Inv, EndFor PROVE Inv' /\ Found
<1> DEFINE d == Repeat(Current, Open.start, Open.exit)
           e == LeaveLoop(d)
           top == EndScope(e)
           s == Last(scopes)
           g == Shape(Current)
<1>1. Resume("for", TRUE, top, Front(parsing), With(scopes, Front(s))) BY DEF EndFor, Left
<1>2. Open.at = "for" BY <1>1 DEF Resume
<1>3. Coded(Current, d) BY NowIs, RepeatCoded
<1> HIDE DEF d
<1>4. Follows(d, s) /\ Shape(d) = g /\ IsCompiler(d) BY <1>3, CodedFollows
<1> HIDE DEF s
<1>5. ASSUME NEW f, GoodFrame(f), Inside(Open.at, f, g)
      PROVE  /\ Looks(e, d.type, d.locals, d.depth, e.loops, d.upvalues, d.classes)
             /\ Longer(d, e) /\ Shape(e) = Frame(f.depth + 1, f.classes, f.loops)
             /\ e.depth > 0
  <2>1. g = Frame(f.depth + 1, f.classes, Append(f.loops, f.depth + 1)) BY <1>2, <1>5 DEF Inside
  <2> HIDE DEF g
  <2>2. /\ Shape(d).loops = Append(f.loops, f.depth + 1) /\ Shape(d).depth = f.depth + 1
        /\ Shape(d).classes = f.classes
    BY <1>4, <2>1 DEF Frame
  <2>3. IsSeq(f.loops) /\ f.depth \in Nat BY <1>5 DEF GoodFrame
  <2>4. /\ Looks(e, d.type, d.locals, d.depth, e.loops, d.upvalues, d.classes)
        /\ Longer(d, e) /\ Shape(e) = Frame(d.depth, d.classes, f.loops)
    BY <1>4, <2>2, <2>3, LeaveLoopIs
  <2>5. d.depth = f.depth + 1 /\ d.classes = f.classes BY <1>4, <2>2, ShapeIs
  <2>6. e.depth = d.depth BY <2>4 DEF Looks
  <2>7. f.depth + 1 > 0 BY <2>3
  <2> QED BY <2>4, <2>5, <2>6, <2>7
<1> HIDE DEF e
<1>6. PICK f : GoodFrame(f) /\ Inside(Open.at, f, g) BY OpenIs
<1>7. Follows(e, s) /\ e.depth > 0 BY <1>4, <1>5, <1>6, FollowsLoop
<1>8. /\ Follows(top, Front(s))
      /\ Shape(top) = Frame(Shape(e).depth - 1, Shape(e).classes, Shape(e).loops)
  BY <1>7, ScopeClosed
<1> HIDE DEF top
<1>9. \A h : GoodFrame(h) /\ Inside(Open.at, h, g) => Shape(top) = h BY <1>5, <1>8, FrameAround
<1> HIDE DEF g
<1>10. Rests(top, Front(parsing), With(scopes, Front(s)))
  BY <1>2, <1>8, <1>9, CloseSound DEF g
<1> QED BY <1>1, <1>10, ResumeSound

-----------------------------------------------------------------------------
(* Try statements.                                                           *)

LEMMA TryIs == ASSUME Inv, TryStatement PROVE Inv' /\ Found
<1> DEFINE m == Mark(Current)
           code == <<Goto("JUMP", Nowhere), Plain("REGISTER_CATCH", 0)>>
           d == Emit(m, code)
           top == BeginScope(d)
           t == Append(Last(scopes), <<>>)
           p == [At("try") EXCEPT !.initial = Here(Current)]
           f == Shape(Current)
<1>1. /\ Last(Marked) = m /\ Coded(Current, m) /\ IsCompiler(Current)
      /\ With(Marked, top) = With(compilers, top)
  BY MarkedIs, NowIs
<1>2. Begin("try", TRUE, With(compilers, top), Append(Started, p), With(scopes, t))
  BY <1>1 DEF TryStatement, Statement, Waiting, Opened
<1>3. Coded(Current, d)
  <2>1. "JUMP" \notin Accesses /\ "REGISTER_CATCH" \notin Accesses BY DEF Accesses
  <2>2. AreHarmless(code) BY <2>1, HarmlessOps, HarmlessTuples
  <2> HIDE DEF code
  <2> QED BY <1>1, <2>2, ThenEmit
<1>4. IsCall(p) /\ p.at = "try" /\ p.at \in Kinds BY AtIs DEF Kinds
<1> HIDE DEF d, p
<1>5. Follows(top, t) /\ Shape(top) = Frame(f.depth + 1, f.classes, f.loops) /\ GoodFrame(Shape(top))
  BY <1>3, OpenedAt
<1> HIDE DEF top, t
<1>6. Inside(p.at, f, Shape(top)) BY <1>4, <1>5 DEF Inside
<1>7. Sound(With(compilers, top), Append(Started, p), With(scopes, t))
  BY <1>4, <1>5, <1>6, StartedIs, OpenSound
<1> QED BY <1>2, <1>7, BeginSound

LEMMA EndTryIs == ASSUME Inv, EndTryWithoutCatch PROVE Inv' /\ Found
<1> DEFINE ended == EndScope(Current)
           jumped == Emit(ended, <<Goto("JUMP", Nowhere)>>)
           caught == Caught(jumped, Open.initial, 0)
           popped == Emit(caught, <<Op("POP")>>)
           top == EndHandler(popped, Here(ended))
           s == Front(Last(scopes))
<1>1. Resume("try", TRUE, top, Front(parsing), With(scopes, s)) BY DEF EndTryWithoutCatch, Left
<1>2. Open.at = "try" BY <1>1 DEF Resume
<1>3. Coded(Current, Current) BY NowIs, CodedRefl
<1>4. /\ Follows(ended, s)
      /\ \A f : GoodFrame(f) /\ Inside(Open.at, f, Shape(Current)) => Shape(ended) = f
  BY <1>2, <1>3, ScopeEnds
<1> HIDE DEF s
<1>5. Coded(ended, top)
  <2>1. IsCompiler(ended) BY <1>4 DEF Follows
  <2> HIDE DEF ended
  <2>2. "JUMP" \notin Accesses /\ "POP" \notin Accesses BY DEF Accesses
  <2>3. AreHarmless(<<Goto("JUMP", Nowhere)>>) /\ AreHarmless(<<Op("POP")>>) BY <2>2, SingleHarmless
  <2>4. Coded(ended, jumped) BY <2>1, <2>3, EmitCoded
  <2>5. IsCompiler(jumped) BY <2>4 DEF Coded, SameButCode
  <2> HIDE DEF jumped
  <2>6. Coded(jumped, caught) BY <2>5, CaughtCoded
  <2> HIDE DEF caught
  <2>7. Coded(ended, caught) BY <2>1, <2>4, <2>6, CodedTrans
  <2>8. Coded(ended, popped) BY <2>1, <2>3, <2>7, ThenEmit
  <2> HIDE DEF popped
  <2>9. Coded(popped, top) BY <2>8, EndHandlerCoded DEF Coded, SameButCode
  <2> QED BY <2>1, <2>8, <2>9, CodedTrans
<1> HIDE DEF ended, top
<1>6. Follows(top, s) /\ Shape(top) = Shape(ended) BY <1>4, <1>5, CodedFollowsOn
<1>7. Rests(top, Front(parsing), With(scopes, s)) BY <1>2, <1>4, <1>6, CloseSound
<1> QED BY <1>1, <1>7, ResumeSound

LEMMA EndCatchIs == ASSUME Inv, EndCatch PROVE Inv' /\ Found
<1> DEFINE ended == EndScope(Current)
           top == EndHandler(ended, Open.out)
           s == Front(Last(scopes))
<1>1. Resume("handler", TRUE, top, Front(parsing), With(scopes, s)) BY DEF EndCatch, Left
<1>2. Open.at = "handler" BY <1>1 DEF Resume
<1>3. Coded(Current, Current) BY NowIs, CodedRefl
<1>4. /\ Follows(ended, s)
      /\ \A f : GoodFrame(f) /\ Inside(Open.at, f, Shape(Current)) => Shape(ended) = f
  BY <1>2, <1>3, ScopeEnds
<1> HIDE DEF s
<1>5. Coded(ended, top) BY <1>4, EndHandlerCoded DEF Follows
<1> HIDE DEF ended, top
<1>6. Follows(top, s) /\ Shape(top) = Shape(ended) BY <1>4, <1>5, CodedFollowsOn
<1>7. Rests(top, Front(parsing), With(scopes, s)) BY <1>2, <1>4, <1>6, CloseSound
<1> QED BY <1>1, <1>7, ResumeSound

\* The handler begins where the scope of the body has ended.
LEMMA CatchIs ==
    ASSUME Inv, NEW n \in source.counts, NEW name \in source.names \cup {"none"}, CatchClause(n, name)
    PROVE  Inv' /\ Found
<1> DEFINE ended == EndScope(Current)
           jumped == Emit(ended, <<Goto("JUMP", Nowhere)>>)
           b == BeginScope(jumped)
           top == Caught(b, Open.initial, n)
           id == <<Len(compilers), Here(top), name>>
           v == DeclareVariable(top, name, id)
           bound == IF name = "none" THEN Emit(top, <<Op("POP")>>) ELSE DefineVariable(v, name)
           s == Front(Last(scopes))
           u == IF name = "none" THEN Append(s, <<>>) ELSE Append(s, Only(name, id))
           p == [At("handler") EXCEPT !.out = Here(ended)]
           ok == n <= UINT8_MAX
           ss == Opened(Left(scopes), IF name = "none" THEN <<>> ELSE Only(name, id))
<1>1. Resume("try", ok, bound, Append(Front(parsing), p), ss) BY DEF CatchClause
<1>2. Open.at = "try" BY <1>1 DEF Resume
<1>3. ss = With(scopes, u)
  <2> DEFINE ls == With(scopes, s)
             o == IF name = "none" THEN <<>> ELSE Only(name, id)
  <2>1. IsSeq(scopes) /\ Len(scopes) > 0 BY NowIs
  <2>2. Last(ls) = s
    <3> HIDE DEF s
    <3> QED BY <2>1, WithIs
  <2>3. ss = With(ls, Append(Last(ls), o)) BY DEF Opened, Left
  <2>4. Append(s, o) = u
    <3> HIDE DEF id, s
    <3> QED OBVIOUS
  <2> HIDE DEF s, u, o
  <2>5. With(ls, u) = With(scopes, u) BY <2>1, WithWith
  <2> QED BY <2>2, <2>3, <2>4, <2>5
<1>4. IsCall(p) /\ p.at = "handler" /\ p.at \in Kinds BY AtIs DEF Kinds
<1>5. n \in Nat /\ IsCompiler(Current) /\ Coded(Current, Current) BY SourceIs, NowIs, CodedRefl
<1>6. /\ Follows(ended, s)
      /\ \A f : GoodFrame(f) /\ Inside(Open.at, f, Shape(Current)) => Shape(ended) = f
  BY <1>2, <1>5, ScopeEnds
<1>7. GoodFrame(Shape(ended))
  <2>1. PICK f : GoodFrame(f) /\ Inside(Open.at, f, Shape(Current)) BY OpenIs
  <2> QED BY <1>6, <2>1
<1> HIDE DEF p, ss
<1>8. Coded(ended, jumped)
  <2>1. "JUMP" \notin Accesses BY DEF Accesses
  <2>2. AreHarmless(<<Goto("JUMP", Nowhere)>>) BY <2>1, SingleHarmless
  <2> QED BY <1>6, <2>2, EmitCoded DEF Follows
<1> HIDE DEF ended, jumped, s
<1>9. Follows(jumped, s) /\ Shape(jumped) = Shape(ended) /\ GoodFrame(Shape(jumped))
  BY <1>6, <1>7, <1>8, CodedFollowsOn
<1>10. LET f == Shape(jumped) IN
       /\ Follows(b, Append(s, <<>>))
       /\ Shape(b) = Frame(f.depth + 1, f.classes, f.loops) /\ GoodFrame(Shape(b))
       /\ Looks(b, jumped.type, jumped.locals, jumped.depth + 1, jumped.loops, jumped.upvalues, jumped.classes)
  BY <1>9, ScopeOpened
<1> HIDE DEF b
<1>11. CanDeclare(b, name) /\ ~ IsGlobalScope(b) /\ IsCompiler(b)
  <2>1. IsCompiler(jumped) /\ Scoped(jumped, s) BY <1>9 DEF Follows
  <2>2. IsCompiler(b) /\ b.locals = jumped.locals /\ b.depth = jumped.depth + 1 BY <1>10 DEF Looks
  <2> QED BY <2>1, <2>2, FreshScope
<1>12. Coded(b, top) BY <1>5, <1>11, CaughtCoded
<1> HIDE DEF top, id
<1>13. Follows(top, Append(s, <<>>)) /\ Shape(top) = Shape(b) /\ IsCompiler(top)
       /\ CanDeclare(top, name) /\ ~ IsGlobalScope(top)
  BY <1>10, <1>11, <1>12, CodedFollowsOn, CodedSame DEF Coded, SameButCode
<1>14. IsSeq(s) BY <1>9 DEF Follows, Scoped
<1>15. Follows(bound, u) /\ Shape(bound) = Shape(b)
  <2>1. CASE name = "none"
    <3> DEFINE e == Emit(top, <<Op("POP")>>)
    <3>1. "POP" \notin Accesses BY DEF Accesses
    <3>2. AreHarmless(<<Op("POP")>>) BY <3>1, SingleHarmless
    <3>3. Coded(top, e) BY <1>13, <3>2, EmitCoded
    <3> HIDE DEF e
    <3>4. Follows(e, Append(s, <<>>)) /\ Shape(e) = Shape(top) BY <1>13, <3>3, CodedFollowsOn
    <3>5. bound = e /\ u = Append(s, <<>>) BY <2>1 DEF e
    <3> QED BY <1>13, <3>4, <3>5
  <2>2. CASE name # "none"
    <3>1. IsCompiler(v) BY <1>13, DeclaredCompiler
    <3>2. Coded(v, v)
      <4> HIDE DEF v
      <4> QED BY <3>1, CodedRefl
    <3>3. LET e == DefineVariable(v, name) IN
          Follows(e, Append(s, Only(name, id))) /\ Shape(e) = Shape(top) /\ IsCompiler(e)
      BY <1>13, <1>14, <3>2, FirstFollows
    <3> HIDE DEF v
    <3>4. bound = DefineVariable(v, name) /\ u = Append(s, Only(name, id)) BY <2>2
    <3> QED BY <1>13, <3>3, <3>4
  <2> QED BY <2>1, <2>2
<1> HIDE DEF bound, u
<1>16. Inside(p.at, Shape(ended), Shape(bound))
  <2>1. Shape(bound) = Frame(Shape(ended).depth + 1, Shape(ended).classes, Shape(ended).loops)
    BY <1>9, <1>10, <1>15
  <2> QED BY <1>4, <2>1 DEF Inside
<1>17. Rests(bound, Append(Front(parsing), p), With(scopes, u))
  BY <1>2, <1>4, <1>6, <1>10, <1>15, <1>16, ReplaceSound
<1> HIDE DEF ok
<1> QED BY <1>1, <1>3, <1>17, ResumeSound

-----------------------------------------------------------------------------
(* Classes.                                                                  *)

\* Only the outermost function has a global scope.
LEMMA GlobalIs ==
    ASSUME Inv, IsGlobalScope(Current)
    PROVE  Len(compilers) = 1
<1> DEFINE n == Len(parsing)
<1>1. PICK level, frame : NestedAs(level, frame, compilers, parsing) BY DEF Inv, Nesting
<1>2. /\ n \in Nat /\ level[1] = 1 /\ level[n + 1] = Len(compilers) /\ frame[n + 1] = Shape(Current)
      /\ \A j \in 1..n : /\ parsing[j].at \in Kinds /\ Inside(parsing[j].at, frame[j], frame[j + 1])
                         /\ level[j + 1] = IF parsing[j].at = "body" THEN level[j] + 1 ELSE level[j]
                         /\ GoodFrame(frame[j])
  BY <1>1, NowIs, SeqIs DEF NestedAs
<1>3. Current.depth = 0 /\ Shape(Current).depth = Current.depth /\ Len(compilers) \in Nat /\ Len(compilers) > 0
  BY NowIs, ShapeIs, CompilersAre DEF IsGlobalScope
<1> HIDE DEF n
<1> DEFINE S == {j \in 1..n + 1 : level[j] > 1 /\ frame[j].depth = 0}
<1>4. S = {}
  <2> SUFFICES ASSUME S # {} PROVE FALSE OBVIOUS
  <2> DEFINE m == Min(S)
             k == m - 1
  <2>1. S \subseteq Nat BY <1>2
  <2>2. m \in S /\ \A j \in S : m <= j
    <3> HIDE DEF S
    <3> QED BY <2>1, MinIs
  <2>3. m \in 1..n + 1 /\ level[m] > 1 /\ frame[m].depth = 0 BY <2>2
  <2> HIDE DEF m
  <2>4. m # 1 BY <1>2, <2>3
  <2>5. k \in 1..n /\ k + 1 = m /\ k < m /\ k \in 1..n + 1 BY <1>2, <2>3, <2>4
  <2>6. k \notin S
    <3> HIDE DEF S, k
    <3>1. m \in Nat /\ k \in Nat BY <1>2, <2>3, <2>5
    <3> QED BY <2>2, <2>5, <3>1
  <2> HIDE DEF k
  <2>7. /\ Inside(parsing[k].at, frame[k], frame[m]) /\ parsing[k].at \in Kinds
        /\ level[m] = IF parsing[k].at = "body" THEN level[k] + 1 ELSE level[k]
        /\ frame[k].depth \in Nat
    BY <1>2, <2>5 DEF GoodFrame
  <2> DEFINE D == frame[k].depth
  <2>8. CASE parsing[k].at = "body"
    <3>1. frame[m] = Frame(1, frame[k].classes, <<>>) BY <2>7, <2>8 DEF Inside
    <3>2. frame[m].depth = 1 BY <3>1 DEF Frame
    <3> QED BY <2>3, <3>2
  <2>9. CASE parsing[k].at # "body"
    <3>1. level[k] > 1 BY <2>3, <2>7, <2>9
    <3>2. D # 0 BY <2>5, <2>6, <3>1
    <3>3. frame[m].depth = D \/ frame[m].depth = D + 1
      <4> HIDE DEF D
      <4>1. frame[m] = frame[k] \/ frame[m].depth \in {frame[k].depth, frame[k].depth + 1}
        BY <2>7, <2>9 DEF Inside, Kinds, Frame
      <4> QED BY <4>1 DEF D
    <3>4. D \in Nat BY <2>7
    <3> HIDE DEF D
    <3> QED BY <2>3, <3>2, <3>3, <3>4
  <2> QED BY <2>8, <2>9
<1>5. n + 1 \in 1..n + 1 BY <1>2
<1>6. ~ (level[n + 1] > 1) BY <1>2, <1>3, <1>4, <1>5
<1> DEFINE N == Len(compilers)
<1>7. ~ (N > 1) BY <1>2, <1>6
<1>8. N \in Nat /\ N > 0 BY NowIs, CompilersAre
<1> HIDE DEF N
<1>9. N = 1 BY <1>7, <1>8
<1> QED BY <1>9 DEF N

LEMMA ScopingAgrees ==
    ASSUME NEW cs, NEW ss, Scoping(cs, ss), NEW name, Nonempty(name)
    PROVE  AllAgree(cs, ss, name)
<1>1. \A k \in 1..Len(cs) : IsCompiler(cs[k]) /\ Scoped(cs[k], ss[k]) BY CompilersAre DEF Scoping
<1>2. \A k \in 1..Len(cs) : Agrees(cs[k], ss[k], name) BY <1>1, ScopedAgrees
<1> QED BY <1>2 DEF AllAgree, Scoping

LEMMA OnwardTrans ==
    ASSUME NEW cs, NEW ds, NEW es, Compilers(cs), Onward(cs, ds), Onward(ds, es)
    PROVE  Onward(cs, es)
<1> DEFINE n == Len(cs)
<1>1. \A k \in 1..n - 1 : IsCompiler(cs[k])
  <2>1. \A k \in 1..n - 1 : k \in 1..n BY CompilersAre
  <2> QED BY <2>1, CompilersAre
<1>2. Len(ds) = n /\ ds[n].type = cs[n].type /\ \A k \in 1..n - 1 : Alike(cs[k], ds[k]) BY DEF Onward
<1>3. Compilers(es) /\ Len(es) = n /\ es[n].type = ds[n].type /\ \A k \in 1..n - 1 : Alike(ds[k], es[k])
  BY <1>2 DEF Onward
<1>4. \A k \in 1..n - 1 : Alike(cs[k], es[k]) BY <1>1, <1>2, <1>3, AlikeTrans
<1> QED BY <1>2, <1>3, <1>4 DEF Onward

\* Code that accesses nothing, and then code that finds its variables.
LEMMA ThenLed ==
    ASSUME Inv, NEW ds, Onward(compilers, ds), Longer(Current, ds[Len(compilers)]),
           NEW es, Compiled(ds, es)
    PROVE  Led(es)
<1> DEFINE n == Len(compilers)
           a == Current.code
           b == ds[n].code
           c == es[n].code
<1>1. n \in Nat /\ ~ (n < n) /\ n \in 1..n /\ Compilers(ds) /\ Len(ds) = n /\ Compilers(es) /\ Len(es) = n
  BY NowIs, CompilersAre DEF Onward, Compiled
<1>2. /\ Len(a) \in Nat /\ Len(b) \in Nat /\ Len(c) \in Nat /\ Last(es) = es[n] /\ DOMAIN a = 1..Len(a)
      /\ DOMAIN c = 1..Len(c) /\ Last(compilers).code = a
  BY <1>1, NowIs, CompilersAre DEF Current
<1>3. Goes(es, b, c) BY <1>1 DEF Compiled
<1>4. Len(a) <= Len(b) /\ \A pc \in Len(a) + 1..Len(b) : Harmless(b[pc]) BY DEF Longer
<1> HIDE DEF a, b, c
<1>5. ASSUME NEW pc \in DOMAIN c \ DOMAIN a PROVE Finds(es, c[pc])
  <2>1. pc \in 1..Len(c) /\ pc \notin 1..Len(a) BY <1>2
  <2>2. CASE pc <= Len(b)
    <3>1. pc \in Len(a) + 1..Len(b) /\ pc \in 1..Len(b) BY <1>2, <2>1, <2>2
    <3>2. c[pc] = b[pc] /\ Harmless(b[pc]) BY <1>3, <1>4, <3>1 DEF Goes
    <3> QED BY <1>1, <3>2, HarmlessLead, LeadingFinds
  <2>3. CASE ~ (pc <= Len(b))
    <3>1. pc \in Len(b) + 1..Len(c) BY <1>2, <2>1, <2>3
    <3>2. Leading(es, c[pc]) BY <1>3, <3>1 DEF Goes
    <3> QED BY <1>1, <3>2, LeadingFinds
  <2> QED BY <2>2, <2>3
<1> QED BY <1>1, <1>2, <1>5 DEF Led, c

LEMMA OpenLed ==
    ASSUME Inv, NEW es, Onward(compilers, es), Led(es), NEW u, Scoped(es[Len(compilers)], u),
           GoodFrame(Shape(es[Len(compilers)])),
           NEW p, IsCall(p), p.at \in Kinds, p.at \notin {"program", "body"},
           Inside(p.at, Shape(Current), Shape(es[Len(compilers)]))
    PROVE  Sound(es, Append(Started, p), With(scopes, u))
<1>1. Scoping(compilers, scopes) /\ Nesting(compilers, parsing) /\ SameCalls(parsing, Started)
  BY StartedIs DEF Inv
<1>2. Current = compilers[Len(compilers)] BY NowIs
<1>3. Scoping(es, With(scopes, u)) /\ Nesting(es, Append(Started, p)) BY <1>1, <1>2, OpenedIs
<1> QED BY <1>3 DEF Sound

\* A name that its own function declares needs no upvalue.
LEMMA NoUpvalue ==
    ASSUME NEW cs, Compilers(cs), NEW name, FindLocal(cs[Len(cs)], name) # 0 \/ Len(cs) = 1
    PROVE  Resolve(cs, name).cs = cs
<1> DEFINE n == Len(cs)
           own == FindLocal(cs[n], name)
           k == Owner(cs, name)
<1>1. Last(cs) = cs[n] /\ IsCompiler(cs[n]) /\ Len(cs[n].locals) \in Nat BY CompilersAre
<1>2. own \in 0..Len(cs[n].locals) BY <1>1, FindLocalIs
<1>3. k \in 0..n - 1 BY OwnerIs
<1>4. CASE own # 0
  <2>1. own > 0 BY <1>1, <1>2, <1>4
  <2> QED BY <1>1, <2>1 DEF Resolve
<1>5. CASE own = 0
  <2>0. n = 1 BY <1>5
  <2>1. k = 0
    <3> HIDE DEF k, n
    <3> QED BY <1>3, <2>0
  <2>2. ~ (own > 0) /\ ~ (k > 0) BY <1>5, <2>1
  <2> QED BY <1>1, <1>5, <2>2 DEF Resolve
<1> QED BY <1>4, <1>5

LEMMA SelfLeads ==
    ASSUME NEW cs, Compilers(cs), NEW ss, NEW name, AllAgree(cs, ss, name),
           FindLocal(cs[Len(cs)], name) # 0 \/ Len(cs) = 1
    PROVE  Leading(cs, NamedVariable(cs, ss, name).get)
<1> DEFINE r == Resolve(cs, name)
<1>1. Leading(r.cs, Instruction(GetOp[r.where], r.n, Nowhere, Denoted(ss, name))) BY GetLeads
<1>2. r.cs = cs BY NoUpvalue
<1> HIDE DEF r
<1>3. NamedVariable(cs, ss, name).get = Instruction(GetOp[r.where], r.n, Nowhere, Denoted(ss, name))
  BY DEF NamedVariable, r
<1> QED BY <1>1, <1>2, <1>3

Has(c, name) == \E i \in 1..Len(c.locals) : c.locals[i].name = name

LEMMA HasIs ==
    ASSUME NEW c, IsCompiler(c), NEW name, Has(c, name)
    PROVE  /\ FindLocal(c, name) # 0
           /\ \A d : SameLocals(c, d) => Has(d, name)
<1>1. PICK i \in 1..Len(c.locals) : c.locals[i].name = name BY DEF Has
<1>2. i <= FindLocal(c, name) BY <1>1, FindLocalIs
<1>3. FindLocal(c, name) # 0 BY <1>2
<1>4. \A d : SameLocals(c, d) => Has(d, name) BY <1>1 DEF SameLocals, Has
<1> QED BY <1>3, <1>4

\* The class's variable is declared before its body is compiled.
LEMMA MadeIs ==
    ASSUME Inv, NEW name, CanDeclare(Current, name)
    PROVE  LET declared == DeclareVariable(Mark(Current), name, Declaration(name))
               made == DefineVariable(Emit(declared, <<Op("CLASS")>>), name)
           IN /\ \E t : Bound(name) = With(scopes, t) /\ Follows(made, t)
              /\ Shape(made) = Shape(Current) /\ IsCompiler(made)
              /\ Has(made, name) \/ Len(compilers) = 1
<1> DEFINE m == Mark(Current)
           id == Declaration(name)
           declared == DeclareVariable(m, name, id)
           w == Emit(declared, <<Op("CLASS")>>)
           made == DefineVariable(w, name)
<1>1. Coded(Current, m) /\ IsCompiler(m) BY MarkedIs
<1>2. PICK t : Bound(name) = With(scopes, t) /\ Binds(Current, Last(scopes), t, name, id)
  BY BoundIs
<1>3. Follows(m, Last(scopes)) /\ Shape(m) = Shape(Current) BY <1>1, CodedFollows
<1> HIDE DEF id, m
<1>4. CanDeclare(m, name) /\ Binds(m, Last(scopes), t, name, id) /\ (IsGlobalScope(m) <=> IsGlobalScope(Current))
  BY <1>1, <1>2, CodedSame
<1>5. IsCompiler(declared) BY <1>1, DeclaredCompiler
<1>6. "CLASS" \notin Accesses BY DEF Accesses
<1>7. AreHarmless(<<Op("CLASS")>>) BY <1>6, SingleHarmless
<1>8. Coded(declared, w)
  <2> HIDE DEF declared
  <2> QED BY <1>5, <1>7, EmitCoded
<1> HIDE DEF w
<1>9. Follows(made, t) /\ Shape(made) = Shape(m) /\ IsCompiler(made) BY <1>3, <1>4, <1>8, DefineFollows
<1>10. Has(made, name) \/ Len(compilers) = 1
  <2>1. CASE IsGlobalScope(m) BY <1>4, <2>1, GlobalIs
  <2>2. CASE ~ IsGlobalScope(m)
    <3> DEFINE l == Local(name, -1, id)
               L == Len(w.locals)
    <3>1. Looks(declared, m.type, Append(m.locals, l), m.depth, m.loops, m.upvalues, m.classes)
      BY <1>1, <2>2, DeclareIs
    <3>2. declared.locals = Append(m.locals, l) /\ IsSeq(declared.locals) /\ declared.type = m.type /\ declared.depth = m.depth
      BY <1>5, <3>1 DEF Looks, IsCompiler
    <3>3. l.name = name BY DEF Local
    <3> HIDE DEF l, declared
    <3>4. declared.locals[Len(declared.locals)] = l /\ Len(declared.locals) = Len(m.locals) + 1
          /\ Len(m.locals) \in Nat
      BY <1>1, <3>2, AppendLocal
    <3>5. IsCompiler(w) /\ w.locals = declared.locals /\ w.type = m.type /\ w.depth = m.depth
      BY <1>8, <3>2 DEF Coded, SameButCode
    <3>6. ~ IsGlobalScope(w) BY <2>2, <3>5 DEF IsGlobalScope
    <3>7. L > 0 /\ L \in 1..L BY <3>4, <3>5
    <3>8. LastMarked(w, made) BY <3>5, <3>6, <3>7, DefineIs
    <3>9. made.locals[L].name = name /\ Len(made.locals) = L BY <3>3, <3>4, <3>5, <3>7, <3>8 DEF LastMarked
    <3> HIDE DEF L, made
    <3> QED BY <3>7, <3>9 DEF Has
  <2> QED BY <2>1, <2>2
<1>11. \E x : Bound(name) = With(scopes, x) /\ Follows(made, x) BY <1>2, <1>9
<1> QED BY <1>3, <1>9, <1>10, <1>11 DEF w, id, m

\* A class is entered in the innermost function.
LEMMA ClassPushed ==
    ASSUME NEW c, IsCompiler(c), GoodFrame(Shape(c)), NEW b
    PROVE  LET e == [c EXCEPT !.classes = Append(c.classes, b)]
               f == Shape(c)
           IN /\ Looks(e, c.type, c.locals, c.depth, c.loops, c.upvalues, Append(c.classes, b))
              /\ e.code = c.code
              /\ Shape(e) = Frame(f.depth, Append(f.classes, b), f.loops) /\ GoodFrame(Shape(e))
<1> DEFINE x == Append(c.classes, b)
           e == [c EXCEPT !.classes = x]
           f == Shape(c)
<1>1. IsSeq(c.classes) BY DEF IsCompiler
<1>2. IsSeq(x) BY <1>1, AppendIs
<1> HIDE DEF x
<1>3. Looks(e, c.type, c.locals, c.depth, c.loops, c.upvalues, x) /\ e.code = c.code BY <1>2, ClassesAre
<1>4. f.depth = c.depth /\ f.classes = c.classes BY ShapeIs
<1>5. f.loops = [i \in DOMAIN c.loops |-> c.loops[i].depth] BY DEF Shape, Frame
<1> HIDE DEF e
<1>6. Shape(e) = Frame(f.depth, x, f.loops) BY <1>3, <1>4, <1>5 DEF Looks, Shape
<1> DEFINE g == Frame(f.depth, x, f.loops)
<1>7. g.depth = f.depth /\ g.classes = x /\ g.loops = f.loops /\ g = Frame(g.depth, g.classes, g.loops)
  BY DEF Frame
<1>8. f.depth \in Nat /\ IsSeq(f.loops) /\ \A i \in 1..Len(f.loops) : f.loops[i] \in 0..f.depth BY DEF GoodFrame
<1> HIDE DEF f
<1>9. GoodFrame(g)
  <2> HIDE DEF g
  <2> QED BY <1>2, <1>7, <1>8 DEF GoodFrame
<1> QED BY <1>3, <1>4, <1>6, <1>9 DEF x, e, f

\* What follows Current may enter a class.
LEMMA ClassEntered ==
    ASSUME Inv, NEW d, NEW t, Follows(d, t), GoodFrame(Shape(d)), NEW b
    PROVE  LET e == [d EXCEPT !.classes = Append(d.classes, b)]
               f == Shape(d)
           IN /\ Follows(e, t) /\ IsCompiler(e) /\ e.locals = d.locals /\ e.code = d.code
              /\ Shape(e) = Frame(f.depth, Append(f.classes, b), f.loops) /\ GoodFrame(Shape(e))
<1> DEFINE x == Append(d.classes, b)
           e == [d EXCEPT !.classes = x]
           f == Shape(d)
<1>1. IsCompiler(d) BY DEF Follows
<1>2. /\ Looks(e, d.type, d.locals, d.depth, d.loops, d.upvalues, x) /\ e.code = d.code
      /\ Shape(e) = Frame(f.depth, Append(f.classes, b), f.loops) /\ GoodFrame(Shape(e))
  BY <1>1, ClassPushed
<1> HIDE DEF e, x, f
<1>3. /\ IsCompiler(e) /\ e.locals = d.locals /\ e.loops = d.loops
      /\ Looks(e, d.type, d.locals, d.depth, e.loops, d.upvalues, x)
  BY <1>2 DEF Looks
<1>4. Longer(d, e) BY <1>1, <1>2, LongerSame
<1>5. Follows(e, t) BY <1>3, <1>4, FollowsLoop
<1> QED BY <1>2, <1>3, <1>5 DEF e, x, f

LEMMA ClassIs ==
    ASSUME Inv, NEW name \in source.names, ClassDeclaration(name)
    PROVE  Inv' /\ Found
<1> DEFINE n == Len(compilers)
           declared == DeclareVariable(Mark(Current), name, Declaration(name))
           made == DefineVariable(Emit(declared, <<Op("CLASS")>>), name)
<1>1. PICK b : b = FALSE OBVIOUS
<1> DEFINE d == [made EXCEPT !.classes = Append(made.classes, b)]
           inner == With(compilers, d)
           get == NamedVariable(inner, Bound(name), name).get
           es == EmitTo(inner, <<get>>)
           p == At("class")
           ok == CanDeclare(Current, name)
<1>2. Begin("class", ok, es, Append(Started, p), Bound(name))
  <2>1. Last(Marked) = Mark(Current) /\ \A e : With(Marked, e) = With(compilers, e) BY MarkedIs
  <2>2. inner = With(Marked, [made EXCEPT !.classes = Append(@, FALSE)]) BY <1>1, <2>1
  <2>3. Declare("class", ok, es, Append(Started, p), Bound(name))
    BY <2>1, <2>2 DEF ClassDeclaration, Waiting
  <2> HIDE DEF ok, es, p
  <2> QED BY <2>3 DEF Declare
<1>3. ASSUME ok PROVE Sound(es, Append(Started, p), Bound(name))
  <2>1. /\ \E t : Bound(name) = With(scopes, t) /\ Follows(made, t)
        /\ Shape(made) = Shape(Current) /\ IsCompiler(made)
        /\ Has(made, name) \/ Len(compilers) = 1
    BY <1>3, MadeIs
  <2> HIDE DEF made
  <2>2. PICK t : Bound(name) = With(scopes, t) /\ Follows(made, t) BY <2>1
  <2>3. /\ Compilers(compilers) /\ IsCompiler(Current) /\ GoodFrame(Shape(Current))
        /\ n \in 1..n /\ Scoping(compilers, scopes)
    BY NowIs DEF Inv
  <2> DEFINE f == Shape(Current)
  <2>4. /\ Follows(d, t) /\ IsCompiler(d) /\ d.locals = made.locals
        /\ Shape(d) = Frame(f.depth, Append(f.classes, b), f.loops) /\ GoodFrame(Shape(d))
    BY <2>1, <2>2, <2>3, ClassEntered
  <2> HIDE DEF d
  <2>5. Onward(compilers, inner) /\ inner[n] = d BY <2>4, FollowsIs
  <2>6. Scoped(inner[n], t) /\ Longer(Current, inner[n]) /\ GoodFrame(Shape(inner[n]))
    BY <2>4, <2>5 DEF Follows
  <2> HIDE DEF inner
  <2>7. Scoping(inner, Bound(name)) BY <2>2, <2>3, <2>5, <2>6, ScopingStep
  <2>8. Nonempty(name) BY SourceIs
  <2>9. AllAgree(inner, Bound(name), name) BY <2>7, <2>8, ScopingAgrees
  <2>10. Compilers(inner) /\ Len(inner) = n /\ Last(inner) = inner[n] BY <2>5, CompilersAre DEF Onward
  <2>11. FindLocal(inner[Len(inner)], name) # 0 \/ Len(inner) = 1
    <3>1. CASE Has(made, name)
      <4>1. Has(d, name) BY <2>4, <3>1 DEF Has
      <4> QED BY <2>4, <2>5, <2>10, <4>1, HasIs
    <3>2. CASE Len(compilers) = 1 BY <2>10, <3>2
    <3> QED BY <2>1, <3>1, <3>2
  <2>12. Leading(inner, get) BY <2>9, <2>10, <2>11, SelfLeads
  <2> HIDE DEF get
  <2>13. AreLeading(inner, <<get>>) BY <2>12, LeadingTuples
  <2>14. es = With(inner, Emit(inner[Len(inner)], <<get>>)) BY <2>10 DEF EmitTo
  <2> HIDE DEF es
  <2>15. Compiled(inner, es) /\ Alike(inner[n], es[n]) BY <2>10, <2>13, <2>14, EmitLeads
  <2>16. Led(es) BY <2>5, <2>6, <2>15, ThenLed
  <2>17. Onward(inner, es) BY <2>10, <2>15, CompiledOnward DEF Alike
  <2>18. Onward(compilers, es) BY <2>3, <2>5, <2>17, OnwardTrans
  <2>19. IsCompiler(inner[n]) BY <2>4, <2>5
  <2>20. Scoped(es[n], t) /\ Shape(es[n]) = Shape(d) BY <2>5, <2>6, <2>15, <2>19, AlikeScoped DEF Alike
  <2>21. IsCall(p) /\ p.at = "class" /\ p.at \in Kinds /\ p.at \notin {"program", "body"} BY AtIs DEF Kinds
  <2>22. Inside(p.at, Shape(Current), Shape(es[n])) BY <1>1, <2>4, <2>20, <2>21 DEF Inside
  <2> HIDE DEF p
  <2> QED BY <2>2, <2>4, <2>16, <2>18, <2>20, <2>21, <2>22, OpenLed
<1> HIDE DEF es, ok, p
<1> QED BY <1>2, <1>3, BeginSound

\* The scope that holds the superclass.
LEMMA SuperScope ==
    ASSUME NEW c, NEW t, IsCompiler(c), Scoped(c, t), GoodFrame(Shape(c)), NEW id, NEW b
    PROVE  LET scope == MarkInitialised(DeclareVariable(BeginScope(c), "super", id))
               x == [scope EXCEPT !.classes = Append(scope.classes, b)]
               f == Shape(c)
           IN /\ IsCompiler(x) /\ x.type = c.type /\ x.upvalues = c.upvalues /\ x.code = c.code
              /\ Len(x.locals) = Len(c.locals) + 1
              /\ \A i \in 1..Len(c.locals) : /\ x.locals[i].name = c.locals[i].name
                                             /\ x.locals[i].id = c.locals[i].id
              /\ x.locals[Len(c.locals) + 1].name = "super"
              /\ Scoped(x, Append(t, Only("super", id)))
              /\ Shape(x) = Frame(f.depth + 1, Append(f.classes, b), f.loops) /\ GoodFrame(Shape(x))
<1> DEFINE e == BeginScope(c)
           v == DeclareVariable(e, "super", id)
           scope == MarkInitialised(v)
           x == [scope EXCEPT !.classes = Append(scope.classes, b)]
           f == Shape(c)
           u == Append(t, Only("super", id))
<1>1. /\ Looks(e, c.type, c.locals, c.depth + 1, c.loops, c.upvalues, c.classes)
      /\ e.code = c.code
  BY BeginScopeIs
<1>2. IsCompiler(e) /\ e.locals = c.locals /\ e.depth = c.depth + 1 /\ e.loops = c.loops
      /\ e.upvalues = c.upvalues /\ e.classes = c.classes /\ e.type = c.type
  BY <1>1 DEF Looks
<1>3. Scoped(e, Append(t, <<>>)) BY BeginScoped
<1> HIDE DEF e
<1>4. CanDeclare(e, "super") /\ ~ IsGlobalScope(e) BY <1>2, FreshScope
<1>5. /\ Looks(v, e.type, Append(e.locals, Local("super", -1, id)), e.depth, e.loops, e.upvalues, e.classes)
      /\ v.code = e.code
  BY <1>2, <1>4, DeclareIs
<1> DEFINE l == Local("super", -1, id)
<1>6. /\ IsCompiler(v) /\ v.locals = Append(e.locals, l) /\ IsSeq(v.locals) /\ v.depth = e.depth /\ v.type = e.type
      /\ v.upvalues = e.upvalues /\ v.classes = e.classes /\ v.loops = e.loops
  BY <1>5 DEF Looks, IsCompiler
<1> HIDE DEF l, v
<1>7. Len(v.locals) > 0 /\ ~ IsGlobalScope(v)
  <2>1. Len(e.locals) \in Nat /\ Len(v.locals) = Len(e.locals) + 1 BY <1>2, <1>6, AppendLocal
  <2> QED BY <1>4, <1>6, <2>1 DEF IsGlobalScope
<1>8. /\ Looks(scope, v.type, scope.locals, v.depth, v.loops, v.upvalues, v.classes)
      /\ scope.code = v.code /\ LastMarked(v, scope)
  BY <1>6, <1>7, MarkIs
<1>9. Alike(v, v) BY <1>6, AlikeRefl
<1> HIDE DEF scope
<1>10. Adds(e, scope, "super", id) BY <1>2, <1>7, <1>8, <1>9, AddsIs DEF v
<1>11. Bindings(Append(t, <<>>), u, "super", id) BY OnlyBinds DEF Scoped
<1> HIDE DEF u
<1>12. Scoped(scope, u)
  <2>1. Binds(e, Append(t, <<>>), u, "super", id) BY <1>4, <1>11 DEF Binds
  <2> QED BY <1>2, <1>3, <1>4, <1>10, <2>1, AddsScoped
<1>13. OneMore(e, scope, "super", id) /\ IsCompiler(scope) /\ Shape(scope) = Shape(e) BY <1>4, <1>10 DEF Adds
<1>14. Shape(e) = Frame(f.depth + 1, f.classes, f.loops)
  <2>1. f.loops = [i \in DOMAIN c.loops |-> c.loops[i].depth] BY DEF Shape, Frame
  <2>2. f.depth = c.depth /\ f.classes = c.classes BY ShapeIs
  <2> HIDE DEF f
  <2> QED BY <1>2, <2>1, <2>2 DEF Shape
<1> DEFINE g == Frame(f.depth + 1, f.classes, f.loops)
<1>15. GoodFrame(g)
  <2>1. g.depth = f.depth + 1 /\ g.classes = f.classes /\ g.loops = f.loops /\ g = Frame(g.depth, g.classes, g.loops)
    BY DEF Frame
  <2>2. f.depth \in Nat /\ IsSeq(f.classes) /\ IsSeq(f.loops) /\ \A i \in 1..Len(f.loops) : f.loops[i] \in 0..f.depth
    BY DEF GoodFrame
  <2> DEFINE D == f.depth
  <2>3. g.depth = D + 1 /\ D \in Nat /\ \A i \in 1..Len(f.loops) : f.loops[i] \in 0..D BY <2>1, <2>2
  <2> HIDE DEF D, g, f
  <2>4. g.depth \in Nat /\ \A i \in 1..Len(f.loops) : f.loops[i] \in 0..g.depth BY <2>3
  <2> QED BY <2>1, <2>2, <2>4 DEF GoodFrame
<1>16. Shape(scope) = g BY <1>13, <1>14
<1>17. LET h == Shape(scope) IN
       /\ Looks(x, scope.type, scope.locals, scope.depth, scope.loops, scope.upvalues, Append(scope.classes, b))
       /\ x.code = scope.code
       /\ Shape(x) = Frame(h.depth, Append(h.classes, b), h.loops) /\ GoodFrame(Shape(x))
  BY <1>13, <1>15, <1>16, ClassPushed
<1> HIDE DEF x
<1>18. /\ IsCompiler(x) /\ x.type = scope.type /\ x.locals = scope.locals /\ x.depth = scope.depth
       /\ x.upvalues = scope.upvalues
  BY <1>17 DEF Looks
<1>19. Scoped(x, u) BY <1>12, <1>18, LooksScoped
<1>20. g.depth = f.depth + 1 /\ g.classes = f.classes /\ g.loops = f.loops BY DEF Frame
<1> HIDE DEF g, f
<1>21. Shape(x) = Frame(f.depth + 1, Append(f.classes, b), f.loops) BY <1>16, <1>17, <1>20
<1>22. x.type = c.type /\ x.upvalues = c.upvalues /\ x.code = c.code
  BY <1>1, <1>2, <1>5, <1>6, <1>8, <1>17, <1>18 DEF Looks
<1>23. /\ Len(x.locals) = Len(c.locals) + 1
       /\ \A i \in 1..Len(c.locals) : /\ x.locals[i].name = c.locals[i].name
                                      /\ x.locals[i].id = c.locals[i].id
       /\ x.locals[Len(c.locals) + 1].name = "super"
  BY <1>2, <1>13, <1>18 DEF OneMore
<1> QED BY <1>17, <1>18, <1>19, <1>21, <1>22, <1>23 DEF x, scope, v, e, f, u

\* A scope opened after a variable was bound.
LEMMA BoundOpened ==
    ASSUME Inv, NEW ss, NEW t, ss = With(scopes, t), NEW o
    PROVE  Opened(ss, o) = With(scopes, Append(t, o))
<1>1. IsSeq(scopes) /\ Len(scopes) > 0 BY NowIs
<1>2. Last(ss) = t BY <1>1, WithIs
<1>3. \A a, b : With(With(scopes, a), b) = With(scopes, b) BY <1>1, WithWith
<1>4. With(ss, Append(t, o)) = With(scopes, Append(t, o)) BY <1>3
<1> QED BY <1>2, <1>4 DEF Opened

LEMMA SubclassIs ==
    ASSUME Inv, NEW name \in source.names, NEW superclass \in source.names, Subclass(name, superclass)
    PROVE  Inv' /\ Found
<1> DEFINE n == Len(compilers)
           declared == DeclareVariable(Mark(Current), name, Declaration(name))
           made == DefineVariable(Emit(declared, <<Op("CLASS")>>), name)
           cs1 == With(compilers, made)
           parent == NamedVariable(cs1, Bound(name), superclass)
           rs == parent.cs
           held == Emit(Last(rs), <<parent.get>>)
           id == <<Len(compilers), Here(held), "super">>
           scope == MarkInitialised(DeclareVariable(BeginScope(held), "super", id))
<1>1. PICK b : b = TRUE OBVIOUS
<1> DEFINE x == [scope EXCEPT !.classes = Append(scope.classes, b)]
           inner == With(rs, x)
           self == NamedVariable(inner, Bound(name), name).get
           es == EmitTo(inner, <<self, Op("INHERIT"), self>>)
           p == At("class")
           ok == CanDeclare(Current, name) /\ parent.ok /\ superclass # name
           ss == Opened(Bound(name), Only("super", id))
<1>2. Begin("class", ok, es, Append(Started, p), ss)
  <2>1. Last(Marked) = Mark(Current) /\ \A e : With(Marked, e) = With(compilers, e) BY MarkedIs
  <2>2. cs1 = With(Marked, made) BY <2>1
  <2>3. inner = With(rs, [scope EXCEPT !.classes = Append(@, TRUE)]) BY <1>1
  <2>4. Declare("class", ok, es, Append(Started, p), ss)
    BY <2>1, <2>2, <2>3 DEF Subclass, Waiting
  <2> HIDE DEF ok, es, p, ss
  <2> QED BY <2>4 DEF Declare
<1>3. ASSUME ok PROVE Sound(es, Append(Started, p), ss)
  <2>1. /\ \E t : Bound(name) = With(scopes, t) /\ Follows(made, t)
        /\ Shape(made) = Shape(Current) /\ IsCompiler(made)
        /\ Has(made, name) \/ Len(compilers) = 1
    BY <1>3, MadeIs
  <2> HIDE DEF made
  <2>2. PICK t : Bound(name) = With(scopes, t) /\ Follows(made, t) BY <2>1
  <2>3. /\ Compilers(compilers) /\ IsCompiler(Current) /\ GoodFrame(Shape(Current))
        /\ n \in 1..n /\ Scoping(compilers, scopes)
    BY NowIs DEF Inv
  <2> DEFINE f == Shape(Current)
  <2>4. Onward(compilers, cs1) /\ cs1[n] = made BY <2>2, FollowsIs
  <2>5. Scoped(cs1[n], t) /\ Longer(Current, cs1[n]) /\ GoodFrame(Shape(cs1[n])) /\ IsCompiler(cs1[n])
    BY <2>1, <2>2, <2>3, <2>4 DEF Follows
  <2>6. Nonempty(name) /\ Nonempty(superclass) /\ "super" # name BY SourceIs
  <2> HIDE DEF cs1
  <2>7. Scoping(cs1, Bound(name)) BY <2>2, <2>3, <2>4, <2>5, ScopingStep
  <2>8. AllAgree(cs1, Bound(name), superclass) BY <2>6, <2>7, ScopingAgrees
  <2>9. Compilers(cs1) /\ Len(cs1) = n BY <2>4 DEF Onward
  <2>10. /\ rs = Resolve(cs1, superclass).cs
         /\ parent.get = Instruction(GetOp[Resolve(cs1, superclass).where], Resolve(cs1, superclass).n, Nowhere,
                                     Denoted(Bound(name), superclass))
    BY DEF NamedVariable
  <2>11. Leading(rs, parent.get) BY <2>8, <2>9, <2>10, GetLeads
  <2>12. Compilers(rs) /\ Grown(cs1, rs) BY <2>9, <2>10, ResolveIs
  <2> DEFINE get == parent.get
             hs == With(rs, Emit(rs[Len(rs)], <<get>>))
  <2>13. Len(rs) = n /\ Last(rs) = rs[n] BY <2>9, <2>12, CompilersAre DEF Grown
  <2>14. AreLeading(rs, <<get>>) BY <2>11, LeadingTuples
  <2>15. held = Emit(rs[n], <<get>>) /\ hs = With(rs, held) BY <2>13
  <2> HIDE DEF get, held, rs, parent
  <2>16. Compiled(rs, hs) /\ Alike(rs[n], hs[n]) BY <2>12, <2>13, <2>14, EmitLeads
  <2>17. IsSeq(rs) /\ Len(rs) > 0 BY <2>12, CompilersAre
  <2>18. Last(hs) = held BY <2>15, <2>17, WithIs
  <2> HIDE DEF hs
  <2>19. Compilers(hs) /\ Len(hs) = n /\ hs[n] = held BY <2>13, <2>16, <2>18, CompilersAre DEF Compiled
  <2>20. Compiled(cs1, hs) /\ Alike(made, held)
    BY <2>4, <2>9, <2>12, <2>13, <2>16, <2>19, GrownCompiled
  <2>21. IsCompiler(held) /\ Scoped(held, t) /\ Shape(held) = f /\ held.type = made.type
    BY <2>1, <2>4, <2>5, <2>20, AlikeScoped DEF Alike
  <2> HIDE DEF id
  <2> DEFINE u == Append(t, Only("super", id))
  <2>22. /\ IsCompiler(x) /\ x.type = held.type /\ x.upvalues = held.upvalues /\ x.code = held.code
         /\ Len(x.locals) = Len(held.locals) + 1
         /\ \A i \in 1..Len(held.locals) : /\ x.locals[i].name = held.locals[i].name
                                           /\ x.locals[i].id = held.locals[i].id
         /\ x.locals[Len(held.locals) + 1].name = "super"
         /\ Scoped(x, u)
         /\ Shape(x) = Frame(f.depth + 1, Append(f.classes, b), f.loops) /\ GoodFrame(Shape(x))
    <3>1. GoodFrame(Shape(held)) BY <2>3, <2>21
    <3>2. LET g == Shape(held) IN
         /\ IsCompiler(x) /\ x.type = held.type /\ x.upvalues = held.upvalues /\ x.code = held.code
         /\ Len(x.locals) = Len(held.locals) + 1
         /\ \A i \in 1..Len(held.locals) : /\ x.locals[i].name = held.locals[i].name
                                           /\ x.locals[i].id = held.locals[i].id
         /\ x.locals[Len(held.locals) + 1].name = "super"
         /\ Scoped(x, Append(t, Only("super", id)))
         /\ Shape(x) = Frame(g.depth + 1, Append(g.classes, b), g.loops) /\ GoodFrame(Shape(x))
      BY <2>21, <3>1, SuperScope
    <3> HIDE DEF x, f
    <3> QED BY <2>21, <3>2
  <2> HIDE DEF x, f, u
  <2>23. inner = With(hs, x) BY <2>15, <2>17, WithWith DEF hs, get
  <2> HIDE DEF inner
  <2>24. Compiled(hs, inner) /\ inner[n] = x
    <3>1. AreHarmless(<<>>) BY HarmlessTuples
    <3> QED BY <2>19, <2>22, <2>23, <3>1, TopCompiled
  <2>25. Compilers(inner) /\ Len(inner) = n /\ Last(inner) = inner[n] /\ \A k \in 1..n - 1 : inner[k] = hs[k]
    <3>1. Compilers(inner) /\ Len(inner) = n /\ \A k \in 1..n - 1 : inner[k] = hs[k] BY <2>19, <2>22, <2>23, TopIs
    <3> QED BY <3>1, CompilersAre
  <2>26. Scoping(hs, Bound(name))
    <3>1. Onward(cs1, hs) BY <2>4, <2>9, <2>19, <2>20, <2>21, CompiledOnward
    <3>2. IsSeq(scopes) /\ Len(scopes) > 0 BY NowIs
    <3>3. With(Bound(name), t) = Bound(name) BY <2>2, <3>2, WithWith
    <3>4. Scoped(hs[n], t) /\ GoodFrame(Shape(hs[n])) BY <2>3, <2>19, <2>21 DEF f
    <3> QED BY <2>7, <2>9, <3>1, <3>3, <3>4, ScopingStep
  <2>27. AllAgree(hs, Bound(name), name) BY <2>6, <2>26, ScopingAgrees
  <2>28. Len(held.locals) \in Nat /\ Len(x.locals) \in Nat BY <2>21, <2>22, SeqIs DEF IsCompiler
  <2>29. FindLocal(x, name) = FindLocal(held, name) /\ \A s : Agrees(held, s, name) => Agrees(x, s, name)
    <3> DEFINE L == Len(held.locals)
    <3>1. \A i \in 1..Len(x.locals) : i > L => i = L + 1 BY <2>22, <2>28
    <3>2. \A i \in 1..Len(x.locals) : i > L => x.locals[i].name # name BY <2>6, <2>22, <3>1
    <3>3. L <= Len(x.locals) BY <2>22, <2>28
    <3> QED BY <2>21, <2>22, <3>2, <3>3, SameFound
  <2>30. AllAgree(inner, Bound(name), name)
    <3>1. \A k \in 1..n : Agrees(inner[k], Bound(name)[k], name)
      <4> TAKE k \in 1..n
      <4>1. Agrees(hs[k], Bound(name)[k], name) BY <2>19, <2>27 DEF AllAgree
      <4>2. k = n \/ k \in 1..n - 1 BY <2>3
      <4> QED BY <2>19, <2>24, <2>25, <2>29, <4>1, <4>2
    <3> QED BY <2>19, <2>25, <2>27, <3>1 DEF AllAgree
  <2>31. FindLocal(inner[Len(inner)], name) # 0 \/ Len(inner) = 1
    <3>1. CASE Has(made, name)
      <4>1. Has(held, name) BY <2>1, <2>20, <3>1, HasIs DEF Alike
      <4> QED BY <2>21, <2>24, <2>25, <2>29, <4>1, HasIs
    <3>2. CASE Len(compilers) = 1 BY <2>25, <3>2
    <3> QED BY <2>1, <3>1, <3>2
  <2>32. Leading(inner, self) BY <2>25, <2>30, <2>31, SelfLeads
  <2> DEFINE code == <<self, Op("INHERIT"), self>>
  <2> HIDE DEF self
  <2>33. AreLeading(inner, code)
    <3>1. "INHERIT" \notin Accesses BY DEF Accesses
    <3>2. Leading(inner, Op("INHERIT")) BY <3>1, HarmlessOps, HarmlessLead
    <3> QED BY <2>32, <3>2, LeadingTuples
  <2>34. es = With(inner, Emit(inner[Len(inner)], code)) BY <2>25 DEF EmitTo
  <2> HIDE DEF es, code
  <2>35. Compiled(inner, es) /\ Alike(x, es[n]) BY <2>24, <2>25, <2>33, <2>34, EmitLeads
  <2>36. Keeps(held, x)
    <3>1. Len(held.upvalues) \in Nat BY <2>21, SeqIs DEF IsCompiler
    <3> QED BY <2>22, <2>28, <3>1 DEF Keeps, MoreUpvalues
  <2>37. Compiled(cs1, inner)
    <3>1. Keeps(hs[n], inner[n]) BY <2>19, <2>24, <2>36
    <3> QED BY <2>9, <2>20, <2>24, <3>1, CompiledTrans
  <2>38. Compiled(cs1, es)
    <3>1. Keeps(inner[n], es[n]) BY <2>22, <2>24, <2>35, AlikeKeeps
    <3> QED BY <2>9, <2>35, <2>37, <3>1, CompiledTrans
  <2>39. Led(es) BY <2>4, <2>5, <2>38, ThenLed
  <2>40. Onward(cs1, es) BY <2>4, <2>9, <2>21, <2>22, <2>35, <2>38, CompiledOnward DEF Alike
  <2>41. Onward(compilers, es) BY <2>3, <2>4, <2>40, OnwardTrans
  <2>42. Scoped(es[n], u) /\ Shape(es[n]) = Shape(x) BY <2>22, <2>35, AlikeScoped DEF Alike
  <2>43. IsCall(p) /\ p.at = "class" /\ p.at \in Kinds /\ p.at \notin {"program", "body"} BY AtIs DEF Kinds
  <2>44. Inside(p.at, Shape(Current), Shape(es[n])) BY <1>1, <2>22, <2>42, <2>43 DEF Inside, f
  <2>45. ss = With(scopes, u) BY <2>2, BoundOpened DEF u
  <2> HIDE DEF p, ss
  <2> QED BY <2>22, <2>39, <2>41, <2>42, <2>43, <2>44, <2>45, OpenLed
<1> HIDE DEF es, ok, p, ss
<1> QED BY <1>2, <1>3, BeginSound

\* Whether the scope of a superclass is open shows in the innermost class.
LEMMA ClassAround ==
    ASSUME Inv, Open.at = "class", NEW f, GoodFrame(f), Inside(Open.at, f, Shape(Current))
    PROVE  /\ IsSeq(Current.classes) /\ Len(Current.classes) > 0 /\ Front(Current.classes) = f.classes
           /\ Shape(Current).loops = f.loops
           /\ InSubclass(Current) => Current.depth = f.depth + 1
           /\ ~ InSubclass(Current) => Current.depth = f.depth
<1> DEFINE g == Shape(Current)
           x == Current.classes
<1>1. g.depth = Current.depth /\ g.classes = x BY NowIs, ShapeIs
<1>2. IsSeq(x) BY NowIs DEF IsCompiler
<1>3. \/ g = Frame(f.depth, Append(f.classes, FALSE), f.loops)
      \/ g = Frame(f.depth + 1, Append(f.classes, TRUE), f.loops)
  BY DEF Inside
<1> HIDE DEF g, x
<1>4. IsSeq(f.classes) BY DEF GoodFrame
<1>5. ASSUME NEW b, x = Append(f.classes, b)
      PROVE  Len(x) > 0 /\ Front(x) = f.classes /\ Last(x) = b /\ x # <<>>
  <2>1. Len(x) = Len(f.classes) + 1 /\ Len(f.classes) \in Nat BY <1>4, <1>5, AppendIs, SeqIs
  <2>2. Front(x) = f.classes /\ Last(x) = b BY <1>4, <1>5, FrontAppend
  <2>3. Len(<<>>) = 0 BY TupleIs
  <2> QED BY <2>1, <2>2, <2>3
<1>6. CASE g = Frame(f.depth, Append(f.classes, FALSE), f.loops)
  <2>1. PICK b : b = FALSE OBVIOUS
  <2>2. g = Frame(f.depth, Append(f.classes, b), f.loops) BY <1>6, <2>1
  <2>3. Current.depth = f.depth /\ x = Append(f.classes, b) /\ g.loops = f.loops BY <1>1, <2>2 DEF Frame
  <2>4. Len(x) > 0 /\ Front(x) = f.classes /\ Last(x) = b BY <1>5, <2>3
  <2>5. ~ InSubclass(Current)
    <3>1. Last(x) = FALSE BY <2>1, <2>4
    <3> QED BY <3>1, Zenon DEF InSubclass, x
  <2> QED BY <1>2, <2>3, <2>4, <2>5 DEF g, x
<1>7. CASE g = Frame(f.depth + 1, Append(f.classes, TRUE), f.loops)
  <2>1. PICK b : b = TRUE OBVIOUS
  <2>2. g = Frame(f.depth + 1, Append(f.classes, b), f.loops) BY <1>7, <2>1
  <2>3. Current.depth = f.depth + 1 /\ x = Append(f.classes, b) /\ g.loops = f.loops BY <1>1, <2>2 DEF Frame
  <2>4. Len(x) > 0 /\ Front(x) = f.classes /\ Last(x) = b /\ x # <<>> BY <1>5, <2>3
  <2>5. InSubclass(Current)
    <3>1. Last(x) = TRUE BY <2>1, <2>4
    <3> QED BY <2>4, <3>1, Zenon DEF InSubclass, InClass, x
  <2> QED BY <1>2, <2>3, <2>4, <2>5 DEF g, x
<1> QED BY <1>3, <1>6, <1>7

LEMMA EndClassIs == ASSUME Inv, EndClass PROVE Inv' /\ Found
<1> DEFINE x == Front(Current.classes)
           left == [Current EXCEPT !.classes = x]
           popped == Emit(left, <<Op("POP")>>)
           ended == EndScope(popped)
           g == Shape(Current)
           s == Last(scopes)
<1>1. Open.at = "class" BY DEF EndClass, Resume
<1>2. PICK f : GoodFrame(f) /\ Inside(Open.at, f, g) BY OpenIs
<1>3. IsSeq(x)
  <2>1. IsSeq(Current.classes) /\ Len(Current.classes) > 0 BY <1>1, <1>2, ClassAround
  <2> QED BY <2>1, FrontIs
<1>4. IsCompiler(Current) /\ Scoped(Current, s) /\ GoodFrame(g) BY NowIs
<1> DEFINE c == Current
<1>5. /\ Looks(left, c.type, c.locals, c.depth, c.loops, c.upvalues, x) /\ left.code = c.code
  <2> HIDE DEF x, c
  <2> QED BY <1>3, <1>4, ClassesAre DEF c
<1> HIDE DEF left, c
<1>6. IsCompiler(left) /\ left.locals = c.locals /\ left.depth = c.depth /\ left.loops = c.loops /\ left.classes = x
      /\ left.type = c.type /\ left.upvalues = c.upvalues
  BY <1>5 DEF Looks
<1>7. Scoped(left, s) BY <1>4, <1>6, LooksScoped DEF c
<1>8. Longer(Current, left) BY <1>4, <1>5, LongerSame DEF c
<1>9. Follows(left, s) BY <1>6, <1>7, <1>8 DEF Follows, c
<1>10. Coded(left, popped)
  <2>1. "POP" \notin Accesses BY DEF Accesses
  <2>2. AreHarmless(<<Op("POP")>>) BY <2>1, SingleHarmless
  <2> QED BY <1>6, <2>2, EmitCoded
<1>11. Shape(left) = Frame(g.depth, x, g.loops)
  <2>1. g.loops = [i \in DOMAIN c.loops |-> c.loops[i].depth] BY DEF Shape, Frame, c
  <2>2. g.depth = c.depth BY <1>4, ShapeIs DEF c
  <2> HIDE DEF g, x
  <2> QED BY <1>6, <2>1, <2>2 DEF Shape
<1> HIDE DEF popped
<1>12. Follows(popped, s) /\ Shape(popped) = Frame(g.depth, x, g.loops) BY <1>9, <1>10, <1>11, CodedFollowsOn
<1>13. popped.depth = g.depth
  <2>1. IsCompiler(popped) BY <1>12 DEF Follows
  <2> HIDE DEF g, x
  <2>2. Frame(g.depth, x, g.loops).depth = g.depth BY DEF Frame
  <2> QED BY <1>12, <2>1, <2>2, ShapeIs
<1>14. \A h : GoodFrame(h) /\ Inside(Open.at, h, g) =>
          /\ x = h.classes /\ g.loops = h.loops /\ h = Frame(h.depth, h.classes, h.loops) /\ h.depth \in Nat
          /\ InSubclass(Current) => g.depth = h.depth + 1
          /\ ~ InSubclass(Current) => g.depth = h.depth
  <2> TAKE h
  <2> HAVE GoodFrame(h) /\ Inside(Open.at, h, g)
  <2>1. g.depth = Current.depth BY <1>4, ShapeIs
  <2>2. h = Frame(h.depth, h.classes, h.loops) /\ h.depth \in Nat BY DEF GoodFrame
  <2> QED BY <1>1, <2>1, <2>2, ClassAround
<1>15. Open.at \notin {"program", "body"} BY <1>1
<1>16. CASE ~ InSubclass(Current)
  <2>1. Resume("class", TRUE, popped, Front(parsing), scopes) BY <1>16 DEF EndClass, popped, left
  <2>2. \A h : GoodFrame(h) /\ Inside(Open.at, h, Shape(Current)) => Shape(popped) = h
    <3> HIDE DEF x
    <3> QED BY <1>12, <1>14, <1>16
  <2>3. Rests(popped, Front(parsing), With(scopes, s)) BY <1>12, <1>15, <2>2, CloseSound
  <2>4. With(scopes, s) = scopes BY NowIs
  <2> QED BY <2>1, <2>3, <2>4, ResumeSound
<1>17. CASE InSubclass(Current)
  <2>1. Resume("class", TRUE, ended, Front(parsing), Left(scopes)) BY <1>17 DEF EndClass, popped, left
  <2>2. popped.depth > 0
    <3>1. g.depth = f.depth + 1 /\ f.depth \in Nat BY <1>2, <1>14, <1>17
    <3> HIDE DEF g
    <3> DEFINE D == f.depth
    <3>2. g.depth = D + 1 /\ D \in Nat BY <3>1
    <3> HIDE DEF D
    <3> QED BY <1>13, <3>2
  <2> DEFINE q == Shape(popped)
  <2>3. Follows(ended, Front(s)) /\ Shape(ended) = Frame(q.depth - 1, q.classes, q.loops)
    BY <1>12, <2>2, ScopeClosed
  <2>4. \A h : GoodFrame(h) /\ Inside(Open.at, h, Shape(Current)) => Shape(ended) = h
    <3> TAKE h
    <3> HAVE GoodFrame(h) /\ Inside(Open.at, h, Shape(Current))
    <3>1. /\ x = h.classes /\ g.loops = h.loops /\ h = Frame(h.depth, h.classes, h.loops) /\ h.depth \in Nat
          /\ g.depth = h.depth + 1
      BY <1>14, <1>17
    <3>2. q.depth = g.depth /\ q.classes = x /\ q.loops = g.loops
      <4> HIDE DEF g, x
      <4> QED BY <1>12 DEF Frame
    <3> DEFINE D == h.depth
    <3> HIDE DEF g, x, q, ended
    <3>3. q.depth - 1 = D
      <4>1. q.depth = D + 1 /\ D \in Nat BY <3>1, <3>2
      <4> HIDE DEF D
      <4> QED BY <4>1
    <3> QED BY <2>3, <3>1, <3>2, <3>3
  <2> HIDE DEF ended
  <2>5. Rests(ended, Front(parsing), With(scopes, Front(s))) BY <1>15, <2>3, <2>4, CloseSound
  <2> QED BY <2>1, <2>5, ResumeSound DEF Left
<1> QED BY <1>16, <1>17

-----------------------------------------------------------------------------
(* Functions.                                                                *)

\* The compiler of a function before its parameters are declared.
LEMMA EmptyIs ==
    ASSUME NEW type \in FunctionTypes, NEW classes, IsSeq(classes), NEW level
    PROVE  LET empty == MarkInitialised(BeginScope(NewCompiler(type, classes, level)))
               l == Local(Receiver(type), 1, <<level, 0, "this">>)
           IN /\ Looks(empty, type, empty.locals, 1, <<>>, <<>>, classes)
              /\ Len(empty.locals) = 1
              /\ empty.locals[1].name = l.name /\ empty.locals[1].depth = 1 /\ empty.locals[1].id = l.id
<1> DEFINE k == Local(Receiver(type), 0, <<level, 0, "this">>)
           l == Local(Receiver(type), 1, <<level, 0, "this">>)
           c == NewCompiler(type, classes, level)
           d == BeginScope(c)
           e == MarkInitialised(d)
<1>1. IsLocal(k) /\ k.name = l.name /\ k.id = l.id BY DEF IsLocal, Local
<1>2. /\ c = [type |-> c.type, arity |-> c.arity, locals |-> c.locals, depth |-> c.depth,
              loops |-> c.loops, upvalues |-> c.upvalues, classes |-> c.classes,
              exports |-> c.exports, code |-> c.code, marks |-> c.marks]
      /\ c.type = type /\ c.locals = <<k>> /\ c.depth = 0 /\ c.loops = <<>> /\ c.upvalues = <<>>
      /\ c.classes = classes /\ c.code = <<>>
  BY DEF NewCompiler
<1> HIDE DEF c, k
<1>3. IsSeq(<<>>) /\ DOMAIN <<>> = {} /\ IsSeq(<<k>>) /\ Len(<<k>>) = 1 /\ <<k>>[1] = k
  BY TupleIs, SeqIs
<1>4. IsCompiler(c)
  <2>1. IsSeq(c.locals) /\ Len(c.locals) = 1 /\ c.locals[1] = k BY <1>2, <1>3
  <2>2. \A i \in DOMAIN c.locals : IsLocal(c.locals[i])
    <3>1. DOMAIN c.locals = 1..1 BY <2>1, SeqIs
    <3> QED BY <1>1, <2>1, <3>1
  <2>3. /\ IsSeq(c.loops) /\ \A i \in DOMAIN c.loops : IsLoop(c.loops[i])
        /\ IsSeq(c.upvalues) /\ \A i \in DOMAIN c.upvalues : IsUpvalue(c.upvalues[i])
        /\ IsSeq(c.classes) /\ IsSeq(c.code)
    BY <1>2, <1>3
  <2>4. c.type \in ProgramTypes \cup FunctionTypes /\ c.depth \in Nat BY <1>2
  <2> QED BY <1>2, <2>1, <2>2, <2>3, <2>4 DEF IsCompiler
<1>5. Looks(d, type, <<k>>, 1, <<>>, <<>>, classes)
  <2>1. Looks(d, c.type, c.locals, c.depth + 1, c.loops, c.upvalues, c.classes) BY <1>4, BeginScopeIs
  <2> QED BY <1>2, <2>1
<1> HIDE DEF d
<1>6. IsCompiler(d) /\ d.locals = <<k>> /\ d.depth = 1 /\ d.type = type /\ d.loops = <<>> /\ d.upvalues = <<>>
      /\ d.classes = classes
  BY <1>5 DEF Looks
<1>7. Len(d.locals) = 1 /\ d.locals[1] = k /\ ~ IsGlobalScope(d) BY <1>3, <1>6 DEF IsGlobalScope
<1>8. Looks(e, d.type, e.locals, d.depth, d.loops, d.upvalues, d.classes) /\ LastMarked(d, e)
  <2>1. Len(d.locals) > 0 BY <1>7
  <2> QED BY <1>6, <1>7, <2>1, MarkIs
<1> HIDE DEF e
<1>9. Len(e.locals) = 1 /\ e.locals[1].name = k.name /\ e.locals[1].id = k.id /\ e.locals[1].depth = 1
  BY <1>6, <1>7, <1>8 DEF LastMarked
<1> HIDE DEF l
<1>10. Looks(e, type, e.locals, 1, <<>>, <<>>, classes) BY <1>6, <1>8
<1> QED BY <1>1, <1>9, <1>10 DEF e, d, c, l

\* The parameters are locals of the function, after what it is called on.
LEMMA ParametersAre ==
    ASSUME NEW type \in FunctionTypes, NEW classes, IsSeq(classes), NEW params, IsSeq(params)
    PROVE  LET c == Parameters(type, classes, params)
               level == Len(compilers) + 1
               r == Local(Receiver(type), 1, <<level, 0, "this">>)
               p(i) == Local(params[i], 1, <<level, 1, params[i]>>)
           IN /\ Looks(c, type, c.locals, 1, <<>>, <<>>, classes)
              /\ Len(c.locals) = Len(params) + 1
              /\ c.locals[1].name = r.name /\ c.locals[1].depth = 1 /\ c.locals[1].id = r.id
              /\ \A i \in 1..Len(params) : c.locals[i + 1] = p(i)
<1> DEFINE level == Len(compilers) + 1
           r == Local(Receiver(type), 1, <<level, 0, "this">>)
           empty == MarkInitialised(BeginScope(NewCompiler(type, classes, level)))
           more == [i \in DOMAIN params |-> Local(params[i], empty.depth, <<level, 1, params[i]>>)]
           n == Len(params)
<1>1. n \in Nat /\ DOMAIN params = 1..n BY SeqIs
<1>2. /\ Looks(empty, type, empty.locals, 1, <<>>, <<>>, classes)
      /\ Len(empty.locals) = 1
      /\ empty.locals[1].name = r.name /\ empty.locals[1].depth = 1 /\ empty.locals[1].id = r.id
  BY EmptyIs
<1>3. IsCompiler(empty) /\ empty.depth = 1 /\ empty.type = type /\ empty.loops = <<>> /\ empty.upvalues = <<>>
      /\ empty.classes = classes
  BY <1>2 DEF Looks
<1>4. Parameters(type, classes, params) = [[empty EXCEPT !.arity = n] EXCEPT !.locals = empty.locals \o more]
  <2> DEFINE low == [[empty EXCEPT !.arity = n] EXCEPT !.locals = empty.locals \o more]
  <2>1. Parameters(type, classes, params) = [empty EXCEPT !.arity = n, !.locals = @ \o more]
    BY DEF Parameters
  <2> HIDE DEF empty, more, n
  <2>2. [empty EXCEPT !.arity = n, !.locals = @ \o more] = low OBVIOUS
  <2> QED BY <2>1, <2>2
<1> DEFINE a == [empty EXCEPT !.arity = n]
<1> HIDE DEF r, empty
<1>5. Looks(a, type, empty.locals, 1, <<>>, <<>>, classes)
  <2>1. Looks(a, empty.type, empty.locals, empty.depth, empty.loops, empty.upvalues, empty.classes)
    BY <1>3, ArityIs
  <2> QED BY <1>3, <2>1
<1> HIDE DEF a
<1>6. IsCompiler(a) /\ a.locals = empty.locals /\ IsSeq(a.locals) /\ Len(a.locals) = 1 BY <1>2, <1>5 DEF Looks, IsCompiler
<1>7. IsSeq(more) /\ Len(more) = n /\ \A i \in 1..n : more[i] = Local(params[i], 1, <<level, 1, params[i]>>)
  <2>1. \A i \in 1..n : more[i] = Local(params[i], 1, <<level, 1, params[i]>>) BY <1>1, <1>3
  <2>2. more = [i \in 1..n |-> more[i]] BY <1>1
  <2> HIDE DEF more, n
  <2> QED BY <1>1, <2>1, <2>2, FunctionIs
<1> HIDE DEF more, level, n
<1> DEFINE x == a.locals \o more
           c == [a EXCEPT !.locals = x]
<1>8. /\ IsSeq(x) /\ Len(x) = n + 1 /\ x[1] = a.locals[1]
      /\ \A i \in 1..n : x[i + 1] = more[i]
  <2>1. /\ IsSeq(x) /\ Len(x) = Len(a.locals) + Len(more) /\ \A i \in 1..Len(a.locals) : x[i] = a.locals[i]
        /\ \A i \in 1..Len(more) : x[Len(a.locals) + i] = more[i]
    <3>1. IsSeq(a.locals) /\ IsSeq(more) BY <1>6, <1>7
    <3> QED BY <3>1, ConcatIs
  <2> HIDE DEF x
  <2>2. \A i \in 1..n : 1 + i = i + 1 BY <1>1
  <2>3. Len(x) = n + 1 BY <1>1, <1>6, <1>7, <2>1
  <2> QED BY <1>6, <1>7, <2>1, <2>2, <2>3
<1>9. \A i \in DOMAIN x : IsLocal(x[i])
  <2>1. DOMAIN x = 1..n + 1
    <3> HIDE DEF x
    <3> QED BY <1>8, SeqIs
  <2>2. IsLocal(x[1])
    <3>1. 1 \in DOMAIN a.locals BY <1>6, SeqIs
    <3> QED BY <1>6, <1>8, <3>1 DEF IsCompiler
  <2>3. \A i \in 1..n : IsLocal(x[i + 1])
    <3>1. \A y, z, w : IsLocal(Local(y, z, w)) BY DEF IsLocal, Local
    <3> HIDE DEF x
    <3> TAKE i \in 1..n
    <3>2. x[i + 1] = Local(params[i], 1, <<level, 1, params[i]>>) BY <1>7, <1>8
    <3>3. IsLocal(Local(params[i], 1, <<level, 1, params[i]>>)) BY <3>1
    <3> QED BY <3>2, <3>3
  <2> TAKE i \in DOMAIN x
  <2> HIDE DEF x, n
  <2>4. i = 1 \/ (i - 1 \in 1..n /\ i = (i - 1) + 1) BY <1>1, <2>1
  <2> QED BY <2>2, <2>3, <2>4
<1>10. Looks(c, a.type, x, a.depth, a.loops, a.upvalues, a.classes)
  <2> HIDE DEF x
  <2> QED BY <1>6, <1>8, <1>9, LocalsAre
<1>11. c = Parameters(type, classes, params) BY <1>4, <1>6 DEF a
<1> HIDE DEF c, x
<1>12. c.locals = x BY <1>10 DEF Looks
<1>13. Looks(c, type, c.locals, 1, <<>>, <<>>, classes) BY <1>5, <1>10, <1>12 DEF Looks
<1>14. Len(c.locals) = Len(params) + 1 /\ \A i \in 1..Len(params) : c.locals[i + 1] = Local(params[i], 1, <<level, 1, params[i]>>)
  BY <1>7, <1>8, <1>12 DEF n
<1> QED BY <1>2, <1>6, <1>8, <1>11, <1>12, <1>13, <1>14 DEF r, level

\* A function begins with its parameters in scope.
LEMMA ParametersScoped ==
    ASSUME NEW type \in FunctionTypes, NEW classes, IsSeq(classes), NEW params, IsSeq(params),
           \A i \in 1..Len(params) : params[i] # "this"
    PROVE  LET c == Parameters(type, classes, params) IN
           /\ IsCompiler(c) /\ c.type = type /\ c.upvalues = <<>> /\ c.code = <<>>
           /\ Shape(c) = Frame(1, classes, <<>>) /\ GoodFrame(Shape(c))
           /\ Scoped(c, ParameterScopes(type, params))
<1> DEFINE c == Parameters(type, classes, params)
           level == Len(compilers) + 1
           r == Local(Receiver(type), 1, <<level, 0, "this">>)
           n == Len(params)
           names == ToSet(params) \cup (IF Receiver(type) = "this" THEN {"this"} ELSE {})
           inner == [x \in names |-> IF x = "this" THEN <<level, 0, x>> ELSE <<level, 1, x>>]
           s == << <<>>, inner >>
<1>1. /\ Looks(c, type, c.locals, 1, <<>>, <<>>, classes)
      /\ Len(c.locals) = n + 1
      /\ c.locals[1].name = r.name /\ c.locals[1].depth = 1 /\ c.locals[1].id = r.id
      /\ \A i \in 1..n : c.locals[i + 1] = Local(params[i], 1, <<level, 1, params[i]>>)
  BY ParametersAre
<1>2. n \in Nat /\ DOMAIN params = 1..n BY SeqIs
<1>3. s = ParameterScopes(type, params) BY DEF ParameterScopes
<1>4. r.name = Receiver(type) /\ r.id = <<level, 0, "this">> BY DEF Local
<1> HIDE DEF c, r
<1>5. /\ IsCompiler(c) /\ c.type = type /\ c.depth = 1 /\ c.loops = <<>> /\ c.upvalues = <<>> /\ c.classes = classes
  BY <1>1 DEF Looks
<1>6. \A i \in 1..n : /\ c.locals[i + 1].name = params[i] /\ c.locals[i + 1].depth = 1
                      /\ c.locals[i + 1].id = <<level, 1, params[i]>>
  <2> HIDE DEF level, n
  <2> TAKE i \in 1..n
  <2> DEFINE l == Local(params[i], 1, <<level, 1, params[i]>>)
  <2>1. l.name = params[i] /\ l.depth = 1 /\ l.id = <<level, 1, params[i]>> BY DEF Local
  <2>2. c.locals[i + 1] = l BY <1>1
  <2> HIDE DEF l
  <2> QED BY <2>1, <2>2
<1>7. \A i \in 1..n + 1 : i = 1 \/ (i - 1 \in 1..n /\ (i - 1) + 1 = i)
  <2> HIDE DEF n
  <2> QED BY <1>2
<1>8. \A i \in 1..n + 1 : c.locals[i].depth = 1
  <2> TAKE i \in 1..n + 1
  <2> HIDE DEF n, level
  <2>1. CASE i = 1 BY <1>1, <2>1
  <2>2. CASE i # 1
    <3> DEFINE k == i - 1
    <3>1. k \in 1..n /\ k + 1 = i BY <1>7, <2>2
    <3> HIDE DEF k
    <3> QED BY <1>6, <3>1
  <2> QED BY <2>1, <2>2
<1>9. s[1] = <<>> /\ s[2] = inner /\ IsSeq(s) /\ Len(s) = 2
  <2> DEFINE S == {<<>>, inner}
  <2>1. s \in Seq(S)
    <3> HIDE DEF inner
    <3> QED OBVIOUS
  <2> HIDE DEF inner, S
  <2> QED BY <2>1 DEF IsSeq
<1>20. s[1 + 1] = inner
  <2> HIDE DEF s, inner
  <2>1. 1 + 1 = 2 OBVIOUS
  <2> QED BY <1>9, <2>1
<1>10. DOMAIN inner = names /\ \A x \in names : inner[x] = IF x = "this" THEN <<level, 0, x>> ELSE <<level, 1, x>>
  <2> HIDE DEF names, level
  <2> QED OBVIOUS
<1> HIDE DEF inner, s
<1>11. \A x \in names : (x = "this" /\ Receiver(type) = "this") \/ \E i \in 1..n : x = params[i]
  <2> TAKE x \in names
  <2>1. x \in ToSet(params) \/ (x = "this" /\ Receiver(type) = "this") OBVIOUS
  <2> QED BY <1>2, <2>1 DEF ToSet
<1>12. /\ \A i \in 1..n : params[i] \in names
       /\ Receiver(type) = "this" => "this" \in names
  BY <1>2 DEF ToSet
<1> HIDE DEF names, n, level
<1>13. BoundAreLocals(c, s)
  <2> SUFFICES ASSUME NEW d \in 0..c.depth, NEW x \in DOMAIN s[d + 1]
               PROVE  \E i \in 1..Len(c.locals) : c.locals[i].depth = d /\ c.locals[i].name = x
    BY DEF BoundAreLocals
  <2>1. d # 0
    <3>1. DOMAIN <<>> = {} OBVIOUS
    <3>2. d = 0 => s[d + 1] = <<>> BY <1>9
    <3> QED BY <3>1, <3>2
  <2>2. d = 1 BY <1>5, <2>1
  <2>3. x \in names BY <1>9, <1>10, <2>2
  <2>4. CASE x = "this" /\ Receiver(type) = "this"
    <3>1. 1 \in 1..Len(c.locals) BY <1>1, <1>2
    <3> QED BY <1>1, <1>4, <2>2, <2>4, <3>1
  <2>5. CASE \E i \in 1..n : x = params[i]
    <3>1. PICK i \in 1..n : x = params[i] BY <2>5
    <3>2. i + 1 \in 1..Len(c.locals) BY <1>1, <1>2
    <3>3. c.locals[i + 1].name = x /\ c.locals[i + 1].depth = d BY <1>6, <2>2, <3>1
    <3> DEFINE k == i + 1
    <3> HIDE DEF k
    <3>4. k \in 1..Len(c.locals) /\ c.locals[k].name = x /\ c.locals[k].depth = d BY <3>2, <3>3 DEF k
    <3> QED BY <3>4
  <2> QED BY <1>11, <2>3, <2>4, <2>5
<1>14. LocalsAreBound(c, s)
  <2> SUFFICES ASSUME NEW i \in 1..Len(c.locals), c.locals[i].name # ""
               PROVE  /\ c.locals[i].name \in DOMAIN s[c.locals[i].depth + 1]
                      /\ s[c.locals[i].depth + 1][c.locals[i].name] = c.locals[i].id
    BY DEF LocalsAreBound
  <2>1. i \in 1..n + 1 BY <1>1
  <2>2. s[c.locals[i].depth + 1] = inner
    <3> DEFINE D == c.locals[i].depth
    <3>1. D = 1 BY <1>8, <2>1
    <3> HIDE DEF D
    <3>2. s[1 + 1] = inner BY <1>20
    <3>3. s[D + 1] = inner BY <3>1, <3>2, Zenon
    <3> QED BY <3>3 DEF D
  <2>3. CASE i = 1
    <3>1. Receiver(type) # "" BY <1>1, <1>4, <2>3
    <3>2. Receiver(type) = "this" BY <3>1 DEF Receiver
    <3>3. inner["this"] = <<level, 0, "this">> BY <1>10, <1>12, <3>2
    <3> QED BY <1>1, <1>4, <1>10, <1>12, <2>2, <2>3, <3>2, <3>3
  <2>4. CASE i # 1
    <3> DEFINE k == i - 1
    <3>1. k \in 1..n /\ k + 1 = i BY <1>7, <2>1, <2>4
    <3> HIDE DEF k
    <3>2. c.locals[i].name = params[k] /\ c.locals[i].id = <<level, 1, params[k]>> BY <1>6, <3>1
    <3>3. params[k] \in names /\ params[k] # "this" BY <1>12, <3>1 DEF n
    <3>4. inner[params[k]] = <<level, 1, params[k]>> BY <1>10, <3>3
    <3> QED BY <1>10, <2>2, <3>2, <3>3, <3>4
  <2> QED BY <2>3, <2>4
<1>15. Ordered(c)
  <2>1. \A i \in 1..Len(c.locals) : c.locals[i].depth = 1 BY <1>1, <1>8
  <2> QED BY <1>5, <2>1 DEF Ordered
<1>16. Scoped(c, s) BY <1>5, <1>9, <1>13, <1>14, <1>15 DEF Scoped
<1>17. Shape(c) = Frame(1, classes, <<>>)
  <2>1. IsSeq(<<>>) /\ Len(<<>>) = 0 BY TupleIs
  <2>2. Len(c.loops) = Len(<<>>) /\ \A i \in 1..Len(<<>>) : c.loops[i].depth = <<>>[i] BY <1>5, <2>1
  <2> QED BY <1>5, <2>1, <2>2, ShapeFrom
<1>18. GoodFrame(Frame(1, classes, <<>>))
  <2> DEFINE g == Frame(1, classes, <<>>)
  <2>1. g.depth = 1 /\ g.classes = classes /\ g.loops = <<>> /\ g = Frame(g.depth, g.classes, g.loops) BY DEF Frame
  <2>2. IsSeq(<<>>) /\ Len(<<>>) = 0 BY TupleIs
  <2> HIDE DEF g
  <2> QED BY <2>1, <2>2 DEF GoodFrame
<1>19. c.code = <<>>
  <2> QED BY DEF c, Parameters, MarkInitialised, BeginScope, NewCompiler, IsGlobalScope
<1> QED BY <1>3, <1>5, <1>16, <1>17, <1>18, <1>19 DEF c, s

\* One function more.
LEMMA DeeperScoping ==
    ASSUME NEW ds, NEW ss, Scoping(ds, ss), NEW c, IsCompiler(c), c.upvalues = <<>>, c.type \in FunctionTypes,
           NEW s, Scoped(c, s), GoodFrame(Shape(c))
    PROVE  LET es == Append(ds, c) IN
           /\ Scoping(es, Append(ss, s))
           /\ Len(es) = Len(ds) + 1 /\ es[Len(es)] = c /\ \A k \in 1..Len(ds) : es[k] = ds[k]
<1> DEFINE es == Append(ds, c)
           ts == Append(ss, s)
           n == Len(ds)
<1>1. IsSeq(ds) /\ n \in Nat /\ n > 0 /\ \A k \in 1..n : IsCompiler(ds[k]) BY CompilersAre DEF Scoping
<1>2. IsSeq(ss) /\ Len(ss) = n BY DEF Scoping
<1>3. IsSeq(es) /\ Len(es) = n + 1 /\ es[n + 1] = c /\ \A k \in 1..n : es[k] = ds[k] BY <1>1, AppendIs
<1>4. IsSeq(ts) /\ Len(ts) = n + 1 /\ ts[n + 1] = s /\ \A k \in 1..n : ts[k] = ss[k] BY <1>2, AppendIs
<1>5. Linked(ds) BY DEF Scoping, Compilers
<1>6. \A k \in 1..n : Scoped(ds[k], ss[k]) /\ GoodFrame(Shape(ds[k])) /\ ((k = 1) <=> ds[k].type \in ProgramTypes)
  BY DEF Scoping
<1> HIDE DEF es, ts, n
<1>7. \A k \in 1..n + 1 : k \in 1..n \/ k = n + 1 BY <1>1
<1>8. Len(c.upvalues) = 0 BY TupleIs
<1>9. Linked(es)
  <2>1. 1 \in 1..n BY <1>1
  <2>2. Len(es[1].upvalues) = 0 BY <1>3, <1>5, <2>1 DEF Linked
  <2>3. ASSUME NEW k \in 2..Len(es), NEW i \in 1..Len(es[k].upvalues)
        PROVE  InRange(es[k].upvalues[i], es[k - 1])
    <3>1. k \in 1..n + 1 /\ k - 1 \in 1..n BY <1>1, <1>3
    <3>2. CASE k = n + 1 BY <1>3, <1>8, <3>2
    <3>3. CASE k \in 1..n
      <4>1. k \in 2..Len(ds) BY <1>1, <3>3 DEF n
      <4>2. es[k] = ds[k] /\ es[k - 1] = ds[k - 1] BY <1>3, <3>1, <3>3
      <4> QED BY <1>5, <4>1, <4>2 DEF Linked
    <3> QED BY <1>7, <3>1, <3>2, <3>3
  <2> QED BY <2>2, <2>3 DEF Linked
<1>10. Compilers(es)
  <2>1. \A k \in 1..n + 1 : IsCompiler(es[k]) BY <1>1, <1>3, <1>7
  <2> QED BY <1>1, <1>3, <1>9, <2>1 DEF Compilers
<1>11. \A k \in 1..n + 1 : Scoped(es[k], ts[k]) /\ GoodFrame(Shape(es[k])) /\ ((k = 1) <=> es[k].type \in ProgramTypes)
  <2> TAKE k \in 1..n + 1
  <2>1. CASE k \in 1..n BY <1>3, <1>4, <1>6, <2>1
  <2>2. CASE k = n + 1
    <3>1. k # 1 BY <1>1, <2>2
    <3>2. c.type \notin ProgramTypes BY DEF ProgramTypes, FunctionTypes
    <3> QED BY <1>3, <1>4, <2>2, <3>1, <3>2
  <2> QED BY <1>7, <2>1, <2>2
<1>12. Scoping(es, ts) BY <1>3, <1>4, <1>10, <1>11 DEF Scoping
<1> QED BY <1>3, <1>12 DEF es, ts, n

\* A function's body begins, after what is declared before it.
LEMMA BodyOpened ==
    ASSUME Inv, NEW d, NEW t, Follows(d, t), Shape(d) = Shape(Current),
           NEW type \in FunctionTypes, NEW params \in source.params,
           NEW qs, SameCalls(parsing, qs), NEW p, IsCall(p), p.at = "body", Declared(d, p.name)
    PROVE  Sound(Append(With(compilers, d), Parameters(type, Current.classes, params)), Append(qs, p),
                 Append(With(scopes, t), ParameterScopes(type, params)))
<1> DEFINE n == Len(compilers)
           ds == With(compilers, d)
           ts == With(scopes, t)
           c == Parameters(type, Current.classes, params)
           s == ParameterScopes(type, params)
           es == Append(ds, c)
<1>1. /\ Compilers(compilers) /\ Current = compilers[n] /\ IsCompiler(Current) /\ GoodFrame(Shape(Current))
      /\ n \in 1..n /\ n \in Nat
  BY NowIs, CompilersAre
<1>2. IsSeq(params) /\ \A i \in 1..Len(params) : params[i] # "this"
  <2>1. params \in Seq(source.names) /\ \A x \in source.names : x # "this" BY SourceIs
  <2> QED BY <2>1 DEF IsSeq
<1>3. IsSeq(Current.classes) BY <1>1 DEF IsCompiler
<1>4. /\ IsCompiler(c) /\ c.type = type /\ c.upvalues = <<>> /\ c.code = <<>>
      /\ Shape(c) = Frame(1, Current.classes, <<>>) /\ GoodFrame(Shape(c))
      /\ Scoped(c, s)
  BY <1>2, <1>3, ParametersScoped
<1> HIDE DEF c, s
<1>5. Onward(compilers, ds) /\ ds[n] = d BY FollowsIs
<1>6. Compilers(ds) /\ Len(ds) = n BY <1>5 DEF Onward
<1> HIDE DEF ds
<1>7. Scoping(ds, ts)
  <2>1. Scoping(compilers, scopes) BY DEF Inv
  <2>2. Scoped(ds[n], t) /\ GoodFrame(Shape(ds[n])) BY <1>1, <1>5 DEF Follows
  <2> QED BY <1>5, <2>1, <2>2, ScopingStep
<1> HIDE DEF ts
<1>8. /\ Scoping(es, Append(ts, s)) /\ Len(es) = n + 1 /\ es[Len(es)] = c
      /\ \A k \in 1..n : es[k] = ds[k]
  BY <1>4, <1>6, <1>7, DeeperScoping
<1> HIDE DEF es
<1>9. Compilers(es) BY <1>8 DEF Scoping
<1>10. Led(es)
  <2> HIDE DEF n
  <2>1. ~ (Len(es) < n) /\ Len(es) # n BY <1>1, <1>8
  <2> QED BY <2>1 DEF Led, n
<1>11. PICK level, frame : NestedAs(level, frame, compilers, parsing) BY DEF Inv, Nesting
<1>12. \A j \in 1..Len(parsing) : qs[j].at = "body" =>
          frame[j] = Shape(es[level[j]]) /\ Declared(es[level[j]], qs[j].name)
  <2>1. \A j \in 1..Len(parsing) : qs[j].at = "body" =>
          /\ level[j] \in 1..n - 1 /\ frame[j] = Shape(ds[level[j]]) /\ Declared(ds[level[j]], qs[j].name)
    BY <1>1, <1>5, <1>11, BodiesKept
  <2>2. \A x \in 1..n - 1 : x \in 1..n BY <1>1
  <2> QED BY <1>8, <2>1, <2>2
<1> DEFINE g == Shape(c)
           f == Shape(Current)
<1>13. Inside(p.at, f, g)
  <2>1. g = Frame(1, f.classes, <<>>)
    <3>1. f.classes = Current.classes BY <1>1, ShapeIs
    <3> HIDE DEF f, g
    <3> QED BY <1>4, <3>1 DEF g
  <2> HIDE DEF f, g
  <2> QED BY <2>1 DEF Inside
<1>14. p.at \in Kinds /\ p.at # "program" BY DEF Kinds
<1>15. f = Shape(es[n]) /\ Declared(es[n], p.name) BY <1>1, <1>5, <1>8
<1> HIDE DEF f
<1>16. Nesting(es, Append(qs, p))
  <2> DEFINE x == n + 1
  <2>1. /\ x = Len(es) /\ g = Shape(es[Len(es)])
        /\ x = IF p.at = "body" THEN Len(compilers) + 1 ELSE Len(compilers)
    BY <1>8
  <2>2. /\ Inside(p.at, Shape(compilers[Len(compilers)]), g) /\ GoodFrame(Shape(compilers[Len(compilers)]))
        /\ p.at = "body" => Shape(compilers[Len(compilers)]) = Shape(es[Len(compilers)])
                            /\ Declared(es[Len(compilers)], p.name)
    BY <1>1, <1>13, <1>15 DEF f
  <2> HIDE DEF x, n, g
  <2>3. NestedAs(Append(level, x), Append(frame, g), es, Append(qs, p))
    BY <1>1, <1>9, <1>11, <1>12, <1>14, <2>1, <2>2, InsideOpened
  <2> QED BY <2>3 DEF Nesting
<1> QED BY <1>8, <1>10, <1>16 DEF Sound, es, ds, ts, c, s

LEMMA MethodIs ==
    ASSUME Inv, NEW type \in {"method", "initialiser"}, NEW params \in source.params, Method(type, params)
    PROVE  Inv' /\ Found
<1> DEFINE ok == GoodParameters(params)
           es == Append(compilers, Parameters(type, Current.classes, params))
           p == At("body")
           ss == Append(scopes, ParameterScopes(type, params))
<1>1. Begin("method", ok, es, Append(parsing, p), ss) BY DEF Method
<1>2. IsCompiler(Current) /\ Compilers(compilers) /\ Current = compilers[Len(compilers)]
      /\ With(scopes, Last(scopes)) = scopes
  BY NowIs
<1>3. Follows(Current, Last(scopes)) BY <1>2, CodedRefl, CodedFollows
<1>4. With(compilers, Current) = compilers
  <2>1. IsSeq(compilers) /\ Len(compilers) > 0 BY <1>2, CompilersAre
  <2> QED BY <1>2, <2>1, WithWith
<1>5. IsCall(p) /\ p.at = "body" BY AtIs
<1>6. Declared(Current, p.name)
  <2>1. p.name = "none" BY DEF At
  <2> HIDE DEF p
  <2> QED BY <2>1 DEF Declared
<1> HIDE DEF p
<1>7. type \in FunctionTypes BY DEF FunctionTypes
<1>8. Sound(es, Append(parsing, p), ss) BY <1>2, <1>3, <1>4, <1>5, <1>6, <1>7, StartedIs, BodyOpened
<1> HIDE DEF es, ok, ss
<1> QED BY <1>1, <1>8, BeginSound

LEMMA FunctionDeclarationIs ==
    ASSUME Inv, NEW name \in source.names, NEW params \in source.params, FunctionDeclaration(name, params)
    PROVE  Inv' /\ Found
<1> DEFINE m == Mark(Current)
           id == Declaration(name)
           w == DeclareVariable(m, name, id)
           d == MarkInitialised(w)
           ok == CanDeclare(Current, name) /\ GoodParameters(params)
           es == Append(With(compilers, d), Parameters("function", Current.classes, params))
           p == [At("body") EXCEPT !.name = name]
           ss == Append(Bound(name), ParameterScopes("function", params))
<1>1. Begin("function", ok, es, Append(Started, p), ss)
  <2>1. Last(Marked) = m /\ \A e : With(Marked, e) = With(compilers, e) BY MarkedIs
  <2>2. Declare("function", ok, es, Append(Started, p), ss)
    BY <2>1 DEF FunctionDeclaration, Waiting
  <2> HIDE DEF ok, es, p, ss
  <2> QED BY <2>2 DEF Declare
<1>2. ASSUME ok PROVE Sound(es, Append(Started, p), ss)
  <2>1. Coded(Current, m) /\ IsCompiler(m) BY MarkedIs
  <2>2. PICK t : Bound(name) = With(scopes, t) /\ Binds(Current, Last(scopes), t, name, id) BY BoundIs
  <2>3. Follows(m, Last(scopes)) /\ Shape(m) = Shape(Current) BY <2>1, CodedFollows
  <2> HIDE DEF id, m
  <2>4. CanDeclare(m, name) /\ Binds(m, Last(scopes), t, name, id) BY <1>2, <2>1, <2>2, CodedSame
  <2>5. IsCompiler(w) BY <2>1, DeclaredCompiler
  <2>6. Coded(w, w) /\ (~ IsGlobalScope(w) => Len(w.locals) > 0)
    <3>1. Coded(w, w)
      <4> HIDE DEF w
      <4> QED BY <2>5, CodedRefl
    <3> QED BY <2>1, <3>1, DeclaredLocals
  <2>7. /\ Follows(d, t) /\ Shape(d) = Shape(m) /\ IsCompiler(d)
        /\ IF IsGlobalScope(w) THEN d.locals = w.locals ELSE LastMarked(w, d)
    BY <2>3, <2>4, <2>6, MarkFollows
  <2>8. d = w \/ (d.depth = w.depth /\ ~ IsGlobalScope(w))
    <3> HIDE DEF w
    <3>1. CASE IsGlobalScope(w) BY <3>1 DEF MarkInitialised
    <3>2. CASE ~ IsGlobalScope(w)
      <4>1. Looks(d, w.type, d.locals, w.depth, w.loops, w.upvalues, w.classes) BY <2>5, <2>6, <3>2, MarkIs
      <4> QED BY <3>2, <4>1 DEF Looks
    <3> QED BY <3>1, <3>2
  <2>9. IsCall(p) /\ p.at = "body" /\ p.name = name BY AtIs
  <2> HIDE DEF p, d, w
  <2>10. Declared(d, p.name)
    <3>1. CASE IsGlobalScope(w)
      <4>1. d = w BY <2>8, <3>1
      <4> QED BY <3>1, <4>1 DEF Declared
    <3>2. CASE ~ IsGlobalScope(w)
      <4> DEFINE L == Len(w.locals)
      <4>1. L \in Nat /\ L > 0 BY <2>5, <2>6, <3>2, SeqIs DEF IsCompiler
      <4>2. Len(d.locals) = L /\ d.depth = w.depth /\ \A i \in 1..L : d.locals[i].depth = IF i = L THEN w.depth ELSE w.locals[i].depth
        BY <2>7, <2>8, <3>2 DEF LastMarked
      <4> HIDE DEF L
      <4>3. L \in 1..L BY <4>1
      <4>4. d.locals[L].depth = d.depth BY <4>2, <4>3
      <4> QED BY <4>1, <4>2, <4>4 DEF Declared
    <3> QED BY <3>1, <3>2
  <2>11. "function" \in FunctionTypes BY DEF FunctionTypes
  <2>12. Sound(es, Append(Started, p), Append(With(scopes, t), ParameterScopes("function", params)))
    BY <2>3, <2>7, <2>9, <2>10, <2>11, StartedIs, BodyOpened
  <2> QED BY <2>2, <2>12
<1> HIDE DEF es, ok, p, ss
<1> QED BY <1>1, <1>2, BeginSound

-----------------------------------------------------------------------------
(* The end of a function: a closure of it, which captures what its upvalues  *)
(* stand for.                                                                *)

\* The targets of a function's upvalues are a function of their indices.
LEMMA TargetsMap ==
    ASSUME NEW cs, Compilers(cs), NEW k \in 1..Len(cs)
    PROVE  UpvalueTargets(cs, k) = [i \in DOMAIN cs[k].upvalues |-> UpvalueTargets(cs, k)[i]]
<1>1. FirstHasNone(cs) BY FirstIs
<1>2. Len(cs) \in Nat BY SeqIs DEF Compilers
<1> DEFINE f(n) == CHOOSE h : TargetsPart(cs, n, h)
<1>3. \A n : UpvalueTargets(cs, n) = f(n)[n] BY DEF UpvalueTargets, TargetsPart, TargetsAt
<1>4. \A n \in Nat : TargetsPart(cs, n, f(n)) BY <1>1, TargetsExist
<1> HIDE DEF f
<1>5. k \in Nat /\ k \in 1..k BY <1>2
<1>6. f(k)[k] = TargetsAt(cs, f(k), k) BY <1>4, <1>5 DEF TargetsPart
<1>7. UpvalueTargets(cs, k) = TargetsAt(cs, f(k), k) BY <1>3, <1>6
<1> QED BY <1>7 DEF TargetsAt

\* The functions around the innermost one.
LEMMA AroundIs ==
    ASSUME NEW cs, Compilers(cs), NEW n, n = Len(cs), n > 1
    PROVE  LET rest == Front(cs) IN
           /\ Compilers(rest) /\ Len(rest) = n - 1 /\ \A k \in 1..n - 1 : rest[k] = cs[k]
           /\ n - 1 \in 1..n - 1 /\ n - 1 \in 1..n /\ n \in 1..n
<1> DEFINE rest == Front(cs)
<1>1. IsSeq(cs) /\ n \in Nat /\ n > 0 /\ (\A k \in 1..n : IsCompiler(cs[k])) /\ Linked(cs)
  BY CompilersAre DEF Compilers
<1>2. IsSeq(rest) /\ Len(rest) = n - 1 /\ \A k \in 1..n - 1 : rest[k] = cs[k] BY <1>1, FrontIs
<1> HIDE DEF rest
<1>3. \A k \in 1..n - 1 : k \in 1..n BY <1>1
<1>4. Linked(rest)
  <2>1. Len(rest[1].upvalues) = 0
    <3>1. 1 \in 1..n - 1 BY <1>1
    <3> QED BY <1>1, <1>2, <3>1 DEF Linked
  <2>2. ASSUME NEW k \in 2..Len(rest), NEW i \in 1..Len(rest[k].upvalues)
        PROVE  InRange(rest[k].upvalues[i], rest[k - 1])
    <3>1. k \in 1..n - 1 /\ k - 1 \in 1..n - 1 /\ k \in 2..Len(cs) BY <1>1, <1>2
    <3>2. rest[k] = cs[k] /\ rest[k - 1] = cs[k - 1] BY <1>2, <3>1
    <3> QED BY <1>1, <3>1, <3>2 DEF Linked
  <2> QED BY <2>1, <2>2 DEF Linked
<1>5. Compilers(rest)
  <2>1. Len(rest) > 0 BY <1>1, <1>2
  <2>2. \A k \in 1..Len(rest) : IsCompiler(rest[k]) BY <1>1, <1>2, <1>3
  <2> QED BY <1>2, <1>4, <2>1, <2>2 DEF Compilers
<1> QED BY <1>1, <1>2, <1>5 DEF rest

\* A descriptor that fits its byte captures what the upvalue stands for.
LEMMA CapturesRight ==
    ASSUME NEW cs, Compilers(cs), NEW n, n = Len(cs), n > 1, NearCaptures(cs)
    PROVE  LET us == cs[n].upvalues
               ds == Descriptors(us)
           IN [i \in DOMAIN ds |-> Captures(Front(cs), ds[i])] = UpvalueTargets(cs, n)
<1> DEFINE us == cs[n].upvalues
           ds == Descriptors(us)
           rest == Front(cs)
<1>1. /\ Compilers(rest) /\ Len(rest) = n - 1 /\ \A k \in 1..n - 1 : rest[k] = cs[k]
      /\ n - 1 \in 1..n - 1 /\ n - 1 \in 1..n /\ n \in 1..n
  BY AroundIs
<1> HIDE DEF rest
<1>2. Last(rest) = cs[n - 1] BY <1>1, CompilersAre
<1>3. IsCompiler(cs[n]) /\ IsSeq(us) /\ DOMAIN us = 1..Len(us) /\ DOMAIN cs = 1..n BY <1>1, CompilersAre
<1>4. \A i \in DOMAIN us : IsUpvalue(us[i]) /\ us[i].index <= UINT8_MAX
  <2>1. \A i \in DOMAIN us : IsUpvalue(us[i]) BY <1>3 DEF IsCompiler
  <2>2. \A u \in ToSet(us) : u.index <= UINT8_MAX BY <1>1, <1>3 DEF NearCaptures
  <2> HIDE DEF us
  <2>3. \A i \in DOMAIN us : us[i] \in ToSet(us) BY DEF ToSet
  <2> QED BY <2>1, <2>2, <2>3
<1>5. UINT8_MAX \in Nat BY ByteIsPositive
<1>6. \A u : IsUpvalue(u) /\ u.index <= UINT8_MAX => [u EXCEPT !.index = @ % (UINT8_MAX + 1)] = u
  <2> TAKE u
  <2> HAVE IsUpvalue(u) /\ u.index <= UINT8_MAX
  <2> DEFINE x == u.index
             y == x % (UINT8_MAX + 1)
  <2>1. x \in Nat /\ x <= UINT8_MAX BY DEF IsUpvalue
  <2>2. y = x
    <3> HIDE DEF x
    <3> QED BY <1>5, <2>1
  <2>3. u = [index |-> x, isLocal |-> u.isLocal] BY DEF IsUpvalue
  <2>4. [u EXCEPT !.index = @ % (UINT8_MAX + 1)] = [u EXCEPT !.index = y] OBVIOUS
  <2> HIDE DEF y
  <2>5. [u EXCEPT !.index = y] = u BY <2>2, <2>3
  <2> QED BY <2>4, <2>5
<1>7. ds = us
  <2>1. \A i \in DOMAIN us : [us[i] EXCEPT !.index = @ % (UINT8_MAX + 1)] = us[i] BY <1>4, <1>6
  <2>2. us = [i \in DOMAIN us |-> us[i]]
    <3> HIDE DEF us
    <3> QED BY <1>3 DEF IsSeq
  <2> HIDE DEF us
  <2>3. ds = [i \in DOMAIN us |-> us[i]] BY <2>1 DEF Descriptors
  <2> QED BY <2>2, <2>3
<1> HIDE DEF ds
<1>8. \A k \in 1..n - 1 : Keeps(rest[k], cs[k]) /\ Keeps(cs[k], rest[k])
  <2> TAKE k \in 1..n - 1
  <2>1. rest[k] = cs[k] /\ IsCompiler(rest[k]) BY <1>1, CompilersAre
  <2>2. Alike(rest[k], rest[k]) BY <2>1, AlikeRefl
  <2> QED BY <2>1, <2>2, AlikeKeeps
<1> DEFINE m == n - 1
<1>9. \A i \in 1..Len(cs[m].upvalues) : UpvalueTargets(rest, m)[i] = UpvalueTargets(cs, m)[i]
  <2>1. m \in 1..Len(cs) /\ m <= Len(rest) /\ \A j \in 1..m : Keeps(cs[j], rest[j]) BY <1>1, <1>8
  <2> HIDE DEF m
  <2> QED BY <1>1, <2>1, TargetsKept
<1>10. \A i \in DOMAIN us : InRange(us[i], cs[m])
  <2>1. n \in 2..Len(cs) BY <1>1, CompilersAre
  <2>2. Linked(cs) BY DEF Compilers
  <2> QED BY <1>3, <2>1, <2>2 DEF Linked
<1>11. \A i \in DOMAIN us : UpvalueTargets(cs, n)[i] =
          IF us[i].isLocal THEN cs[m].locals[us[i].index + 1].id ELSE UpvalueTargets(cs, m)[us[i].index + 1]
  BY <1>1, TargetsAre
<1>12. UpvalueTargets(cs, n) = [i \in DOMAIN us |-> UpvalueTargets(cs, n)[i]] BY <1>1, TargetsMap
<1> HIDE DEF us
<1>13. ASSUME NEW i \in DOMAIN us PROVE Captures(rest, us[i]) = UpvalueTargets(cs, n)[i]
  <2> DEFINE u == us[i]
             v == u.index + 1
  <2>1. u.isLocal \in BOOLEAN BY <1>4 DEF IsUpvalue
  <2>2. CASE u.isLocal
    <3>1. Captures(rest, u) = cs[m].locals[v].id BY <1>2, <2>2 DEF Captures
    <3>2. UpvalueTargets(cs, n)[i] = cs[m].locals[v].id BY <1>11, <2>2
    <3> QED BY <3>1, <3>2
  <2>3. CASE ~ u.isLocal
    <3>1. Captures(rest, u) = UpvalueTargets(rest, m)[v] BY <1>1, <2>3 DEF Captures
    <3>2. UpvalueTargets(cs, n)[i] = UpvalueTargets(cs, m)[v] BY <1>11, <2>3
    <3>3. v \in 1..Len(cs[m].upvalues) BY <1>10, <2>3 DEF InRange
    <3> HIDE DEF v, m
    <3> QED BY <1>9, <3>1, <3>2, <3>3
  <2> QED BY <2>2, <2>3
<1>14. [i \in DOMAIN us |-> Captures(rest, us[i])] = [i \in DOMAIN us |-> UpvalueTargets(cs, n)[i]] BY <1>13
<1>15. [i \in DOMAIN us |-> Captures(rest, us[i])] = UpvalueTargets(cs, n) BY <1>12, <1>14
<1> QED BY <1>7, <1>15 DEF ds, us, rest

\* The call that waits for a function's body, and the function around.
LEMMA BodyIs ==
    ASSUME Inv, Open.at = "body", NEW n, n = Len(compilers)
    PROVE  n > 1 /\ Declared(compilers[n - 1], Open.name)
<1>1. PICK level, frame : NestedAs(level, frame, compilers, parsing) BY DEF Inv, Nesting
<1> DEFINE q == Len(parsing)
           x == level[q]
<1>2. Open = parsing[q] /\ n \in Nat /\ n > 0 BY NowIs, CompilersAre
<1>3. q \in Nat /\ q > 0 BY <1>1, SeqIs DEF NestedAs
<1>4. /\ level[1] = 1 /\ level[q + 1] = n
      /\ \A j \in 1..q : /\ level[j + 1] = IF parsing[j].at = "body" THEN level[j] + 1 ELSE level[j]
                         /\ level[j + 1] \in 1..j
      /\ \A i \in 1..q + 1 : \A j \in 1..q + 1 : i <= j => level[i] <= level[j]
      /\ \A j \in 1..q : parsing[j].at = "body" => Declared(compilers[level[j]], parsing[j].name)
  BY <1>1 DEF NestedAs
<1>5. q \in 1..q /\ 1 \in 1..q + 1 /\ q \in 1..q + 1 /\ 1 <= q BY <1>3
<1>6. n = x + 1 /\ 1 <= x BY <1>2, <1>4, <1>5
<1>7. x \in Nat
  <2>1. q = 1 \/ (q - 1 \in 1..q /\ (q - 1) + 1 = q)
    <3> HIDE DEF q
    <3> QED BY <1>3
  <2>2. CASE q = 1 BY <1>4, <2>2
  <2>3. CASE q - 1 \in 1..q /\ (q - 1) + 1 = q
    <3> DEFINE j == q - 1
    <3>1. j \in 1..q /\ j + 1 = q BY <2>3
    <3> HIDE DEF j
    <3>2. level[q] \in 1..j BY <1>4, <3>1
    <3> QED BY <3>1, <3>2
  <2> QED BY <2>1, <2>2, <2>3
<1> HIDE DEF x
<1>8. n > 1 /\ x = n - 1 BY <1>6, <1>7
<1>9. Declared(compilers[x], parsing[q].name) BY <1>2, <1>4, <1>5 DEF x
<1> QED BY <1>2, <1>8, <1>9

\* The function around goes on, the closure on its stack: its variable is defined, or
\* it becomes a method.
LEMMA ClosureFollows ==
    ASSUME NEW c, IsCompiler(c), NEW closure, closure.op = "CLOSURE", NEW name, Declared(c, name)
    PROVE  LET top == Emit(c, <<closure>>)
               d == IF name = "none" THEN Emit(top, <<Op("METHOD")>>) ELSE DefineVariable(top, name)
           IN /\ Alike(c, d) /\ d.upvalues = c.upvalues
              /\ \A pc \in DOMAIN d.code \ DOMAIN c.code : d.code[pc].op = "CLOSURE" => d.code[pc] = closure
<1> DEFINE one == <<closure>>
           top == Emit(c, one)
           d == IF name = "none" THEN Emit(top, <<Op("METHOD")>>) ELSE DefineVariable(top, name)
<1>1. IsSeq(one) /\ Len(one) = 1 /\ one[1] = closure BY TupleIs
<1>2. SameButCode(c, top) /\ top.code = c.code \o one BY <1>1, EmitIs
<1>3. IsSeq(c.code) /\ IsSeq(c.locals) /\ Len(c.locals) \in Nat /\ Len(c.upvalues) \in Nat /\ Len(c.code) \in Nat
  BY SeqIs DEF IsCompiler
<1> DEFINE L == Len(c.code)
<1> HIDE DEF one, top
<1>4. IsCompiler(top) /\ top.type = c.type /\ top.locals = c.locals /\ top.depth = c.depth /\ top.loops = c.loops
      /\ top.upvalues = c.upvalues /\ top.classes = c.classes
  BY <1>2 DEF SameButCode
<1>5. IsSeq(top.code) /\ Len(top.code) = L + 1 /\ top.code[L + 1] = closure /\ \A pc \in 1..L : top.code[pc] = c.code[pc]
  <2>1. /\ IsSeq(c.code \o one) /\ Len(c.code \o one) = Len(c.code) + Len(one)
        /\ \A i \in 1..Len(c.code) : (c.code \o one)[i] = c.code[i]
        /\ \A i \in 1..Len(one) : (c.code \o one)[Len(c.code) + i] = one[i]
    <3>1. IsSeq(c.code) /\ IsSeq(one) BY <1>1, <1>3
    <3> QED BY <3>1, ConcatIs
  <2>2. 1 \in 1..Len(one) BY <1>1
  <2>3. (c.code \o one)[Len(c.code) + 1] = closure BY <1>1, <2>1, <2>2
  <2> QED BY <1>1, <1>2, <2>1, <2>3
<1>6. ASSUME NEW code, IsSeq(code), NEW e, e.code = top.code \o code,
             \A pc \in DOMAIN code : code[pc].op # "CLOSURE", IsSeq(e.code)
      PROVE  \A pc \in DOMAIN e.code \ DOMAIN c.code : e.code[pc].op = "CLOSURE" => e.code[pc] = closure
  <2>1. /\ Len(e.code) = Len(top.code) + Len(code) /\ Len(code) \in Nat /\ DOMAIN code = 1..Len(code)
        /\ \A i \in 1..Len(top.code) : e.code[i] = top.code[i]
        /\ \A i \in Len(top.code) + 1..Len(top.code) + Len(code) : e.code[i] = code[i - Len(top.code)]
    <3>1. /\ Len(top.code \o code) = Len(top.code) + Len(code)
          /\ \A i \in 1..Len(top.code) : (top.code \o code)[i] = top.code[i]
          /\ \A i \in Len(top.code) + 1..Len(top.code) + Len(code) : (top.code \o code)[i] = code[i - Len(top.code)]
      <4>1. IsSeq(top.code) /\ IsSeq(code) BY <1>5, <1>6
      <4> QED BY <4>1, ConcatIs
    <3>2. Len(code) \in Nat /\ DOMAIN code = 1..Len(code) BY <1>6, SeqIs
    <3>3. e.code = top.code \o code BY <1>6
    <3> QED BY <3>1, <3>2, <3>3
  <2>2. DOMAIN e.code = 1..Len(e.code) /\ DOMAIN c.code = 1..L BY <1>3, <1>6, SeqIs
  <2> DEFINE M == Len(code)
  <2> HIDE DEF M, L
  <2>3. L \in Nat /\ M \in Nat BY <1>3, <2>1 DEF L, M
  <2> TAKE pc \in DOMAIN e.code \ DOMAIN c.code
  <2>4. pc \in 1..L + 1 + M /\ pc \notin 1..L BY <1>5, <2>1, <2>2 DEF M
  <2>5. CASE pc = L + 1
    <3>1. L + 1 \in 1..Len(top.code) BY <1>5, <2>3
    <3> QED BY <1>5, <2>1, <2>5, <3>1
  <2>6. CASE pc # L + 1
    <3>1. pc \in L + 1 + 1..L + 1 + M /\ pc - (L + 1) \in 1..M BY <2>3, <2>4, <2>6
    <3>2. e.code[pc] = code[pc - (L + 1)] BY <1>5, <2>1, <3>1 DEF M
    <3> QED BY <1>6, <2>1, <3>1, <3>2 DEF M
  <2> QED BY <2>5, <2>6
<1>7. CASE name = "none"
  <2> DEFINE code == <<Op("METHOD")>>
  <2>1. IsSeq(code) /\ \A pc \in DOMAIN code : code[pc].op # "CLOSURE"
    <3>1. Op("METHOD").op # "CLOSURE" BY DEF Op, Plain, Instruction
    <3> HIDE DEF code
    <3>2. IsSeq(code) /\ Len(code) = 1 /\ code[1] = Op("METHOD") BY TupleIs DEF code
    <3>3. DOMAIN code = 1..1 BY <3>2, SeqIs
    <3> QED BY <3>1, <3>2, <3>3
  <2> HIDE DEF code
  <2>2. SameButCode(top, Emit(top, code)) /\ Emit(top, code).code = top.code \o code BY <1>4, <2>1, EmitIs
  <2>3. d = Emit(top, code) BY <1>7 DEF code
  <2> HIDE DEF d
  <2>4. IsCompiler(d) /\ d.type = c.type /\ d.locals = c.locals /\ d.depth = c.depth /\ d.loops = c.loops
        /\ d.upvalues = c.upvalues /\ d.classes = c.classes
    BY <1>4, <2>2, <2>3 DEF SameButCode
  <2>5. Alike(c, d) BY <2>4, LooksAlike DEF Looks
  <2>6. IsSeq(d.code) BY <2>4 DEF IsCompiler
  <2>7. d.code = top.code \o code BY <2>2, <2>3
  <2>8. \A pc \in DOMAIN d.code \ DOMAIN c.code : d.code[pc].op = "CLOSURE" => d.code[pc] = closure
    BY <1>6, <2>1, <2>6, <2>7
  <2> QED BY <2>4, <2>5, <2>8 DEF d, top, one
<1>8. CASE name # "none"
  <2>1. IsGlobalScope(top) <=> IsGlobalScope(c) BY <1>4 DEF IsGlobalScope
  <2>2. IsGlobalScope(c) \/ (Len(c.locals) > 0 /\ c.locals[Len(c.locals)].depth = c.depth)
    BY <1>8 DEF Declared
  <2>3. d = DefineVariable(top, name) BY <1>8
  <2> HIDE DEF d
  <2>4. /\ Looks(d, top.type, d.locals, top.depth, top.loops, top.upvalues, top.classes)
        /\ IF IsGlobalScope(top) THEN d.locals = top.locals /\ d.code = top.code \o <<Op("DEFINE_GLOBAL")>>
                                 ELSE LastMarked(top, d) /\ d.code = top.code
    <3>1. ~ IsGlobalScope(top) => Len(top.locals) > 0 BY <1>4, <2>1, <2>2
    <3> QED BY <1>4, <2>3, <3>1, DefineIs
  <2>5. IsCompiler(d) /\ d.type = c.type /\ d.depth = c.depth /\ d.loops = c.loops /\ d.classes = c.classes
        /\ d.upvalues = c.upvalues
    BY <1>4, <2>4 DEF Looks
  <2>6. SameLocals(c, d)
    <3>1. CASE IsGlobalScope(top) BY <1>4, <2>4, <3>1 DEF SameLocals
    <3>2. CASE ~ IsGlobalScope(top)
      <4>1. c.locals[Len(c.locals)].depth = c.depth BY <2>1, <2>2, <3>2
      <4> QED BY <1>4, <2>4, <3>2, <4>1 DEF SameLocals, LastMarked
    <3> QED BY <3>1, <3>2
  <2>7. Alike(c, d)
    <3>1. Shape(d) = Shape(c) BY <2>5, ShapeSame
    <3>2. MoreUpvalues(c, d) BY <1>3, <2>5 DEF MoreUpvalues
    <3> QED BY <2>5, <2>6, <3>1, <3>2 DEF Alike
  <2>8. IsSeq(d.code) BY <2>5 DEF IsCompiler
  <2>9. \E code : IsSeq(code) /\ d.code = top.code \o code /\ \A pc \in DOMAIN code : code[pc].op # "CLOSURE"
    <3>1. CASE IsGlobalScope(top)
      <4> DEFINE code == <<Op("DEFINE_GLOBAL")>>
      <4>1. Op("DEFINE_GLOBAL").op # "CLOSURE" BY DEF Op, Plain, Instruction
      <4>2. d.code = top.code \o code BY <2>4, <3>1
      <4> HIDE DEF code
      <4>3. IsSeq(code) /\ Len(code) = 1 /\ code[1] = Op("DEFINE_GLOBAL") BY TupleIs DEF code
      <4>4. DOMAIN code = 1..1 BY <4>3, SeqIs
      <4> QED BY <4>1, <4>2, <4>3, <4>4
    <3>2. CASE ~ IsGlobalScope(top)
      <4>1. IsSeq(<<>>) /\ DOMAIN <<>> = {} BY TupleIs
      <4>2. d.code = top.code \o <<>>
        <5>1. PICK S : top.code \in Seq(S) BY <1>5 DEF IsSeq
        <5> QED BY <2>4, <3>2, <5>1
      <4> DEFINE code == <<>>
      <4>3. IsSeq(code) /\ d.code = top.code \o code /\ \A pc \in DOMAIN code : code[pc].op # "CLOSURE" BY <4>1, <4>2
      <4> HIDE DEF code
      <4> QED BY <4>3
    <3> QED BY <3>1, <3>2
  <2>10. \A pc \in DOMAIN d.code \ DOMAIN c.code : d.code[pc].op = "CLOSURE" => d.code[pc] = closure
    <3>1. PICK code : IsSeq(code) /\ d.code = top.code \o code /\ \A pc \in DOMAIN code : code[pc].op # "CLOSURE"
      BY <2>9
    <3> QED BY <1>6, <2>8, <3>1
  <2> QED BY <2>5, <2>7, <2>10 DEF d, top, one
<1> QED BY <1>7, <1>8

\* What is left when the innermost function ends, and the one around it goes on as f.
LEMMA AroundGoesOn ==
    ASSUME Inv, Open.at = "body", NEW n, n = Len(compilers),
           NEW f, Alike(compilers[n - 1], f), f.upvalues = compilers[n - 1].upvalues
    PROVE  LET ds == With(Front(compilers), f) IN
           /\ Scoping(ds, Front(scopes)) /\ Nesting(ds, Front(parsing))
           /\ Len(ds) = n - 1 /\ Last(ds) = f
           /\ NearCaptures(compilers) => NearCaptures(ds)
<1> DEFINE cs == compilers
           rest == Front(cs)
           ds == With(rest, f)
           ss == Front(scopes)
<1>1. n > 1 /\ Compilers(cs) /\ n \in Nat BY BodyIs, NowIs, CompilersAre
<1>2. /\ Compilers(rest) /\ Len(rest) = n - 1 /\ \A k \in 1..n - 1 : rest[k] = cs[k]
      /\ n - 1 \in 1..n - 1 /\ n - 1 \in 1..n /\ n \in 1..n
  BY <1>1, AroundIs
<1>3. f.upvalues = rest[Len(rest)].upvalues /\ IsCompiler(f) BY <1>2 DEF Alike
<1> HIDE DEF rest
<1>4. /\ Compilers(ds) /\ Len(ds) = n - 1 /\ ds[n - 1] = f /\ Last(ds) = f
      /\ \A k \in 1..(n - 1) - 1 : ds[k] = rest[k]
  <2>1. /\ Compilers(ds) /\ Len(ds) = Len(rest) /\ ds[Len(rest)] = f /\ Last(ds) = f
        /\ \A k \in 1..Len(rest) - 1 : ds[k] = rest[k]
    BY <1>2, <1>3, TopIs
  <2> HIDE DEF ds
  <2> QED BY <1>2, <2>1
<1> HIDE DEF ds
<1>5. \A k \in 1..n - 1 : IsCompiler(cs[k]) /\ Alike(cs[k], ds[k]) /\ ds[k].upvalues = cs[k].upvalues
  <2> TAKE k \in 1..n - 1
  <2>1. k \in 1..n /\ (k = n - 1 \/ k \in 1..(n - 1) - 1) BY <1>1
  <2>2. IsCompiler(cs[k]) BY <1>1, <2>1, CompilersAre
  <2>3. CASE k = n - 1 BY <1>4, <2>2, <2>3
  <2>4. CASE k \in 1..(n - 1) - 1
    <3>1. ds[k] = cs[k] BY <1>2, <1>4, <2>4
    <3> QED BY <2>2, <3>1, AlikeRefl
  <2> QED BY <2>1, <2>3, <2>4
<1>6. IsSeq(ss) /\ Len(ss) = n - 1 /\ \A k \in 1..n - 1 : ss[k] = scopes[k]
  <2>1. IsSeq(scopes) /\ Len(scopes) = n /\ Len(scopes) > 0 BY NowIs
  <2> QED BY <2>1, FrontIs
<1> HIDE DEF ss
<1>7. Scoping(ds, ss)
  <2>1. \A k \in 1..n : Scoped(cs[k], scopes[k]) /\ GoodFrame(Shape(cs[k])) /\ ((k = 1) <=> cs[k].type \in ProgramTypes)
    BY DEF Inv, Scoping
  <2>2. \A k \in 1..n - 1 : Scoped(ds[k], ss[k]) /\ GoodFrame(Shape(ds[k])) /\ ((k = 1) <=> ds[k].type \in ProgramTypes)
    <3> TAKE k \in 1..n - 1
    <3>1. k \in 1..n BY <1>1
    <3>2. Shape(ds[k]) = Shape(cs[k]) /\ ds[k].type = cs[k].type BY <1>5 DEF Alike
    <3>3. Scoped(ds[k], ss[k]) BY <1>5, <1>6, <2>1, <3>1, AlikeScoped
    <3> QED BY <2>1, <3>1, <3>2, <3>3
  <2> QED BY <1>4, <1>6, <2>2 DEF Scoping
<1>8. Nesting(ds, Front(parsing))
  <2>1. PICK level, frame : NestedAs(level, frame, cs, parsing) BY DEF Inv, Nesting
  <2> DEFINE q == Len(parsing)
             x == level[q]
  <2>2. q \in Nat /\ q \in 1..q /\ level[q + 1] = n /\ level[q + 1] = IF parsing[q].at = "body" THEN level[q] + 1 ELSE level[q]
    <3>1. q \in Nat /\ q > 0 BY <2>1, SeqIs DEF NestedAs
    <3>2. q \in 1..q BY <3>1
    <3> QED BY <2>1, <3>1, <3>2 DEF NestedAs
  <2>3. parsing[q].at = "body" BY NowIs
  <2>4. \A j \in 1..q : parsing[j].at = "body" =>
           level[j] \in 1..n - 1 /\ frame[j] = Shape(cs[level[j]]) /\ Declared(cs[level[j]], parsing[j].name)
    <3>1. \A k \in 1..n : Alike(cs[k], cs[k]) BY <1>1, AlikeRefl, CompilersAre
    <3>2. \A k \in 1..n - 1 : k \in 1..n BY <1>1
    <3>3. Onward(cs, cs) BY <1>1, <3>1, <3>2 DEF Onward
    <3>4. SameCalls(parsing, parsing) BY <2>1, SameCallsRefl
    <3> QED BY <1>1, <2>1, <3>3, <3>4, BodiesKept
  <2>5. \A j \in 1..q : parsing[j].at = "body" =>
           frame[j] = Shape(ds[level[j]]) /\ Declared(ds[level[j]], parsing[j].name)
    <3> TAKE j \in 1..q
    <3> HAVE parsing[j].at = "body"
    <3>1. level[j] \in 1..n - 1 /\ frame[j] = Shape(cs[level[j]]) /\ Declared(cs[level[j]], parsing[j].name)
      BY <2>4
    <3>2. IsCompiler(cs[level[j]]) /\ Alike(cs[level[j]], ds[level[j]]) BY <1>5, <3>1
    <3>3. Shape(ds[level[j]]) = Shape(cs[level[j]]) BY <3>2 DEF Alike
    <3> QED BY <3>1, <3>2, <3>3, DeclaredKept
  <2>6. x \in 1..n - 1 /\ n = x + 1 BY <2>2, <2>3, <2>4
  <2>7. frame[q] = Shape(ds[x]) BY <2>2, <2>3, <2>5
  <2> HIDE DEF x
  <2>8. x = n - 1 BY <1>1, <2>6
  <2>9. Len(ds) = level[q] /\ Shape(ds[Len(ds)]) = frame[q] BY <1>4, <2>7, <2>8 DEF x
  <2>10. \A j \in 1..q - 1 : j \in 1..q
    <3> HIDE DEF q
    <3> QED BY <2>2
  <2>11. parsing[q].at # "program" BY <2>3
  <2>12. NestedAs(Front(level), Front(frame), ds, Front(parsing))
    <3>1. \A j \in 1..q - 1 : parsing[j].at = "body" =>
             frame[j] = Shape(ds[level[j]]) /\ Declared(ds[level[j]], parsing[j].name)
      BY <2>5, <2>10
    <3> QED BY <1>1, <1>4, <2>1, <2>9, <2>11, <3>1, InsideClosed
  <2> QED BY <2>12 DEF Nesting
<1>9. ASSUME NearCaptures(cs) PROVE NearCaptures(ds)
  <2>1. DOMAIN ds = 1..n - 1 /\ DOMAIN cs = 1..n BY <1>1, <1>4, CompilersAre
  <2>2. \A k \in 1..n - 1 : k \in 1..n BY <1>1
  <2> QED BY <1>5, <1>9, <2>1, <2>2 DEF NearCaptures
<1> QED BY <1>4, <1>7, <1>8, <1>9 DEF ds, rest, ss

LEMMA EndFunctionIs ==
    ASSUME Inv, EndFunction
    PROVE  Inv' /\ (NearCaptures(compilers) => Found)
<1> DEFINE n == Len(compilers)
           us == Current.upvalues
           callee == Emit(Mark(Current), EmitReturn(Current))
           closure == Closure(Descriptors(callee.upvalues), Global)
           rest == Front(compilers)
           top == Emit(Last(rest), <<closure>>)
           f == IF Open.name = "none" THEN Emit(top, <<Op("METHOD")>>) ELSE DefineVariable(top, Open.name)
           ds == With(rest, f)
<1>1. /\ Open.at = "body"
      /\ compilers' = ds /\ parsing' = Front(parsing) /\ scopes' = Front(scopes)
      /\ UNCHANGED <<source, status>>
  BY DEF EndFunction
<1>2. /\ n > 1 /\ Compilers(compilers) /\ n \in Nat /\ Declared(compilers[n - 1], Open.name)
      /\ Current = compilers[n] /\ IsCompiler(Current)
  BY <1>1, BodyIs, NowIs, CompilersAre
<1>3. callee.upvalues = us
  <2>1. IsCompiler(Mark(Current)) /\ Mark(Current).upvalues = us BY <1>2, MarkSame DEF Looks
  <2>2. IsSeq(EmitReturn(Current))
    <3>1. IsSeq(<<Const, Op("RETURN")>>) BY ReturnHarmless DEF AreHarmless
    <3>2. \A a, b : IsSeq(<<a, b>>)
      <4> TAKE a, b
      <4>1. <<a, b>> \in Seq({a, b}) OBVIOUS
      <4> QED BY <4>1 DEF IsSeq
    <3> QED BY <3>1, <3>2 DEF EmitReturn
  <2> QED BY <2>1, <2>2, EmitIs DEF SameButCode
<1>4. /\ Compilers(rest) /\ Len(rest) = n - 1 /\ rest[n - 1] = compilers[n - 1] /\ Last(rest) = compilers[n - 1]
      /\ IsCompiler(compilers[n - 1])
  <2>1. /\ Compilers(rest) /\ Len(rest) = n - 1 /\ \A k \in 1..n - 1 : rest[k] = compilers[k]
        /\ n - 1 \in 1..n - 1 /\ n - 1 \in 1..n
    BY <1>2, AroundIs
  <2> HIDE DEF rest
  <2>2. Last(rest) = rest[n - 1] BY <2>1, CompilersAre
  <2>3. IsCompiler(compilers[n - 1]) BY <1>2, <2>1, CompilersAre
  <2> QED BY <2>1, <2>2, <2>3
<1>5. closure.op = "CLOSURE" /\ closure.captures = Descriptors(callee.upvalues) BY DEF Closure
<1> HIDE DEF closure
<1> DEFINE around == compilers[n - 1]
<1>6. /\ Alike(around, f) /\ f.upvalues = around.upvalues
      /\ \A pc \in DOMAIN f.code \ DOMAIN around.code : f.code[pc].op = "CLOSURE" => f.code[pc] = closure
  <2>1. top = Emit(around, <<closure>>) BY <1>4
  <2> HIDE DEF around, n, callee, rest, top
  <2>2. IsCompiler(around) /\ Declared(around, Open.name) BY <1>2, <1>4 DEF around
  <2> DEFINE g == Emit(around, <<closure>>)
             h == IF Open.name = "none" THEN Emit(g, <<Op("METHOD")>>) ELSE DefineVariable(g, Open.name)
  <2>3. /\ Alike(around, h) /\ h.upvalues = around.upvalues
        /\ \A pc \in DOMAIN h.code \ DOMAIN around.code : h.code[pc].op = "CLOSURE" => h.code[pc] = closure
    BY <1>5, <2>2, ClosureFollows
  <2>4. h = f BY <2>1
  <2> HIDE DEF h, f
  <2> QED BY <2>3, <2>4
<1> HIDE DEF f
<1>7. /\ Scoping(ds, Front(scopes)) /\ Nesting(ds, Front(parsing))
      /\ Len(ds) = n - 1 /\ Last(ds) = f
      /\ NearCaptures(compilers) => NearCaptures(ds)
  BY <1>1, <1>6, AroundGoesOn
<1> HIDE DEF ds
<1>8. Inv'
  <2>1. source \in Sources /\ status \in {"compiling", "compiled", "failed"}
        /\ (source.orderly => NearCaptures(compilers))
    BY DEF Inv
  <2> QED BY <1>1, <1>7, <2>1 DEF Inv
<1>9. ASSUME NearCaptures(compilers) PROVE Found
  <2>1. NearCaptures(compilers) BY <1>9
  <2>2. Len(compilers') # n
    <3> HIDE DEF n
    <3> QED BY <1>1, <1>2, <1>7
  <2> DEFINE code == Last(compilers').code
             targets == UpvalueTargets(compilers, Len(compilers))
  <2>3. code = f.code /\ Last(rest).code = around.code BY <1>1, <1>4, <1>7
  <2>4. LET xs == Descriptors(us) IN [i \in DOMAIN xs |-> Captures(rest, xs[i])] = targets
    BY <1>2, <2>1, CapturesRight
  <2>5. closure.captures = Descriptors(us) BY <1>3, <1>5
  <2> HIDE DEF n, rest, us, targets, callee
  <2>6. [i \in DOMAIN closure.captures |-> Captures(rest, closure.captures[i])] = targets BY <2>4, <2>5
  <2> HIDE DEF code, around
  <2>7. \A pc \in DOMAIN code \ DOMAIN Last(rest).code : code[pc].op = "CLOSURE" =>
           [i \in DOMAIN code[pc].captures |-> Captures(rest, code[pc].captures[i])] = targets
    <3> TAKE pc \in DOMAIN code \ DOMAIN Last(rest).code
    <3> HAVE code[pc].op = "CLOSURE"
    <3>1. code[pc] = closure BY <1>6, <2>3
    <3> QED BY <2>6, <3>1
  <2> QED BY <2>2, <2>7 DEF Found, n, code, rest, targets
<1> QED BY <1>8, <1>9

LEMMA PairIs == \A a, b : IsSeq(<<a, b>>) /\ Len(<<a, b>>) = 2 /\ <<a, b>>[1] = a /\ <<a, b>>[2] = b
<1> TAKE a, b
<1>1. <<a, b>> \in Seq({a, b}) OBVIOUS
<1>2. IsSeq(<<a, b>>) BY <1>1 DEF IsSeq
<1> QED BY <1>2

(* The end of the source, its beginning, and what lies between.              *)
LEMMA ProgramIs ==
    ASSUME Inv, Open.at = "program"
    PROVE  Len(compilers) = 1 /\ Current.type \in ProgramTypes
<1>1. PICK level, frame : NestedAs(level, frame, compilers, parsing) BY DEF Inv, Nesting
<1> DEFINE q == Len(parsing)
<1>2. q \in Nat /\ q > 0 BY <1>1, SeqIs DEF NestedAs
<1>3. q \in 1..q /\ 1 \in 1..q BY <1>2
<1>4. q = 1
  <2>1. parsing[q].at = "program" BY NowIs
  <2> QED BY <1>1, <1>3, <2>1 DEF NestedAs
<1>5. level[1] = 1 /\ level[q + 1] = Len(compilers)
      /\ level[1 + 1] = (IF parsing[1].at = "body" THEN level[1] + 1 ELSE level[1])
      /\ parsing[1].at = "program"
  <2>1. level[1] = 1 /\ level[q + 1] = Len(compilers) BY <1>1 DEF NestedAs
  <2>2. \A j \in 1..q : level[j + 1] = (IF parsing[j].at = "body" THEN level[j] + 1 ELSE level[j])
                      /\ ((parsing[j].at = "program") <=> (j = 1))
    BY <1>1 DEF NestedAs
  <2> HIDE DEF q
  <2> QED BY <1>3, <2>1, <2>2
<1>6. level[1 + 1] = 1
  <2>1. parsing[1].at # "body" BY <1>5
  <2> QED BY <1>5, <2>1
<1>7. Len(compilers) = 1
  <2> HIDE DEF q
  <2> QED BY <1>4, <1>5, <1>6
<1>8. Current = compilers[1] /\ 1 \in 1..Len(compilers) BY <1>7, NowIs
<1> QED BY <1>7, <1>8 DEF Inv, Scoping

LEMMA EndProgramIs == ASSUME Inv, EndProgram PROVE Inv' /\ Found
<1> DEFINE ended == Mark(Current)
           code == IF Current.type = "module" THEN <<Op("BUILD_NAMESPACE"), Op("RETURN")>> ELSE EmitReturn(Current)
           top == Emit(ended, code)
           failed == Current.type = "module" /\ Len(Current.exports) > UINT8_MAX
<1>1. /\ Open.at = "program"
      /\ UNCHANGED <<source, parsing, scopes>>
      /\ IF failed THEN status' = "failed" /\ compilers' = compilers ELSE status' = "compiled" /\ compilers' = <<top>>
  <2>1. top = IF Current.type = "module" THEN Emit(ended, <<Op("BUILD_NAMESPACE"), Op("RETURN")>>)
                                          ELSE Emit(ended, EmitReturn(Current))
    OBVIOUS
  <2> HIDE DEF top, ended
  <2> QED BY <2>1 DEF EndProgram, ended
<1>2. /\ Len(compilers) = 1 /\ Current.type \in ProgramTypes /\ IsSeq(compilers) /\ IsCompiler(Current)
      /\ Compilers(compilers)
  BY <1>1, ProgramIs, NowIs, CompilersAre
<1>3. Coded(Current, top)
  <2>1. AreHarmless(code)
    <3>1. Current.type # "initialiser" BY <1>2 DEF ProgramTypes
    <3>2. AreHarmless(<<Op("BUILD_NAMESPACE"), Op("RETURN")>>)
      <4>1. "BUILD_NAMESPACE" \notin Accesses /\ "RETURN" \notin Accesses BY DEF Accesses
      <4> QED BY <4>1, HarmlessOps, HarmlessTuples
    <3> QED BY <3>1, <3>2, ReturnHarmless
  <2> HIDE DEF code
  <2>2. Coded(Current, ended) BY <1>2, MarkCoded
  <2> QED BY <1>2, <2>1, <2>2, ThenEmit
<1> HIDE DEF top
<1> DEFINE cs == With(compilers, top)
<1>4. Sound(cs, parsing, scopes) BY <1>2, <1>3, CodedStays, StaysSound, StartedIs
<1>5. <<top>> = cs
  <2>1. /\ IsSeq(cs) /\ Len(cs) = 1 /\ \A i \in 1..Len(compilers) : cs[i] = IF i = Len(compilers) THEN top ELSE compilers[i]
    BY <1>2, WithIs
  <2>2. cs[1] = top BY <1>2, <2>1
  <2>3. IsSeq(<<top>>) /\ Len(<<top>>) = 1 /\ <<top>>[1] = top BY TupleIs
  <2> HIDE DEF cs
  <2> DEFINE t == <<top>>
  <2>4. IsSeq(t) /\ Len(t) = 1 /\ t[1] = top BY <2>3
  <2> HIDE DEF t
  <2>5. \A i \in 1..Len(t) : t[i] = cs[i] BY <2>2, <2>4
  <2>6. t = cs BY <2>1, <2>4, <2>5, SameSeqs
  <2> QED BY <2>6 DEF t
<1>6. source.orderly => NearCaptures(cs)
  <2>1. top.upvalues = Current.upvalues BY <1>3 DEF Coded, SameButCode
  <2> QED BY <2>1, NearKept DEF Inv
<1> HIDE DEF cs, failed
<1>7. CASE failed
  <2>1. compilers' = compilers /\ parsing' = parsing /\ scopes' = scopes /\ status' = "failed" /\ source' = source
    BY <1>1, <1>7
  <2>2. Inv' BY <2>1 DEF Inv
  <2> QED BY <2>1, <2>2, SameFoundNothing
<1>8. CASE ~ failed
  <2>1. compilers' = cs /\ parsing' = parsing /\ scopes' = scopes /\ status' = "compiled" /\ source' = source
    BY <1>1, <1>5, <1>8
  <2>2. Inv' BY <1>4, <1>6, <2>1 DEF Inv, Sound
  <2>3. Led(cs) BY <1>4 DEF Sound
  <2>4. Len(compilers') = Len(compilers) =>
          \A pc \in Emitted : Finds(compilers', Last(compilers').code[pc])
    BY <2>1, <2>3 DEF Led, Emitted
  <2>5. ~ Closing BY <2>1, <2>3 DEF Led, Closing
  <2> QED BY <2>2, <2>4, <2>5 DEF Found
<1> QED BY <1>7, <1>8

LEMMA FirstCompiler ==
    ASSUME NEW type \in ProgramTypes
    PROVE  LET c == NewCompiler(type, <<>>, 1) IN
           /\ IsCompiler(c) /\ c.type = type /\ c.upvalues = <<>>
           /\ Scoped(c, << <<>> >>) /\ GoodFrame(Shape(c))
<1> DEFINE l == Local(Receiver(type), 0, <<1, 0, "this">>)
           c == NewCompiler(type, <<>>, 1)
<1>1. IsLocal(l) /\ l.name = "" /\ l.depth = 0 BY DEF IsLocal, Local, Receiver, ProgramTypes
<1>2. /\ c = [type |-> c.type, arity |-> c.arity, locals |-> c.locals, depth |-> c.depth,
              loops |-> c.loops, upvalues |-> c.upvalues, classes |-> c.classes,
              exports |-> c.exports, code |-> c.code, marks |-> c.marks]
      /\ c.type = type /\ c.locals = <<l>> /\ c.depth = 0 /\ c.loops = <<>> /\ c.upvalues = <<>>
      /\ c.classes = <<>> /\ c.code = <<>>
  BY DEF NewCompiler
<1> HIDE DEF c, l
<1>3. IsSeq(<<>>) /\ Len(<<>>) = 0 /\ DOMAIN <<>> = {} /\ IsSeq(<<l>>) /\ Len(<<l>>) = 1 /\ <<l>>[1] = l
  BY TupleIs, SeqIs
<1>4. IsSeq(c.locals) /\ Len(c.locals) = 1 /\ c.locals[1] = l BY <1>2, <1>3
<1>5. DOMAIN c.locals = 1..1 BY <1>4, SeqIs
<1>6. IsCompiler(c)
  <2>1. \A i \in DOMAIN c.locals : IsLocal(c.locals[i])
    <3>1. \A i \in DOMAIN c.locals : i = 1 BY <1>5
    <3> QED BY <1>1, <1>4, <3>1
  <2>2. /\ IsSeq(c.loops) /\ \A i \in DOMAIN c.loops : IsLoop(c.loops[i])
        /\ IsSeq(c.upvalues) /\ \A i \in DOMAIN c.upvalues : IsUpvalue(c.upvalues[i])
        /\ IsSeq(c.classes) /\ IsSeq(c.code)
    BY <1>2, <1>3
  <2>3. c.type \in ProgramTypes \cup FunctionTypes /\ c.depth \in Nat BY <1>2
  <2> QED BY <1>2, <1>4, <2>1, <2>2, <2>3 DEF IsCompiler
<1>7. Scoped(c, << <<>> >>)
  <2> DEFINE s == << <<>> >>
  <2>1. IsSeq(s) /\ Len(s) = 1 /\ s[1] = <<>> BY TupleIs
  <2> HIDE DEF s
  <2>2. DOMAIN s[1] = {} BY <1>3, <2>1
  <2>3. \A i \in 1..Len(c.locals) : i = 1 /\ c.locals[i].depth = 0 /\ c.locals[i].name = ""
    <3>1. \A i \in 1..Len(c.locals) : i = 1 BY <1>4
    <3> QED BY <1>1, <1>4, <3>1
  <2>4. Ordered(c)
    <3>1. c.depth = 0 /\ 0 \in 0..0 BY <1>2
    <3>2. \A i \in 1..Len(c.locals) : c.locals[i].depth \in 0..c.depth BY <2>3, <3>1
    <3>3. \A i \in 1..Len(c.locals) : \A j \in 1..Len(c.locals) : c.locals[i].depth = 0 /\ c.locals[j].depth = 0 BY <2>3
    <3>4. 0 <= 0 OBVIOUS
    <3>5. \A i \in 1..Len(c.locals) : \A j \in 1..Len(c.locals) :
             i <= j => c.locals[i].depth <= c.locals[j].depth
      BY <3>3, <3>4
    <3> QED BY <3>2, <3>5 DEF Ordered
  <2>5. BoundAreLocals(c, s)
    <3>1. \A d \in 0..c.depth : d + 1 = 1 BY <1>2
    <3>2. \A d \in 0..c.depth : DOMAIN s[d + 1] = {} BY <2>2, <3>1
    <3> QED BY <3>2 DEF BoundAreLocals
  <2>6. LocalsAreBound(c, s) BY <2>3 DEF LocalsAreBound
  <2>7. Len(s) = c.depth + 1 BY <1>2, <2>1
  <2> QED BY <2>1, <2>4, <2>5, <2>6, <2>7 DEF Scoped, s
<1>8. GoodFrame(Shape(c))
  <2>1. /\ Shape(c).depth = 0 /\ Shape(c).classes = <<>>
        /\ IsSeq(Shape(c).loops) /\ Len(Shape(c).loops) = 0
    BY <1>2, <1>3, <1>6, ShapeIs
  <2>2. Shape(c) = Frame(Shape(c).depth, Shape(c).classes, Shape(c).loops) BY DEF Shape, Frame
  <2> DEFINE f == Shape(c)
  <2> HIDE DEF f
  <2>3. f.depth = 0 /\ f.classes = <<>> /\ IsSeq(f.loops) /\ Len(f.loops) = 0 /\ f = Frame(f.depth, f.classes, f.loops)
    BY <2>1, <2>2 DEF f
  <2>4. GoodFrame(f) BY <1>3, <2>3 DEF GoodFrame
  <2> QED BY <2>4 DEF f
<1> QED BY <1>2, <1>6, <1>7, <1>8 DEF c

LEMMA InitIs == ASSUME Init PROVE Inv
<1> DEFINE c == NewCompiler(source.type, <<>>, 1)
           s == << <<>> >>
           p == At("program")
<1>1. /\ source \in Sources /\ compilers = <<c>> /\ parsing = <<p>> /\ scopes = <<s>> /\ status = "compiling"
  BY DEF Init
<1>2. source.type \in ProgramTypes BY <1>1, SourcesAreSources DEF ProgramTypes
<1>3. /\ IsCompiler(c) /\ c.type \in ProgramTypes /\ c.upvalues = <<>>
      /\ Scoped(c, s) /\ GoodFrame(Shape(c))
  BY <1>2, FirstCompiler
<1>4. IsCall(p) /\ p.at = "program" BY AtIs
<1> HIDE DEF c, s, p
<1>5. IsSeq(compilers) /\ Len(compilers) = 1 /\ compilers[1] = c BY <1>1, TupleIs
<1>6. IsSeq(parsing) /\ Len(parsing) = 1 /\ parsing[1] = p BY <1>1, TupleIs
<1>7. IsSeq(scopes) /\ Len(scopes) = 1 /\ scopes[1] = s BY <1>1, TupleIs
<1>8. Len(c.upvalues) = 0 BY <1>3, TupleIs
<1>9. \A k \in 1..Len(compilers) : k = 1 BY <1>5
<1>10. Compilers(compilers)
  <2>1. Linked(compilers) BY <1>5, <1>8 DEF Linked
  <2> QED BY <1>3, <1>5, <1>9, <2>1 DEF Compilers
<1>11. Scoping(compilers, scopes) BY <1>3, <1>5, <1>7, <1>9, <1>10 DEF Scoping
<1>12. Nesting(compilers, parsing)
  <2> DEFINE g == Shape(c)
             level == <<1, 1>>
             frame == <<g, g>>
  <2>1. IsSeq(level) /\ Len(level) = 2 /\ level[1] = 1 /\ level[2] = 1 BY PairIs
  <2>2. IsSeq(frame) /\ Len(frame) = 2 /\ frame[1] = g /\ frame[2] = g BY PairIs
  <2> HIDE DEF g, level, frame
  <2>3. GoodFrame(g) /\ g = Shape(compilers[Len(compilers)]) BY <1>3, <1>5 DEF g
  <2>4. Inside("program", g, g) BY DEF Inside
  <2>5. NestedAs(level, frame, compilers, parsing)
    <3>1. \A j \in 1..Len(parsing) : j = 1 /\ j + 1 = 2 /\ parsing[j] = p BY <1>6
    <3>2. Len(parsing) + 1 = 2 BY <1>6
    <3>3. \A j \in 1..2 : level[j] = 1 BY <2>1
    <3>4. "program" \in Kinds BY DEF Kinds
    <3>5. \A j \in 1..Len(parsing) :
             /\ (parsing[j].at = "program") <=> (j = 1)
             /\ Inside(parsing[j].at, frame[j], frame[j + 1])
             /\ level[j + 1] = IF parsing[j].at = "body" THEN level[j] + 1 ELSE level[j]
             /\ level[j + 1] \in 1..j
             /\ GoodFrame(frame[j])
      <4> TAKE j \in 1..Len(parsing)
      <4>1. j = 1 /\ j + 1 = 2 /\ parsing[j] = p BY <3>1
      <4>2. parsing[j].at = "program" BY <1>4, <4>1
      <4>3. frame[j] = g /\ frame[j + 1] = g /\ level[j] = 1 /\ level[j + 1] = 1 BY <2>1, <2>2, <4>1
      <4> QED BY <2>3, <2>4, <4>1, <4>2, <4>3
    <3>6. \A i \in 1..Len(parsing) + 1 : \A j \in 1..Len(parsing) + 1 : i <= j => level[i] <= level[j]
      BY <3>2, <3>3
    <3>7. \A j \in 1..Len(parsing) : parsing[j].at # "body" BY <1>4, <3>1
    <3>8. level[Len(parsing) + 1] = Len(compilers) /\ frame[Len(parsing) + 1] = Shape(compilers[Len(compilers)])
      BY <1>5, <2>1, <2>2, <2>3, <3>2
    <3>9. \A j \in 1..Len(parsing) : IsCall(parsing[j]) /\ parsing[j].at \in Kinds BY <1>4, <3>1, <3>4
    <3> QED BY <1>6, <2>1, <2>2, <3>2, <3>5, <3>6, <3>7, <3>8, <3>9 DEF NestedAs
  <2> QED BY <2>5 DEF Nesting
<1>13. NearCaptures(compilers)
  <2>1. DOMAIN compilers = 1..1 BY <1>5, SeqIs
  <2>2. ToSet(c.upvalues) = {} BY <1>3 DEF ToSet
  <2> QED BY <1>5, <2>1, <2>2 DEF NearCaptures
<1> QED BY <1>1, <1>11, <1>12, <1>13 DEF Inv

(* Every step. *)
LEMMA NextIs == ASSUME Inv, Next PROVE Inv' /\ (NearCaptures(compilers) => Found)
<1>1. CASE \E x \in source.names, e \in source.expressions : VarDeclaration(x, e) BY <1>1, VarIs
<1>2. CASE \E kind \in DOMAIN Uses, e \in source.expressions : Use(kind, e) BY <1>2, UseIs
<1>3. CASE \E v \in BOOLEAN : ReturnStatement(v) BY <1>3, ReturnIs
<1>4. CASE \E x \in source.names : ImportStatement(x) BY <1>4, ImportIs
<1>5. CASE BreakStatement \/ ContinueStatement BY <1>5, BreakIs, ContinueIs
<1>6. CASE BeginBlock \/ EndBlock BY <1>6, BeginBlockIs, EndBlockIs
<1>7. CASE IfStatement \/ (\E v \in BOOLEAN : EndThen(v)) \/ EndElse BY <1>7, IfIs, EndThenIs, EndElseIs
<1>8. CASE WhileStatement \/ EndWhile \/ DoStatement \/ EndDo BY <1>8, WhileIs, EndWhileIs, DoIs, EndDoIs
<1>9. CASE \E x \in source.names \cup {"none", "expression"}, cond, inc \in BOOLEAN : ForStatement(x, cond, inc)
  BY <1>9, ForIs
<1>10. CASE EndFor BY <1>10, EndForIs
<1>11. CASE TryStatement \/ EndTryWithoutCatch \/ EndCatch BY <1>11, TryIs, EndTryIs, EndCatchIs
<1>12. CASE \E n \in source.counts, x \in source.names \cup {"none"} : CatchClause(n, x) BY <1>12, CatchIs
<1>13. CASE \E x \in source.names, params \in source.params : FunctionDeclaration(x, params)
  BY <1>13, FunctionDeclarationIs
<1>14. CASE \E type \in {"method", "initialiser"}, params \in source.params : Method(type, params)
  BY <1>14, MethodIs
<1>15. CASE EndFunction BY <1>15, EndFunctionIs
<1>16. CASE (\E x \in source.names : ClassDeclaration(x)) \/ (\E x, y \in source.names : Subclass(x, y))
  BY <1>16, ClassIs, SubclassIs
<1>17. CASE EndClass \/ EndProgram BY <1>17, EndClassIs, EndProgramIs
<1> QED
  BY <1>1, <1>2, <1>3, <1>4, <1>5, <1>6, <1>7, <1>8, <1>9, <1>10, <1>11, <1>12, <1>13, <1>14, <1>15, <1>16, <1>17
  DEF Next

LEMMA StepIs == ASSUME Inv, [Next]_vars PROVE Inv' /\ (NearCaptures(compilers) => Found)
<1>1. CASE Next BY <1>1, NextIs
<1>2. CASE UNCHANGED vars
  <2>1. /\ compilers' = compilers /\ parsing' = parsing /\ scopes' = scopes /\ status' = status /\ source' = source
    BY <1>2 DEF vars
  <2>2. Inv' BY <2>1 DEF Inv
  <2> QED BY <2>1, <2>2, SameFoundNothing
<1> QED BY <1>1, <1>2

LEMMA InvTypeOK == ASSUME Inv PROVE TypeOK
<1>1. Scoping(compilers, scopes) /\ Compilers(compilers) BY DEF Inv, Scoping
<1>2. ASSUME NEW k \in DOMAIN compilers
      PROVE  LET f == compilers[k] IN
             /\ f.type \in {"script", "module", "function", "method", "initialiser"}
             /\ (k = 1) <=> f.type \in {"script", "module"}
             /\ \A i, j \in DOMAIN f.locals :
                   i <= j => f.locals[i].depth <= f.locals[j].depth /\ f.locals[j].depth \in 0..f.depth
             /\ \A l \in ToSet(f.loops) : l.depth \in 0..f.depth
  <2> DEFINE f == compilers[k]
  <2>1. k \in 1..Len(compilers) BY <1>1, CompilersAre
  <2>2. /\ IsCompiler(f) /\ Scoped(f, scopes[k]) /\ GoodFrame(Shape(f))
        /\ ((k = 1) <=> f.type \in ProgramTypes)
        /\ DOMAIN f.locals = 1..Len(f.locals)
    BY <1>1, <2>1, CompilersAre DEF Scoping
  <2> HIDE DEF f
  <2>3. f.type \in {"script", "module", "function", "method", "initialiser"}
    BY <2>2 DEF IsCompiler, ProgramTypes, FunctionTypes
  <2>4. (k = 1) <=> f.type \in {"script", "module"} BY <2>2 DEF ProgramTypes
  <2>5. \A i, j \in DOMAIN f.locals :
           i <= j => f.locals[i].depth <= f.locals[j].depth /\ f.locals[j].depth \in 0..f.depth
    BY <2>2 DEF Scoped, Ordered
  <2>6. \A l \in ToSet(f.loops) : l.depth \in 0..f.depth
    <3>1. /\ Shape(f).depth = f.depth /\ Len(Shape(f).loops) = Len(f.loops)
          /\ \A i \in 1..Len(f.loops) : Shape(f).loops[i] = f.loops[i].depth
      BY <2>2, ShapeIs
    <3>2. \A i \in 1..Len(Shape(f).loops) : Shape(f).loops[i] \in 0..Shape(f).depth BY <2>2 DEF GoodFrame
    <3>3. DOMAIN f.loops = 1..Len(f.loops) BY <2>2, SeqIs DEF IsCompiler
    <3>4. \A i \in DOMAIN f.loops : f.loops[i].depth \in 0..f.depth BY <3>1, <3>2, <3>3
    <3> QED BY <3>4 DEF ToSet
  <2> QED BY <2>3, <2>4, <2>5, <2>6 DEF f
<1>3. Len(Front(parsing)) + 1 >= Len(compilers)
  <2>1. PICK level, frame : NestedAs(level, frame, compilers, parsing) BY DEF Inv, Nesting
  <2> DEFINE q == Len(parsing)
             n == Len(compilers)
             y == level[q + 1]
  <2>2. q \in Nat /\ q > 0 /\ IsSeq(parsing) /\ n \in Nat BY <1>1, <2>1, SeqIs, CompilersAre DEF NestedAs
  <2>3. q \in 1..q BY <2>2
  <2>4. y = n /\ y \in 1..q BY <2>1, <2>3 DEF NestedAs
  <2>5. Len(Front(parsing)) = q - 1 BY <2>2, FrontIs
  <2> HIDE DEF q, n, y
  <2>6. (q - 1) + 1 >= n BY <2>2, <2>4
  <2> QED BY <2>5, <2>6 DEF n
<1>4. status \in {"compiling", "compiled", "failed"} BY DEF Inv
<1> QED BY <1>2, <1>3, <1>4 DEF TypeOK

(***************************************************************************)
(* The compilers of nested functions are well formed after every step:     *)
(* initialised locals lie in open scopes, outer ones first, loops no       *)
(* deeper than the scopes that are open, and only functions nest.          *)
(***************************************************************************)
THEOREM TypeCorrect == Spec => []TypeOK
<1>1. Init => Inv BY InitIs
<1>2. Inv /\ [Next]_vars => Inv' BY StepIs
<1>3. Inv => TypeOK BY InvTypeOK
<1> QED BY <1>1, <1>2, <1>3, PTL DEF Spec

(***************************************************************************)
(* For every source whose closures capture no local past the 255th, each   *)
(* access compiled leads to the variable its name denotes where it stands, *)
(* and each closure captures the variables its function's upvalues stand   *)
(* for (resolve_local, resolve_upvalue, add_upvalue and end_compiler).     *)
(***************************************************************************)
THEOREM NamesAreFound ==
    ASSUME \A s \in Sources : s.orderly
    PROVE  Spec => NamesFound
<1>1. Init => Inv BY InitIs
<1>2. Inv /\ [Next]_vars => Inv' BY StepIs
<1>3. Inv /\ [Next]_vars => [Found]_vars BY StepIs DEF Inv
<1> QED BY <1>1, <1>2, <1>3, PTL DEF Spec, NamesFound, Found

(***************************************************************************)
(* The same of any source, at each step of a compilation in which no       *)
(* closure has captured a local past the 255th so far.                     *)
(***************************************************************************)
THEOREM NearNamesAreFound == Spec => [][NearCaptures(compilers) => Found]_vars
<1>1. Init => Inv BY InitIs
<1>2. Inv /\ [Next]_vars => Inv' BY StepIs
<1>3. Inv /\ [Next]_vars => [NearCaptures(compilers) => Found]_vars BY StepIs
<1> QED BY <1>1, <1>2, <1>3, PTL DEF Spec

\* The inductive invariant: in every function the locals are the names that the open
\* scopes bind, each with its depth; an upvalue is a local or an upvalue of the function
\* around; and for each call of the parser that waits there is the frame of depths,
\* loops and classes it began in, which is restored when it ends.
THEOREM CompilersInvariant == Spec => []Inv
<1>1. Init => Inv BY InitIs
<1>2. Inv /\ [Next]_vars => Inv' BY StepIs
<1> QED BY <1>1, <1>2, PTL DEF Spec

\* What resolve_local and the walk outwards of resolve_upvalue find is the declaration
\* in force where the parser is, for every name and at every step.
Agreement == \A name : Nonempty(name) => Named(compilers, name) = Denoted(scopes, name)
THEOREM ScopesAgree == Spec => []Agreement
<1>1. Inv => Agreement
  <2> SUFFICES ASSUME Inv, NEW name, Nonempty(name)
               PROVE  Named(compilers, name) = Denoted(scopes, name)
    BY DEF Agreement
  <2> QED BY AgreeNow, DenotedIs, NowIs
<1> QED BY <1>1, CompilersInvariant, PTL
=============================================================================
