---------------------------- MODULE CollectorProofs ----------------------------
(***************************************************************************)
(* What holds of the collector of src/memory.c for every heap, every       *)
(* number of objects and every program: the table of interned strings      *)
(* stays exact while strings are made, moved and freed, nothing that the   *)
(* program or the C code that runs can still refer to is freed, and a      *)
(* collection frees what cannot be reached and no more.                    *)
(***************************************************************************)
EXTENDS Collector, OrderLemmas, SequenceTheorems, FiniteSetTheorems

(***************************************************************************)
(* Reach, step by step. A part of it is its first n steps.                 *)
(***************************************************************************)
Part(from, n, f) == f = [i \in 0 .. n |-> IF i = 0 THEN from ELSE Near(f[i - 1])]

Whole(from, f) == f = [i \in Nat |-> IF i = 0 THEN from ELSE Near(f[i - 1])]

Steps(from) == CHOOSE f : Whole(from, f)

LEMMA PartExists ==
    ASSUME NEW from, NEW n \in Nat
    PROVE  \E f : Part(from, n, f)
<1> DEFINE S == {m \in Nat : ~ \E f : Part(from, m, f)}
<1>1. SUFFICES ASSUME S # {} PROVE FALSE
  OBVIOUS
<1> DEFINE m == Min(S)
<1>2. m \in S /\ \A x \in S : m <= x
  <2>1. S \subseteq Nat OBVIOUS
  <2> QED BY <1>1, <2>1, MinIs
<1>3. CASE m = 0
  <2> HIDE DEF m
  <2>1. 0 .. m = {0} BY <1>3
  <2>2. Part(from, m, [i \in {0} |-> from]) BY <2>1 DEF Part
  <2> QED BY <1>2, <2>2
<1>4. CASE m # 0
  <2>1. m \in Nat /\ m - 1 \in Nat /\ m - 1 \notin S BY <1>2, <1>4
  <2>2. PICK f : Part(from, m - 1, f) BY <2>1
  <2> DEFINE g == [i \in 0 .. m |-> IF i = m THEN Near(f[m - 1]) ELSE f[i]]
  <2> HIDE DEF m
  <2>3. ASSUME NEW i \in 0 .. m PROVE g[i] = IF i = 0 THEN from ELSE Near(g[i - 1])
    <3>1. CASE i = m BY <2>1, <3>1, <1>4
    <3>2. CASE i # m /\ i # 0
      <4>1. i \in 0 .. m - 1 /\ i - 1 \in 0 .. m /\ i - 1 # m BY <2>1, <3>2
      <4>2. f[i] = Near(f[i - 1]) BY <2>2, <4>1, <3>2 DEF Part
      <4> QED BY <4>1, <4>2, <3>2
    <3>3. CASE i # m /\ i = 0 BY <2>1, <2>2, <3>3 DEF Part
    <3> QED BY <3>1, <3>2, <3>3
  <2>4. Part(from, m, g) BY <2>3 DEF Part
  <2> QED BY <1>2, <2>4
<1> QED BY <1>3, <1>4

LEMMA PartUnique ==
    ASSUME NEW from, NEW n \in Nat, NEW p \in Nat, NEW f, NEW g,
           Part(from, n, f), Part(from, p, g), NEW k \in Nat, k <= n, k <= p
    PROVE  f[k] = g[k]
<1> DEFINE S == {i \in 0 .. k : f[i] # g[i]}
<1>1. SUFFICES ASSUME S # {} PROVE FALSE
  OBVIOUS
<1> DEFINE m == Min(S)
<1>2. m \in S /\ \A x \in S : m <= x
  <2>1. S \subseteq Nat OBVIOUS
  <2> QED BY <1>1, <2>1, MinIs
<1>3. m \in 0 .. n /\ m \in 0 .. p /\ f[m] # g[m] BY <1>2
<1>4. CASE m = 0
  <2>1. f[0] = from /\ g[0] = from BY DEF Part
  <2> QED BY <1>3, <1>4, <2>1
<1>5. CASE m # 0
  <2>1. m - 1 \in 0 .. k /\ m - 1 < m BY <1>2, <1>5
  <2>2. f[m - 1] = g[m - 1] BY <1>2, <2>1
  <2> HIDE DEF m
  <2>3. f[m] = Near(f[m - 1]) BY <1>3, <1>5 DEF Part
  <2>4. g[m] = Near(g[m - 1]) BY <1>3, <1>5 DEF Part
  <2> QED BY <1>3, <2>2, <2>3, <2>4
<1> QED BY <1>4, <1>5

LEMMA StepsAre ==
    ASSUME NEW from
    PROVE  /\ Steps(from)[0] = from
           /\ \A n \in Nat : Steps(from)[n + 1] = Near(Steps(from)[n])
<1> DEFINE part(n) == CHOOSE f : Part(from, n, f)
           h == [n \in Nat |-> part(n)[n]]
<1>1. \A n \in Nat : Part(from, n, part(n)) BY PartExists
<1> HIDE DEF part
<1>2. ASSUME NEW n \in Nat PROVE h[n] = IF n = 0 THEN from ELSE Near(h[n - 1])
  <2>1. CASE n = 0 BY <1>1, <2>1 DEF Part
  <2>2. CASE n # 0
    <3>1. n - 1 \in Nat /\ n - 1 <= n BY <2>2
    <3>2. part(n)[n] = Near(part(n)[n - 1])
      <4>1. Part(from, n, part(n)) BY <1>1
      <4> QED BY <4>1, <2>2 DEF Part
    <3>3. part(n)[n - 1] = part(n - 1)[n - 1] BY <1>1, <3>1, PartUnique
    <3> QED BY <2>2, <3>1, <3>2, <3>3
  <2> QED BY <2>1, <2>2
<1>3. Whole(from, h) BY <1>2 DEF Whole
<1> HIDE DEF h
<1>4. Whole(from, Steps(from)) BY <1>3 DEF Steps
<1>5. Steps(from)[0] = from BY <1>4 DEF Whole
<1>6. ASSUME NEW n \in Nat PROVE Steps(from)[n + 1] = Near(Steps(from)[n])
  <2>1. n + 1 \in Nat /\ n + 1 # 0 /\ (n + 1) - 1 = n OBVIOUS
  <2> QED BY <1>4, <2>1 DEF Whole
<1> QED BY <1>5, <1>6

LEMMA ReachIsStep == ASSUME NEW from PROVE Reach(from) = Steps(from)[Cardinality(DOMAIN heap)]
  BY DEF Reach, Steps, Whole

\* What a step adds depends on the objects of the heap that are reached.
LEMMA NearIs ==
    /\ \A objs : objs \subseteq Near(objs)
    /\ \A objs, more : /\ objs \subseteq more
                       /\ more \cap DOMAIN heap \subseteq objs
                       => Near(more) = more \cup Near(objs)
    /\ \A objs, more : objs \subseteq more => Near(objs) \subseteq Near(more)
<1>1. ASSUME NEW objs, NEW more, objs \subseteq more, more \cap DOMAIN heap \subseteq objs
      PROVE  Near(more) = more \cup Near(objs)
  <2>1. more \cap DOMAIN heap = objs \cap DOMAIN heap BY <1>1
  <2> QED BY <1>1, <2>1 DEF Near
<1> QED BY <1>1 DEF Near

\* A step that reaches something new starts at one more object of the heap, so
\* that after as many steps as the heap has objects nothing new is reached.
LEMMA ReachIs ==
    ASSUME NEW from, IsFiniteSet(DOMAIN heap)
    PROVE  /\ from \subseteq Reach(from)
           /\ Near(Reach(from)) \subseteq Reach(from)
           /\ \A C : from \subseteq C /\ Near(C) \subseteq C => Reach(from) \subseteq C
<1> DEFINE R == Steps(from)
           N == Cardinality(DOMAIN heap)
           E(n) == R[n] \cap DOMAIN heap
<1>1. N \in Nat BY FS_CardinalityType
<1>2. R[0] = from /\ \A n \in Nat : R[n + 1] = Near(R[n]) BY StepsAre
<1>3. Reach(from) = R[N] BY ReachIsStep
<1> HIDE DEF R, N
<1>4. \A n \in Nat : R[n] \subseteq R[n + 1] BY <1>2, NearIs
<1>5. ASSUME NEW n \in Nat PROVE from \subseteq R[n]
  <2> DEFINE S == {i \in Nat : ~ (from \subseteq R[i])}
             m == Min(S)
  <2>1. SUFFICES ASSUME S # {} PROVE FALSE OBVIOUS
  <2>2. m \in S /\ \A x \in S : m <= x
    <3>1. S \subseteq Nat OBVIOUS
    <3> QED BY <2>1, <3>1, MinIs
  <2>3. m \in Nat /\ ~ (from \subseteq R[m]) BY <2>2
  <2>4. m # 0 BY <1>2, <2>3
  <2> HIDE DEF m
  <2>5. m - 1 \in Nat /\ m - 1 \notin S
    <3>1. m - 1 \in Nat /\ ~ (m <= m - 1) BY <2>3, <2>4
    <3> QED BY <2>2, <3>1
  <2>6. from \subseteq R[m - 1] BY <2>5
  <2>7. R[m - 1] \subseteq R[(m - 1) + 1] BY <1>4, <2>5
  <2>8. (m - 1) + 1 = m BY <2>3
  <2> QED BY <2>3, <2>6, <2>7, <2>8
<1>6. ASSUME NEW C, from \subseteq C, Near(C) \subseteq C, NEW n \in Nat PROVE R[n] \subseteq C
  <2> DEFINE S == {i \in Nat : ~ (R[i] \subseteq C)}
             m == Min(S)
  <2>1. SUFFICES ASSUME S # {} PROVE FALSE OBVIOUS
  <2>2. m \in S /\ \A x \in S : m <= x
    <3>1. S \subseteq Nat OBVIOUS
    <3> QED BY <2>1, <3>1, MinIs
  <2>3. m \in Nat /\ ~ (R[m] \subseteq C) BY <2>2
  <2>4. m # 0 BY <1>2, <1>6, <2>3
  <2> HIDE DEF m
  <2>5. m - 1 \in Nat /\ m - 1 \notin S
    <3>1. m - 1 \in Nat /\ ~ (m <= m - 1) BY <2>3, <2>4
    <3> QED BY <2>2, <3>1
  <2>6. R[m - 1] \subseteq C BY <2>5
  <2>7. R[(m - 1) + 1] = Near(R[m - 1]) BY <1>2, <2>5
  <2>8. (m - 1) + 1 = m BY <2>3
  <2>9. Near(R[m - 1]) \subseteq Near(C) BY <2>6, NearIs
  <2> QED BY <1>6, <2>3, <2>7, <2>8, <2>9
<1>7. ASSUME NEW n \in Nat, R[n + 1] # R[n] PROVE Cardinality(E(n)) >= n + 1
  <2> DEFINE S == {i \in Nat : R[i + 1] # R[i] /\ ~ (Cardinality(E(i)) >= i + 1)}
             m == Min(S)
  <2>1. SUFFICES ASSUME S # {} PROVE FALSE BY <1>7
  <2>2. m \in S /\ \A x \in S : m <= x
    <3>1. S \subseteq Nat OBVIOUS
    <3> QED BY <2>1, <3>1, MinIs
  <2>3. m \in Nat /\ R[m + 1] # R[m] /\ ~ (Cardinality(E(m)) >= m + 1) BY <2>2
  <2> HIDE DEF m
  <2>4. IsFiniteSet(E(m)) /\ Cardinality(E(m)) \in Nat
    BY FS_Intersection, FS_CardinalityType
  <2>5. CASE m = 0
    <3>1. E(0) # {}
      <4>1. SUFFICES ASSUME E(0) = {} PROVE FALSE OBVIOUS
      <4>2. Near(R[0]) = R[0] BY <4>1 DEF Near
      <4>3. R[0 + 1] = Near(R[0]) BY <1>2
      <4> QED BY <2>3, <2>5, <4>2, <4>3
    <3>2. Cardinality(E(0)) # 0 BY <2>4, <2>5, <3>1, FS_EmptySet
    <3> QED BY <2>3, <2>4, <2>5, <3>2
  <2>6. CASE m # 0
    <3>1. m - 1 \in Nat /\ (m - 1) + 1 = m BY <2>3, <2>6
    <3>2. R[m - 1] \subseteq R[m] /\ R[m] = Near(R[m - 1]) /\ R[m + 1] = Near(R[m])
      <4>1. R[(m - 1) + 1] = Near(R[m - 1]) BY <1>2, <3>1
      <4>2. R[m + 1] = Near(R[m]) BY <1>2, <2>3
      <4>3. R[m - 1] \subseteq R[(m - 1) + 1] BY <1>4, <3>1
      <4> QED BY <3>1, <4>1, <4>2, <4>3
    <3>3. PICK o \in E(m) : o \notin E(m - 1)
      <4>1. SUFFICES ASSUME E(m) \subseteq E(m - 1) PROVE FALSE OBVIOUS
      <4>2. R[m] \cap DOMAIN heap \subseteq R[m - 1] BY <4>1
      <4>3. Near(R[m]) = R[m] \cup Near(R[m - 1]) BY <3>2, <4>2, NearIs
      <4> QED BY <2>3, <3>2, <4>3
    <3>4. E(m - 1) \subseteq E(m) /\ E(m - 1) # E(m) BY <3>2, <3>3
    <3>5. IsFiniteSet(E(m - 1)) /\ Cardinality(E(m - 1)) \in Nat
      BY FS_Intersection, FS_CardinalityType
    <3>6. Cardinality(E(m - 1)) < Cardinality(E(m))
      <4> HIDE DEF E
      <4>1. E(m - 1) \in SUBSET E(m) BY <3>4
      <4>2. /\ Cardinality(E(m - 1)) <= Cardinality(E(m))
            /\ Cardinality(E(m)) = Cardinality(E(m - 1)) => E(m) = E(m - 1)
        BY <2>4, <4>1, FS_Subset
      <4> QED BY <2>4, <3>4, <3>5, <4>2
    <3>7. R[m] # R[m - 1]
      BY <3>3
    <3>8. m - 1 \notin S
      <4>1. ~ (m <= m - 1) BY <2>3
      <4> QED BY <2>2, <4>1
    <3>9. Cardinality(E(m - 1)) >= m
      BY <3>1, <3>7, <3>8
    <3> HIDE DEF E
    <3> QED BY <2>3, <2>4, <3>1, <3>5, <3>6, <3>9
  <2> QED BY <2>5, <2>6
<1>8. R[N + 1] = R[N]
  <2>1. SUFFICES ASSUME R[N + 1] # R[N] PROVE FALSE OBVIOUS
  <2>2. Cardinality(E(N)) >= N + 1 BY <1>1, <1>7, <2>1
  <2>3. E(N) \subseteq DOMAIN heap OBVIOUS
  <2>4. Cardinality(E(N)) \in Nat /\ Cardinality(E(N)) <= Cardinality(DOMAIN heap)
    <3> HIDE DEF E
    <3> QED BY <2>3, FS_Subset, FS_CardinalityType
  <2>5. Cardinality(DOMAIN heap) = N BY DEF N
  <2> HIDE DEF E
  <2> QED BY <1>1, <2>2, <2>4, <2>5
<1>9. Near(R[N]) = R[N] BY <1>1, <1>2, <1>8
<1> QED BY <1>1, <1>3, <1>5, <1>6, <1>9
-----------------------------------------------------------------------------
(***************************************************************************)
(* The code of the instructions: sequences of clean steps, those that make *)
(* no string themselves but leave it to copy_string and take_string, and   *)
(* write to no table of strings.                                           *)
(***************************************************************************)
Clean(step) ==
    /\ step.to \in Registers
    /\ step.op # "remember"
    /\ step.op = "new" => step.arg.type # "string"
    /\ step.op \in {"drop", "enter"} => step.arg \in Nat

IsCode(s) == \E S : s \in Seq(S) /\ \A x \in S : Clean(x)

LEMMA CodeHead ==
    ASSUME NEW s, IsCode(s), s # <<>>
    PROVE  Clean(Head(s)) /\ IsCode(Tail(s))
<1>1. PICK S : s \in Seq(S) /\ \A x \in S : Clean(x) BY DEF IsCode
<1>2. Head(s) \in S /\ Tail(s) \in Seq(S) BY <1>1, HeadTailProperties
<1> QED BY <1>1, <1>2 DEF IsCode

LEMMA CodeConcat ==
    ASSUME NEW s, NEW t, IsCode(s), IsCode(t)
    PROVE  IsCode(s \o t)
<1>1. PICK S : s \in Seq(S) /\ \A x \in S : Clean(x) BY DEF IsCode
<1>2. PICK T : t \in Seq(T) /\ \A x \in T : Clean(x) BY DEF IsCode
<1>3. s \in Seq(S \cup T) /\ t \in Seq(S \cup T)
  BY <1>1, <1>2, SeqMonotonic
<1>4. s \o t \in Seq(S \cup T) BY <1>3, ConcatProperties
<1> QED BY <1>1, <1>2, <1>4 DEF IsCode

LEMMA CodeOf ==
    /\ IsCode(<<>>)
    /\ \A u : Clean(u) => IsCode(<<u>>)
    /\ \A u, v : Clean(u) /\ Clean(v) => IsCode(<<u, v>>)
    /\ \A u, v, w : Clean(u) /\ Clean(v) /\ Clean(w) => IsCode(<<u, v, w>>)
    /\ \A u, v, w, x : Clean(u) /\ Clean(v) /\ Clean(w) /\ Clean(x) => IsCode(<<u, v, w, x>>)
    /\ \A u, v, w, x, y : Clean(u) /\ Clean(v) /\ Clean(w) /\ Clean(x) /\ Clean(y)
                             => IsCode(<<u, v, w, x, y>>)
<1>1. IsCode(<<>>)
  <2> DEFINE S == {}  s == <<>>
  <2>1. s \in Seq(S) OBVIOUS
  <2>2. \A z \in S : Clean(z) OBVIOUS
  <2> HIDE DEF S, s
  <2>3. IsCode(s) BY <2>1, <2>2 DEF IsCode
  <2> QED BY <2>3 DEF s
<1>2. ASSUME NEW u, Clean(u) PROVE IsCode(<<u>>)
  <2> DEFINE S == {u}  s == <<u>>
  <2>1. s \in Seq(S) OBVIOUS
  <2>2. \A z \in S : Clean(z) BY <1>2
  <2> HIDE DEF S, s
  <2>3. IsCode(s) BY <2>1, <2>2 DEF IsCode
  <2> QED BY <2>3 DEF s
<1>3. ASSUME NEW u, NEW v, Clean(u), Clean(v) PROVE IsCode(<<u, v>>)
  <2> DEFINE S == {u, v}  s == <<u, v>>
  <2>1. s \in Seq(S) OBVIOUS
  <2>2. \A z \in S : Clean(z) BY <1>3
  <2> HIDE DEF S, s
  <2>3. IsCode(s) BY <2>1, <2>2 DEF IsCode
  <2> QED BY <2>3 DEF s
<1>4. ASSUME NEW u, NEW v, NEW w, Clean(u), Clean(v), Clean(w) PROVE IsCode(<<u, v, w>>)
  <2> DEFINE S == {u, v, w}  s == <<u, v, w>>
  <2>1. s \in Seq(S) OBVIOUS
  <2>2. \A z \in S : Clean(z) BY <1>4
  <2> HIDE DEF S, s
  <2>3. IsCode(s) BY <2>1, <2>2 DEF IsCode
  <2> QED BY <2>3 DEF s
<1>5. ASSUME NEW u, NEW v, NEW w, NEW x, Clean(u), Clean(v), Clean(w), Clean(x)
      PROVE  IsCode(<<u, v, w, x>>)
  <2> DEFINE S == {u, v, w, x}  s == <<u, v, w, x>>
  <2>1. s \in Seq(S) OBVIOUS
  <2>2. \A z \in S : Clean(z) BY <1>5
  <2> HIDE DEF S, s
  <2>3. IsCode(s) BY <2>1, <2>2 DEF IsCode
  <2> QED BY <2>3 DEF s
<1>6. ASSUME NEW u, NEW v, NEW w, NEW x, NEW y,
             Clean(u), Clean(v), Clean(w), Clean(x), Clean(y)
      PROVE  IsCode(<<u, v, w, x, y>>)
  <2> DEFINE S == {u, v, w, x, y}  s == <<u, v, w, x, y>>
  <2>1. s \in Seq(S) OBVIOUS
  <2>2. \A z \in S : Clean(z) BY <1>6
  <2> HIDE DEF S, s
  <2>3. IsCode(s) BY <2>1, <2>2 DEF IsCode
  <2> QED BY <2>3 DEF s
<1> QED BY <1>1, <1>2, <1>3, <1>4, <1>5, <1>6

LEMMA CleanSteps ==
    /\ Clean(Block) /\ \A from : Clean(Use(from))
    /\ \A to \in Registers : \A type, parts : type # "string" => Clean(New(to, type, parts))
    /\ \A to \in Registers : \A text : Clean(Intern(to, text)) /\ Clean(Copy(to, text))
    /\ \A from : Clean(Push(from)) /\ Clean(Throw(from))
    /\ \A n \in Nat : Clean(Drop(n))
    /\ \A d, from : Clean(Replace(d, from))
    /\ \A obj \in Registers : \A field, from : Clean(Put(obj, field, from))
    /\ \A b : Clean(Allow(b))
    /\ \A key, val : Clean(Define(key, val))
    /\ \A up, slot : Clean(Link(up, slot))
    /\ \A clo, argc : argc \in Nat => Clean(Enter(clo, argc))
    /\ \A to \in Registers : \A slot : Clean(Fetch(to, slot))
  BY DEF Clean, Do, Registers, Block, Use, New, NewOf, Intern, Copy, Push, Throw, Drop, Replace,
         Put, Allow, Define, Link, Enter, Fetch

LEMMA Names == "a" \in Registers /\ "b" \in Registers /\ "c" \in Registers
               /\ "r" \in Registers /\ "n" \in Registers
  BY DEF Registers
-----------------------------------------------------------------------------
(* The pieces of code the instructions are put together from. *)

Flat(ss, f) ==
    f = [i \in 1 .. Len(ss) |-> IF i = 1 THEN ss[i] ELSE f[i - 1] \o ss[i]]

FlatPart(ss, n, f) ==
    f = [i \in 1 .. n |-> IF i = 1 THEN ss[i] ELSE f[i - 1] \o ss[i]]

LEMMA FlatExists ==
    ASSUME NEW ss, NEW n \in Nat
    PROVE  \E f : FlatPart(ss, n, f)
<1> DEFINE S == {m \in Nat : ~ \E f : FlatPart(ss, m, f)}
           m == Min(S)
<1>1. SUFFICES ASSUME S # {} PROVE FALSE
  OBVIOUS
<1>2. m \in S /\ \A x \in S : m <= x
  <2>1. S \subseteq Nat OBVIOUS
  <2> QED BY <1>1, <2>1, MinIs
<1>3. m \in Nat /\ ~ \E f : FlatPart(ss, m, f) BY <1>2
<1>4. \A x \in Nat : x < m => \E f : FlatPart(ss, x, f)
  <2>1. SUFFICES ASSUME NEW x \in Nat, x < m PROVE x \notin S OBVIOUS
  <2> HIDE DEF m
  <2>2. ~ (m <= x) BY <1>3, <2>1
  <2> QED BY <1>2, <2>2
<1> HIDE DEF m
<1>5. CASE m = 0
  <2>1. 1 .. m = {} BY <1>5
  <2>2. FlatPart(ss, m, [i \in {} |-> ss]) BY <2>1 DEF FlatPart
  <2> QED BY <1>3, <2>2
<1>6. CASE m # 0
  <2>1. m - 1 \in Nat /\ m - 1 < m BY <1>3, <1>6
  <2>2. PICK f : FlatPart(ss, m - 1, f) BY <1>4, <2>1
  <2> DEFINE g == [i \in 1 .. m |-> IF i = m THEN IF m = 1 THEN ss[m] ELSE f[m - 1] \o ss[m]
                                    ELSE f[i]]
  <2>3. ASSUME NEW i \in 1 .. m PROVE g[i] = IF i = 1 THEN ss[i] ELSE g[i - 1] \o ss[i]
    <3>1. CASE i = m
      <4>1. i # 1 => i - 1 \in 1 .. m /\ i - 1 # m BY <1>3, <3>1
      <4> QED BY <3>1, <4>1
    <3>2. CASE i # m /\ i # 1
      <4>1. i \in 1 .. m - 1 /\ i - 1 \in 1 .. m /\ i - 1 # m BY <1>3, <3>2
      <4>2. f[i] = f[i - 1] \o ss[i] BY <2>2, <4>1, <3>2 DEF FlatPart
      <4> QED BY <4>1, <4>2, <3>2
    <3>3. CASE i # m /\ i = 1
      <4>1. i \in 1 .. m - 1 BY <1>3, <3>3
      <4>2. f[i] = ss[i] BY <2>2, <4>1, <3>3 DEF FlatPart
      <4> QED BY <4>2, <3>3
    <3> QED BY <3>1, <3>2, <3>3
  <2>4. FlatPart(ss, m, g) BY <2>3 DEF FlatPart
  <2> QED BY <1>3, <2>4
<1> QED BY <1>5, <1>6

\* Pieces of code put together are code.
LEMMA CodeFlat ==
    ASSUME NEW T, NEW ss \in Seq(T), \A i \in DOMAIN ss : IsCode(ss[i])
    PROVE  IsCode(FlattenSeq(ss))
<1>1. CASE Len(ss) = 0
  <2>1. ss = <<>> BY <1>1
  <2>2. FlattenSeq(ss) = ss BY <1>1 DEF FlattenSeq
  <2> QED BY <2>1, <2>2, CodeOf
<1>2. CASE Len(ss) # 0
  <2> DEFINE f == CHOOSE g : Flat(ss, g)
             n == Len(ss)
  <2>1. FlattenSeq(ss) = f[n] BY <1>2 DEF FlattenSeq, Flat
  <2>2. n \in Nat /\ DOMAIN ss = 1 .. n /\ n # 0 BY <1>2
  <2>3. Flat(ss, f)
    <3>1. \E g : FlatPart(ss, n, g) BY <2>2, FlatExists
    <3>2. \E g : Flat(ss, g) BY <3>1 DEF Flat, FlatPart
    <3> QED BY <3>2
  <2> HIDE DEF f, n
  <2>4. \A i \in 1 .. n : f[i] = IF i = 1 THEN ss[i] ELSE f[i - 1] \o ss[i]
    BY <2>3 DEF Flat, n
  <2> DEFINE S == {i \in 1 .. n : ~ IsCode(f[i])}
             m == Min(S)
  <2>5. S = {}
    <3>1. SUFFICES ASSUME S # {} PROVE FALSE OBVIOUS
    <3>2. m \in S /\ \A x \in S : m <= x
      <4>1. S \subseteq Nat OBVIOUS
      <4> QED BY <3>1, <4>1, MinIs
    <3>3. m \in 1 .. n /\ ~ IsCode(f[m]) BY <3>2
    <3> HIDE DEF m
    <3>4. m # 1 BY <2>2, <2>4, <3>3
    <3>5. m - 1 \in 1 .. n /\ ~ (m <= m - 1) BY <2>2, <3>3, <3>4
    <3>6. IsCode(f[m - 1])
      <4>1. m - 1 \notin S BY <3>2, <3>5
      <4> QED BY <3>5, <4>1
    <3>7. f[m] = f[m - 1] \o ss[m] BY <2>4, <3>3, <3>4
    <3>8. IsCode(ss[m]) BY <2>2, <3>3
    <3> QED BY <3>3, <3>6, <3>7, <3>8, CodeConcat
  <2>6. n \in 1 .. n BY <2>2
  <2> QED BY <2>1, <2>5, <2>6
<1> QED BY <1>1, <1>2

LEMMA GuardedIsCode == ASSUME NEW s, IsCode(s) PROVE IsCode(Guarded(s))
<1>1. IsCode(<<Allow(FALSE)>>) /\ IsCode(<<Allow(TRUE)>>) BY CodeOf, CleanSteps
<1>2. IsCode(<<Allow(FALSE)>> \o s) BY <1>1, CodeConcat
<1> QED BY <1>1, <1>2, CodeConcat DEF Guarded

LEMMA NewClosureIsCode ==
    ASSUME NEW to \in Registers, NEW function PROVE IsCode(NewClosure(to, function))
<1>1. Clean(New(to, "closure", [function |-> {function}])) BY CleanSteps
<1> QED BY <1>1, CodeOf, CleanSteps DEF NewClosure

LEMMA AddNamesIsCode ==
    ASSUME NEW to \in Registers, program \in Programs
    PROVE  IsCode(AddNames(to))
<1> DEFINE n == Cardinality(program.texts)
           part(i) == <<Intern("n", SetToSeq(program.texts)[i]), Put(to, "constants", {"n"})>>
           T == {part(i) : i \in 1 .. n}
           ss == [i \in 1 .. n |-> part(i)]
<1>1. n \in Nat BY CollectorConstants, FS_CardinalityType
<1>2. \A i : IsCode(part(i)) BY CodeOf, CleanSteps, Names
<1>3. AddNames(to) = FlattenSeq(ss) BY DEF AddNames
<1> HIDE DEF part, n
<1>4. ss \in Seq(T) BY <1>1
<1>5. \A i \in DOMAIN ss : IsCode(ss[i]) BY <1>1, <1>2
<1> HIDE DEF ss, T
<1> QED BY <1>3, <1>4, <1>5, CodeFlat

LEMMA CompileIsCode == ASSUME program \in Programs PROVE IsCode(Compile)
<1>1. IsCode(AddNames("a")) /\ IsCode(AddNames("b")) BY AddNamesIsCode, Names
<1>2. IsCode(CompileFunction)
  <2>1. IsCode(<<New("b", "function", <<>>), Intern("n", FunctionText), Put("b", "name", {"n"})>>)
    BY CodeOf, CleanSteps, Names
  <2>2. IsCode(<<Put("a", "constants", {"b"})>>) BY CodeOf, CleanSteps, Names
  <2>3. IsCode(<<New("b", "function", <<>>), Intern("n", FunctionText), Put("b", "name", {"n"})>>
               \o AddNames("b"))
    BY <1>1, <2>1, CodeConcat
  <2> QED BY <2>2, <2>3, CodeConcat DEF CompileFunction
<1>3. IsCode(IF program.nested THEN CompileFunction ELSE <<>>) BY <1>2, CodeOf
<1>4. IsCode(Guarded(AddNames("a") \o IF program.nested THEN CompileFunction ELSE <<>>))
  BY <1>1, <1>3, CodeConcat, GuardedIsCode
<1>5. IsCode(<<New("a", "function", <<>>)>>) BY CodeOf, CleanSteps, Names
<1> QED BY <1>4, <1>5, CodeConcat DEF Compile

LEMMA SetEntryIsCode ==
    ASSUME NEW obj \in Registers, NEW field, NEW from PROVE IsCode(SetEntry(obj, field, from))
  BY CodeOf, CleanSteps DEF SetEntry

LEMMA CaptureIsCode == ASSUME NEW slot PROVE IsCode(Capture(slot))
<1>1. IsCode(<<Put("c", "upvalues", {"b"})>>) BY CodeOf, CleanSteps, Names
<1>2. Clean(New("n", "upvalue", <<>>)) BY CleanSteps, Names
<1>3. IsCode(<<New("n", "upvalue", <<>>), Link("n", slot), Put("c", "upvalues", {"n"})>>)
  BY <1>2, CodeOf, CleanSteps, Names
<1> QED BY <1>1, <1>3 DEF Capture

LEMMA NewExceptionIsCode ==
    ASSUME NEW to \in Registers, NEW message PROVE IsCode(NewException(to, message))
<1>1. Clean(New(to, "exception", <<>>)) /\ Clean(Drop(1)) BY CleanSteps
<1> QED BY <1>1, CodeOf, CleanSteps DEF NewException

LEMMA ErrorIsCode == ASSUME NEW text PROVE IsCode(Error(text))
<1>1. IsCode(<<Block, Intern("n", text)>>) BY CodeOf, CleanSteps, Names
<1>2. IsCode(NewException("c", "n")) BY NewExceptionIsCode, Names
<1>3. IsCode(<<Throw("c")>>) BY CodeOf, CleanSteps
<1>4. IsCode(<<Block, Intern("n", text)>> \o NewException("c", "n")) BY <1>1, <1>2, CodeConcat
<1> QED BY <1>3, <1>4, CodeConcat DEF Error

LEMMA NativeIsCode ==
    ASSUME NEW argc \in Nat, NEW body, IsCode(body) PROVE IsCode(Native(argc, body))
<1>1. Clean(Drop(argc + 1)) BY CleanSteps
<1>2. IsCode(<<Drop(argc + 1), Push("r"), Block>>) BY <1>1, CodeOf, CleanSteps
<1> QED BY <1>2, GuardedIsCode, CodeConcat DEF Native

LEMMA AllocateArrayIsCode == ASSUME NEW from PROVE IsCode(AllocateArray(from))
<1>1. Clean(New("r", "array", [values |-> from])) /\ Clean(Drop(1)) BY CleanSteps, Names
<1> QED BY <1>1, CodeOf, CleanSteps DEF AllocateArray

LEMMA ToStrIsCode == ASSUME NEW text PROVE IsCode(ToStr(text))
  BY CodeOf, CleanSteps, Names DEF ToStr

LEMMA ElementsToStrIsCode == IsCode(ElementsToStr)
<1> DEFINE part == <<Intern("n", FunctionText), Block, Use({"n"})>>
           ss == [i \in 1 .. 2 |-> part]
<1>1. IsCode(part) BY CodeOf, CleanSteps, Names
<1>2. ElementsToStr = FlattenSeq(ss) BY DEF ElementsToStr
<1> HIDE DEF part
<1>3. ss \in Seq({part}) OBVIOUS
<1>4. \A i \in DOMAIN ss : IsCode(ss[i]) BY <1>1
<1> HIDE DEF ss
<1> QED BY <1>2, <1>3, <1>4, CodeFlat

\* An instruction whose C code allocates, enters a function or fails.
Performs == \E variables, steps : Perform(variables, steps) /\ IsCode(steps)

LEMMA PerformsIt == ASSUME NEW v, NEW s, Perform(v, s), IsCode(s) PROVE Performs
  BY DEF Performs

LEMMA ModulesPerform ==
    ASSUME program \in Programs, Interpret \/ Import \/ BuildNamespace
    PROVE  todo = <<>> /\ Performs
<1>0. IsCode(Compile) BY CompileIsCode
<1>c. IsCode(NewClosure("c", "a")) BY NewClosureIsCode, Names
<1>1. CASE Interpret
  <2> DEFINE code == Compile \o <<Push("a")>> \o NewClosure("c", "a")
                     \o <<Drop(1), Push("c"), Enter("c", 0)>>
  <2>1. IsCode(<<Push("a")>>) /\ IsCode(<<Drop(1), Push("c"), Enter("c", 0)>>)
    <3>1. Clean(Drop(1)) /\ Clean(Enter("c", 0)) BY CleanSteps
    <3> QED BY <3>1, CodeOf, CleanSteps
  <2>2. IsCode(Compile \o <<Push("a")>>) BY <1>0, <2>1, CodeConcat
  <2>3. IsCode(Compile \o <<Push("a")>> \o NewClosure("c", "a")) BY <1>c, <2>2, CodeConcat
  <2>4. IsCode(code) BY <2>1, <2>3, CodeConcat
  <2>5. Perform(<<>>, code) /\ todo = <<>> BY <1>1 DEF Interpret
  <2> QED BY <2>4, <2>5, PerformsIt
<1>2. CASE Import
  <2> DEFINE code == Compile \o <<Replace(0, "a")>> \o NewClosure("c", "a")
                     \o <<Replace(0, "c"), Enter("c", 0)>>
  <2>1. IsCode(<<Replace(0, "a")>>) /\ IsCode(<<Replace(0, "c"), Enter("c", 0)>>)
    <3>1. Clean(Enter("c", 0)) BY CleanSteps
    <3> QED BY <3>1, CodeOf, CleanSteps
  <2>2. IsCode(Compile \o <<Replace(0, "a")>>) BY <1>0, <2>1, CodeConcat
  <2>3. IsCode(Compile \o <<Replace(0, "a")>> \o NewClosure("c", "a")) BY <1>c, <2>2, CodeConcat
  <2>4. IsCode(code) BY <2>1, <2>3, CodeConcat
  <2>5. Perform(<<>>, code) /\ todo = <<>> BY <1>2 DEF Import, Runs
  <2> QED BY <2>4, <2>5, PerformsIt
<1>3. CASE BuildNamespace
  <2> DEFINE code(slot) == <<Copy("n", ModuleText),
                             New("r", "namespace", [name |-> {"n"}]), Push("r"),
                             Fetch("c", slot)>> \o SetEntry("r", "values", {"a", "c"})
  <2>1. PICK name, slot : Perform([a |-> {name}], code(slot)) BY <1>3 DEF BuildNamespace
  <2>2. Clean(New("r", "namespace", [name |-> {"n"}])) BY CleanSteps, Names
  <2>3. Clean(Copy("n", ModuleText)) /\ Clean(Fetch("c", slot)) BY CleanSteps, Names
  <2>4. IsCode(<<Copy("n", ModuleText), New("r", "namespace", [name |-> {"n"}]), Push("r"),
                 Fetch("c", slot)>>)
    BY <2>2, <2>3, CodeOf, CleanSteps
  <2>5. IsCode(SetEntry("r", "values", {"a", "c"})) BY SetEntryIsCode, Names
  <2>6. IsCode(code(slot)) BY <2>4, <2>5, CodeConcat
  <2>7. todo = <<>> BY <1>3 DEF BuildNamespace, Runs
  <2> QED BY <2>1, <2>6, <2>7, PerformsIt
<1> QED BY <1>1, <1>2, <1>3

LEMMA VariablesPerform ==
    ASSUME Load \/ DefineGlobal \/ MakeClosure
    PROVE  todo = <<>> /\ Performs
<1>1. CASE Load
  <2>1. PICK v : Perform([a |-> v], <<Push("a")>>) BY <1>1 DEF Load
  <2>2. IsCode(<<Push("a")>>) BY CodeOf, CleanSteps
  <2> QED BY <1>1, <2>1, <2>2, PerformsIt DEF Load
<1>2. CASE DefineGlobal
  <2>1. PICK name : Perform([a |-> {name}, b |-> Peek(0)], <<Block, Define("a", "b"), Drop(1)>>)
    BY <1>2 DEF DefineGlobal
  <2>2. Clean(Drop(1)) BY CleanSteps
  <2>3. IsCode(<<Block, Define("a", "b"), Drop(1)>>) BY <2>2, CodeOf, CleanSteps
  <2>4. todo = <<>> BY <1>2 DEF DefineGlobal, Runs
  <2> QED BY <2>1, <2>3, <2>4, PerformsIt
<1>3. CASE MakeClosure
  <2> DEFINE up == NewClosure("c", "a") \o <<Push("c"), Put("c", "upvalues", {"b"})>>
             own(slot) == NewClosure("c", "a") \o <<Push("c")>> \o Capture(slot)
             held(slot) == UNION {u.upvalue : u \in {v \in open : v.slot = slot}}
  <2>1. PICK function :
           \/ Perform([a |-> {function}, b |-> Get(Active.closure, "upvalues")], up)
           \/ \E slot : Perform([a |-> {function}, b |-> held(slot)], own(slot))
    BY <1>3 DEF MakeClosure
  <2>2. todo = <<>> BY <1>3 DEF MakeClosure, Runs
  <2>3. IsCode(NewClosure("c", "a")) BY NewClosureIsCode, Names
  <2>4. IsCode(up)
    <3>1. IsCode(<<Push("c"), Put("c", "upvalues", {"b"})>>) BY CodeOf, CleanSteps, Names
    <3> QED BY <2>3, <3>1, CodeConcat
  <2>5. \A slot : IsCode(own(slot))
    <3>1. IsCode(<<Push("c")>>) BY CodeOf, CleanSteps
    <3>2. IsCode(NewClosure("c", "a") \o <<Push("c")>>) BY <2>3, <3>1, CodeConcat
    <3> QED BY <3>2, CaptureIsCode, CodeConcat
  <2> HIDE DEF up, own, held
  <2> QED BY <2>1, <2>2, <2>4, <2>5, PerformsIt
<1> QED BY <1>1, <1>2, <1>3

LEMMA ClassesPerform ==
    ASSUME MakeClass \/ DefineMethod \/ InheritMethods
    PROVE  todo = <<>> /\ Performs
<1>0. Clean(Drop(1)) /\ IsCode(<<Drop(1)>>)
  <2>1. Clean(Drop(1)) BY CleanSteps
  <2> QED BY <2>1, CodeOf
<1>1. CASE MakeClass
  <2>1. PICK name : Perform([a |-> {name}], <<New("r", "class", [name |-> {"a"}]), Push("r")>>)
    BY <1>1 DEF MakeClass
  <2>2. Clean(New("r", "class", [name |-> {"a"}])) BY CleanSteps, Names
  <2>3. IsCode(<<New("r", "class", [name |-> {"a"}]), Push("r")>>) BY <2>2, CodeOf, CleanSteps
  <2>4. todo = <<>> BY <1>1 DEF MakeClass, Runs
  <2> QED BY <2>1, <2>3, <2>4, PerformsIt
<1>2. CASE DefineMethod
  <2>1. PICK name : Perform([a |-> Peek(1), b |-> Peek(0), n |-> {name}],
                            SetEntry("a", "methods", {"n", "b"}) \o <<Drop(1)>>)
    BY <1>2 DEF DefineMethod
  <2>2. IsCode(SetEntry("a", "methods", {"n", "b"}) \o <<Drop(1)>>)
    BY <1>0, SetEntryIsCode, Names, CodeConcat
  <2>3. todo = <<>> BY <1>2 DEF DefineMethod, Runs
  <2> QED BY <2>1, <2>2, <2>3, PerformsIt
<1>3. CASE InheritMethods
  <2>1. Perform([a |-> Peek(0), b |-> Get(Peek(1), "methods")],
                SetEntry("a", "methods", {"b"}) \o <<Drop(1)>>)
    BY <1>3 DEF InheritMethods
  <2>2. IsCode(SetEntry("a", "methods", {"b"}) \o <<Drop(1)>>)
    BY <1>0, SetEntryIsCode, Names, CodeConcat
  <2>3. todo = <<>> BY <1>3 DEF InheritMethods, Runs
  <2> QED BY <2>1, <2>2, <2>3, PerformsIt
<1> QED BY <1>1, <1>2, <1>3

LEMMA CallsPerform ==
    ASSUME CallClosure \/ CallBound \/ CallClass \/ InvokeMethod
    PROVE  todo = <<>> /\ Performs
<1>0. \A clo : \A argc \in 0 .. 1 : IsCode(<<Enter(clo, argc)>>)
  <2>1. \A clo : \A argc \in 0 .. 1 : Clean(Enter(clo, argc)) BY CleanSteps
  <2> QED BY <2>1, CodeOf
<1>1. CASE CallClosure
  <2>1. PICK argc \in 0 .. 1 : Perform([a |-> Peek(argc)], <<Enter("a", argc)>>) /\ todo = <<>>
    BY <1>1 DEF CallClosure, Callee, Runs
  <2> QED BY <1>0, <2>1, PerformsIt
<1>2. CASE CallBound
  <2>1. PICK argc \in 0 .. 1 :
           /\ Perform([a |-> Get(Peek(argc), "receiver"), b |-> Get(Peek(argc), "method")],
                      <<Replace(argc, "a"), Enter("b", argc)>>)
           /\ todo = <<>>
    BY <1>2 DEF CallBound, Callee, Runs
  <2>2. Clean(Enter("b", argc)) BY CleanSteps
  <2>3. IsCode(<<Replace(argc, "a"), Enter("b", argc)>>) BY <2>2, CodeOf, CleanSteps
  <2> QED BY <2>1, <2>3, PerformsIt
<1>3. CASE CallClass
  <2> DEFINE create(argc) ==
                 <<New("r", "instance", [class_ |-> {"a"}]), Replace(argc, "r")>>
  <2>1. PICK argc \in 0 .. 1 :
           /\ todo = <<>>
           /\ \/ \E method : Perform([a |-> Peek(argc), b |-> {method}],
                                     create(argc) \o <<Enter("b", argc)>>)
              \/ argc = 0 /\ Perform([a |-> Peek(0)], create(argc))
    BY <1>3 DEF CallClass, Callee, Runs
  <2>2. IsCode(create(argc))
    <3>1. Clean(New("r", "instance", [class_ |-> {"a"}])) BY CleanSteps, Names
    <3> QED BY <3>1, CodeOf, CleanSteps
  <2> HIDE DEF create
  <2>3. IsCode(create(argc) \o <<Enter("b", argc)>>) BY <1>0, <2>2, CodeConcat
  <2> QED BY <2>1, <2>2, <2>3, PerformsIt
<1>4. CASE InvokeMethod
  <2>1. PICK argc \in 0 .. 1 : \E method : Perform([a |-> {method}], <<Enter("a", argc)>>)
    BY <1>4 DEF InvokeMethod
  <2>2. todo = <<>> BY <1>4 DEF InvokeMethod, Runs
  <2> QED BY <1>0, <2>1, <2>2, PerformsIt
<1> QED BY <1>1, <1>2, <1>3, <1>4

LEMMA ArrayMethodPerforms ==
    ASSUME NEW argc, NEW array, ArrayMethod(argc, array)
    PROVE  Performs
<1>1. CASE Perform([a |-> array, b |-> Peek(0)], Native(1, <<Block, Put("a", "values", {"b"})>>))
  <2>1. IsCode(<<Block, Put("a", "values", {"b"})>>) BY CodeOf, CleanSteps, Names
  <2>2. IsCode(Native(1, <<Block, Put("a", "values", {"b"})>>)) BY <2>1, NativeIsCode
  <2> QED BY <1>1, <2>2, PerformsIt
<1>2. CASE \E v : Perform([a |-> array, r |-> v], Native(0, <<Put("a", "values", {})>>))
  <2>1. IsCode(<<Put("a", "values", {})>>) BY CodeOf, CleanSteps, Names
  <2>2. IsCode(Native(0, <<Put("a", "values", {})>>)) BY <2>1, NativeIsCode
  <2> QED BY <1>2, <2>2, PerformsIt
<1> QED BY <1>1, <1>2 DEF ArrayMethod

LEMMA NativesPerform ==
    ASSUME CallNative \/ CallBoundNative \/ InvokeArray
    PROVE  todo = <<>> /\ Performs
<1>1. CASE CallNative
  <2>1. todo = <<>> BY <1>1 DEF CallNative, Callee, Runs
  <2>2. CASE Perform([a |-> Peek(0)], Native(1, NewException("r", "a")))
    <3>1. IsCode(Native(1, NewException("r", "a"))) BY NewExceptionIsCode, NativeIsCode, Names
    <3> QED BY <2>1, <2>2, <3>1, PerformsIt
  <2>3. CASE \E line : Perform(<<>>, Native(1, <<Block, Intern("r", line)>>))
    <3>1. \A line : IsCode(<<Block, Intern("r", line)>>) BY CodeOf, CleanSteps, Names
    <3>2. \A line : IsCode(Native(1, <<Block, Intern("r", line)>>)) BY <3>1, NativeIsCode
    <3> QED BY <2>1, <2>3, <3>2, PerformsIt
  <2>4. CASE \E message : Perform(<<>>, Guarded(Error(message)))
    <3>1. \A message : IsCode(Guarded(Error(message))) BY ErrorIsCode, GuardedIsCode
    <3> QED BY <2>1, <2>4, <3>1, PerformsIt
  <2> QED BY <1>1, <2>2, <2>3, <2>4 DEF CallNative
<1>2. CASE CallBoundNative BY <1>2, ArrayMethodPerforms DEF CallBoundNative, Callee, Runs
<1>3. CASE InvokeArray BY <1>3, ArrayMethodPerforms DEF InvokeArray, Runs
<1> QED BY <1>1, <1>2, <1>3

LEMMA PropertiesPerform ==
    ASSUME GetField \/ BindMethod \/ BindNative \/ SetField
    PROVE  todo = <<>> /\ Performs
<1>0. Clean(Drop(1)) /\ Clean(Drop(2)) BY CleanSteps
<1>1. CASE GetField
  <2>1. (\E v : Perform([a |-> v], <<Drop(1), Push("a")>>)) \/ Perform(<<>>, <<Push("a")>>)
    BY <1>1 DEF GetField
  <2>2. IsCode(<<Drop(1), Push("a")>>) /\ IsCode(<<Push("a")>>) BY <1>0, CodeOf, CleanSteps
  <2>3. todo = <<>> BY <1>1 DEF GetField, Runs
  <2> QED BY <2>1, <2>2, <2>3, PerformsIt
<1>2. CASE BindMethod
  <2> DEFINE code == <<New("r", "bound_method", [receiver |-> {"a"}, method |-> {"b"}]), Push("r")>>
  <2>1. PICK method : Perform([a |-> Peek(0), b |-> {method}], code) BY <1>2 DEF BindMethod
  <2>2. IsCode(code)
    <3>1. Clean(New("r", "bound_method", [receiver |-> {"a"}, method |-> {"b"}]))
      BY CleanSteps, Names
    <3> QED BY <3>1, CodeOf, CleanSteps
  <2>3. todo = <<>> BY <1>2 DEF BindMethod, Runs
  <2> QED BY <2>1, <2>2, <2>3, PerformsIt
<1>3. CASE BindNative
  <2> DEFINE code == <<New("r", "bound_native", [receiver |-> {"a"}]), Drop(1), Push("r")>>
  <2>1. Perform([a |-> Peek(0)], code) BY <1>3 DEF BindNative
  <2>2. IsCode(code)
    <3>1. Clean(New("r", "bound_native", [receiver |-> {"a"}])) BY CleanSteps, Names
    <3> QED BY <1>0, <3>1, CodeOf, CleanSteps
  <2>3. todo = <<>> BY <1>3 DEF BindNative, Runs
  <2> QED BY <2>1, <2>2, <2>3, PerformsIt
<1>4. CASE SetField
  <2> DEFINE code(field) == SetEntry("a", field, {"n", "b"}) \o <<Drop(2), Push("b")>>
  <2>1. PICK name, field : Perform([a |-> Peek(1), b |-> Peek(0), n |-> {name}], code(field))
    BY <1>4 DEF SetField
  <2>2. IsCode(code(field))
    <3>1. IsCode(<<Drop(2), Push("b")>>) BY <1>0, CodeOf, CleanSteps
    <3> QED BY <3>1, SetEntryIsCode, Names, CodeConcat
  <2>3. todo = <<>> BY <1>4 DEF SetField, Runs
  <2> QED BY <2>1, <2>2, <2>3, PerformsIt
<1> QED BY <1>1, <1>2, <1>3, <1>4

LEMMA OperatorsPerform ==
    ASSUME MakeArray \/ SetElement \/ ConcatenateStrings \/ ConcatenateArrays \/ IndexString
    PROVE  todo = <<>> /\ Performs
<1>0. Clean(Drop(1)) /\ Clean(Drop(2)) BY CleanSteps
<1>1. CASE MakeArray
  <2> DEFINE code(n) == AllocateArray({"a"}) \o <<Drop(n), Push("r")>>
  <2>1. PICK n \in 0 .. 1 : Perform([a |-> IF n = 0 THEN {} ELSE Peek(0)], code(n))
    BY <1>1 DEF MakeArray
  <2>2. IsCode(code(n))
    <3>1. Clean(Drop(n)) BY CleanSteps
    <3>2. IsCode(<<Drop(n), Push("r")>>) BY <3>1, CodeOf, CleanSteps
    <3> QED BY <3>2, AllocateArrayIsCode, CodeConcat
  <2>3. todo = <<>> BY <1>1 DEF MakeArray, Runs
  <2> QED BY <2>1, <2>2, <2>3, PerformsIt
<1>2. CASE SetElement
  <2> DEFINE code == SetEntry("a", "values", {"b"}) \o <<Drop(1)>>
  <2>1. Perform([a |-> Peek(1), b |-> Peek(0)], code) BY <1>2 DEF SetElement
  <2>2. IsCode(code)
    <3>1. IsCode(<<Drop(1)>>) BY <1>0, CodeOf
    <3> QED BY <3>1, SetEntryIsCode, Names, CodeConcat
  <2>3. todo = <<>> BY <1>2 DEF SetElement, Runs
  <2> QED BY <2>1, <2>2, <2>3, PerformsIt
<1>3. CASE ConcatenateStrings
  <2> DEFINE code(text) == <<Block, Use({"a", "b"}), Intern("r", text), Drop(2), Push("r")>>
  <2>1. PICK text : Perform([a |-> Peek(1), b |-> Peek(0)], code(text))
    BY <1>3 DEF ConcatenateStrings
  <2>2. IsCode(code(text))
    <3>1. Clean(Intern("r", text)) BY CleanSteps, Names
    <3> QED BY <1>0, <3>1, CodeOf, CleanSteps
  <2>3. todo = <<>> BY <1>3 DEF ConcatenateStrings, Runs
  <2> QED BY <2>1, <2>2, <2>3, PerformsIt
<1>4. CASE ConcatenateArrays
  <2> DEFINE code == AllocateArray({"a"}) \o <<Drop(2), Push("r")>>
  <2>1. Perform([a |-> Get(Peek(0) \cup Peek(1), "values")], code) BY <1>4 DEF ConcatenateArrays
  <2>2. IsCode(code)
    <3>1. IsCode(<<Drop(2), Push("r")>>) BY <1>0, CodeOf, CleanSteps
    <3> QED BY <3>1, AllocateArrayIsCode, CodeConcat
  <2>3. todo = <<>> BY <1>4 DEF ConcatenateArrays, Runs
  <2> QED BY <2>1, <2>2, <2>3, PerformsIt
<1>5. CASE IndexString
  <2> DEFINE code(text) == <<Copy("r", text), Use({"a"}), Drop(2), Push("r")>>
  <2>1. PICK text : Perform([a |-> Peek(0)], code(text)) BY <1>5 DEF IndexString
  <2>2. IsCode(code(text))
    <3>1. Clean(Copy("r", text)) BY CleanSteps, Names
    <3> QED BY <1>0, <3>1, CodeOf, CleanSteps
  <2>3. todo = <<>> BY <1>5 DEF IndexString, Runs
  <2> QED BY <2>1, <2>2, <2>3, PerformsIt
<1> QED BY <1>1, <1>2, <1>3, <1>4, <1>5

LEMMA ConversionsPerform ==
    ASSUME Convert \/ Fail \/ Raise
    PROVE  todo = <<>> /\ Performs
<1>0. Clean(Drop(1)) BY CleanSteps
<1>1. CASE Convert
  <2> DEFINE elements == IF Is(Peek(0), "array") THEN ElementsToStr ELSE <<>>
             shown(text) == Guarded(elements \o ToStr(text) \o <<Drop(1), Push("r")>>)
             failed(text) == Guarded(Error(text) \o <<Drop(1), Push("a")>>)
             entered == Guarded(<<Enter("a", 0)>>)
  <2>1. todo = <<>> BY <1>1 DEF Convert, Runs
  <2>2. \/ \E text : Perform(<<>>, shown(text)) \/ Perform(<<>>, failed(text))
        \/ \E method : Perform([a |-> {method}], entered)
    BY <1>1 DEF Convert
  <2>3. \A text : IsCode(shown(text))
    <3>1. IsCode(elements) BY ElementsToStrIsCode, CodeOf
    <3>2. \A text : IsCode(elements \o ToStr(text)) BY <3>1, ToStrIsCode, CodeConcat
    <3>3. IsCode(<<Drop(1), Push("r")>>) BY <1>0, CodeOf, CleanSteps
    <3> HIDE DEF elements
    <3>4. \A text : IsCode(elements \o ToStr(text) \o <<Drop(1), Push("r")>>)
      BY <3>2, <3>3, CodeConcat
    <3> QED BY <3>4, GuardedIsCode
  <2>4. \A text : IsCode(failed(text))
    <3>1. IsCode(<<Drop(1), Push("a")>>) BY <1>0, CodeOf, CleanSteps
    <3>2. \A text : IsCode(Error(text) \o <<Drop(1), Push("a")>>)
      BY <3>1, ErrorIsCode, CodeConcat
    <3> QED BY <3>2, GuardedIsCode
  <2>5. IsCode(entered)
    <3>1. Clean(Enter("a", 0)) BY CleanSteps
    <3>2. IsCode(<<Enter("a", 0)>>) BY <3>1, CodeOf
    <3> QED BY <3>2, GuardedIsCode
  <2> HIDE DEF shown, failed, entered
  <2> QED BY <2>1, <2>2, <2>3, <2>4, <2>5, PerformsIt
<1>2. CASE Fail
  <2>1. PICK text : Perform(<<>>, Error(text)) BY <1>2 DEF Fail
  <2>2. todo = <<>> BY <1>2 DEF Fail, Runs
  <2> QED BY <2>1, <2>2, ErrorIsCode, PerformsIt
<1>3. CASE Raise
  <2>1. Perform([a |-> Peek(0)], <<Drop(1), Throw("a")>>) BY <1>3 DEF Raise
  <2>2. IsCode(<<Drop(1), Throw("a")>>) BY <1>0, CodeOf, CleanSteps
  <2>3. todo = <<>> BY <1>3 DEF Raise, Runs
  <2> QED BY <2>1, <2>2, <2>3, PerformsIt
<1> QED BY <1>1, <1>2, <1>3

\* An instruction starts when no C code runs. It leaves code to do, or it writes a
\* variable, ends a scope or a call, or takes the exception.
LEMMA InstructionCases ==
    ASSUME program \in Programs, Instruction
    PROVE  /\ todo = <<>>
           /\ Performs \/ SetVariable \/ Pop \/ Return \/ MarkHandled
<1>1. SetVariable \/ Pop \/ Return \/ MarkHandled => todo = <<>>
  BY DEF SetVariable, Pop, Return, MarkHandled, Runs
<1> QED BY <1>1, ModulesPerform, VariablesPerform, ClassesPerform, CallsPerform, NativesPerform,
           PropertiesPerform, OperatorsPerform, ConversionsPerform DEF Instruction
-----------------------------------------------------------------------------
(***************************************************************************)
(* Marking. While a collection runs the code it is in waits; the roots are *)
(* marked, what is marked and no longer grey refers to marked objects, and *)
(* nothing is marked but what every closed part of the heap with the roots *)
(* in it holds.                                                            *)
(***************************************************************************)
Kept == program \in Programs /\ DOMAIN heap \subseteq Obj

Marking ==
    /\ phase # "mark" => marked = {} /\ grey = {}
    /\ phase = "mark" =>
          /\ todo # <<>>
          /\ grey \subseteq marked /\ InHand \subseteq marked
          /\ \A o \in marked \ grey : Referred(o) \subseteq marked
          /\ \A C : C \subseteq DOMAIN heap /\ InHand \subseteq C /\ Near(C) \subseteq C
                       => marked \subseteq C

LEMMA ObjIs == IsFiniteSet(Obj) /\ Cardinality(Obj) = MaxObjects
<1>1. MaxObjects \in Nat BY CollectorConstants
<1>2. IsFiniteSet(1 .. MaxObjects) BY <1>1, FS_Interval
<1>3. Cardinality(1 .. MaxObjects) = MaxObjects BY <1>1, FS_Interval
<1> QED BY <1>2, <1>3 DEF Obj

\* allocate_object gets an address that is free.
LEMMA FreshIs ==
    ASSUME Kept, Cardinality(DOMAIN heap) < program.objects
    PROVE  Min(Obj \ DOMAIN heap) \in Obj \ DOMAIN heap
<1>1. program.objects \in 4 .. MaxObjects /\ MaxObjects \in Nat
  BY CollectorConstants DEF Kept
<1>2. Obj \ DOMAIN heap # {}
  <2>1. SUFFICES ASSUME DOMAIN heap = Obj PROVE FALSE BY DEF Kept
  <2> QED BY <1>1, <2>1, ObjIs
<1>3. Obj \ DOMAIN heap \subseteq Nat BY <1>1 DEF Obj
<1> QED BY <1>2, <1>3, MinIs

\* Every live object of the VM is a root, and every field is marked.
LEMMA RootsAreInHand == Roots = InHand
<1>1. DOMAIN Held = {"stack", "frames", "upvalues", "globals", "exception", "names"}
  BY DEF Held
<1>2. Range(Held) = {Held[part] : part \in DOMAIN Held} BY DEF Range
<1> QED BY <1>1, <1>2 DEF Roots, InHand

LEMMA BlackenedIsReferred == \A o : Blackened(o) = Referred(o)
  BY DEF Blackened, Referred, MarkedFields, Fields

LEMMA KeptInit == Init => Kept
<1> SUFFICES ASSUME Init PROVE Kept
  OBVIOUS
<1>1. DOMAIN heap = {1, 2, 3, 4} BY DEF Init
<1>2. 4 <= MaxObjects /\ MaxObjects \in Nat BY CollectorConstants
<1> QED BY <1>1, <1>2 DEF Init, Kept, Obj

\* C code goes on between collections, and marks nothing.
LEMMA CodeStepIs ==
    ASSUME CodeStep
    PROVE  phase # "mark" /\ phase' = "idle" /\ UNCHANGED <<program, marked, grey>>
<1>1. DoBlock \/ DoUse \/ DoNew \/ DoRemember \/ DoPush \/ DoDrop \/ DoReplace
        => phase # "mark" /\ phase' = "idle" /\ UNCHANGED <<program, marked, grey>>
  BY DEF DoBlock, DoUse, DoNew, DoRemember, DoPush, DoDrop, DoReplace, Doing, Proceed, GoOn
<1>2. DoIntern => phase # "mark" /\ phase' = "idle" /\ UNCHANGED <<program, marked, grey>>
  BY DEF DoIntern, Doing, GoOn
<1>3. DoPut \/ DoAllow \/ DoFetch \/ DoDefine \/ DoEnter \/ DoLink
        => phase # "mark" /\ phase' = "idle" /\ UNCHANGED <<program, marked, grey>>
  BY DEF DoPut, DoAllow, DoFetch, DoDefine, DoEnter, DoLink, Doing, Proceed, GoOn
<1>4. DoThrow => phase # "mark" /\ phase' = "idle" /\ UNCHANGED <<program, marked, grey>>
  BY DEF DoThrow, Doing, GoOn
<1> QED BY <1>1, <1>2, <1>3, <1>4 DEF CodeStep

LEMMA InstructionIs ==
    ASSUME program \in Programs, Instruction
    PROVE  /\ todo = <<>>
           /\ UNCHANGED <<program, strings, phase, marked, grey>>
           /\ DOMAIN heap' = DOMAIN heap
<1>1. Performs => /\ UNCHANGED <<program, strings, phase, marked, grey>>
                  /\ DOMAIN heap' = DOMAIN heap
  BY DEF Performs, Perform, heap_vars, gc_vars
<1>2. SetVariable => /\ UNCHANGED <<program, strings, phase, marked, grey>>
                     /\ DOMAIN heap' = DOMAIN heap
  BY DEF SetVariable, gc_vars
<1>3. Pop => /\ UNCHANGED <<program, strings, phase, marked, grey>>
             /\ DOMAIN heap' = DOMAIN heap
  BY DEF Pop, Closed, gc_vars
<1>4. Return => /\ UNCHANGED <<program, strings, phase, marked, grey>>
                /\ DOMAIN heap' = DOMAIN heap
  BY DEF Return, Closed, gc_vars
<1>5. MarkHandled => /\ UNCHANGED <<program, strings, phase, marked, grey>>
                     /\ DOMAIN heap' = DOMAIN heap
  BY DEF MarkHandled, heap_vars, gc_vars
<1> QED BY <1>1, <1>2, <1>3, <1>4, <1>5, InstructionCases

\* Only allocate_object adds an address to the heap.
LEMMA CodeStepKeeps ==
    ASSUME CodeStep
    PROVE  DOMAIN heap' = DOMAIN heap \/ DoNew
<1>1. DoBlock \/ DoUse \/ DoRemember \/ DoPush \/ DoDrop \/ DoReplace => heap' = heap
  BY DEF DoBlock, DoUse, DoRemember, DoPush, DoDrop, DoReplace, heap_vars
<1>2. DoIntern \/ DoAllow \/ DoFetch \/ DoDefine \/ DoEnter \/ DoLink => heap' = heap
  BY DEF DoIntern, DoAllow, DoFetch, DoDefine, DoEnter, DoLink, heap_vars
<1>3. DoPut \/ DoThrow => DOMAIN heap' = DOMAIN heap
  BY DEF DoPut, DoThrow
<1> QED BY <1>1, <1>2, <1>3 DEF CodeStep

LEMMA KeptStep ==
    ASSUME Kept, [Next]_vars
    PROVE  Kept'
<1>1. CASE BeginCollection \/ Blacken
  BY <1>1 DEF Kept, BeginCollection, Blacken, heap_vars
<1>2. CASE Sweep
  <2>1. DOMAIN heap' = marked \cap DOMAIN heap BY <1>2 DEF Sweep, Restrict
  <2> QED BY <1>2, <2>1 DEF Kept, Sweep
<1>3. CASE DoNew
  <2>1. program' = program BY <1>3, CodeStepIs DEF CodeStep
  <2>2. Min(Obj \ DOMAIN heap) \in Obj BY <1>3, FreshIs DEF DoNew
  <2>3. DOMAIN heap' = DOMAIN heap \cup {Min(Obj \ DOMAIN heap)} BY <1>3 DEF DoNew
  <2> QED BY <2>1, <2>2, <2>3 DEF Kept
<1>4. CASE CodeStep /\ ~ DoNew
  <2>1. program' = program BY <1>4, CodeStepIs
  <2>2. DOMAIN heap' = DOMAIN heap BY <1>4, CodeStepKeeps
  <2> QED BY <2>1, <2>2 DEF Kept
<1>5. CASE Instruction
  BY <1>5, InstructionIs DEF Kept
<1>6. CASE UNCHANGED vars
  BY <1>6 DEF vars, Kept, heap_vars
<1> QED BY <1>1, <1>2, <1>3, <1>4, <1>5, <1>6 DEF Next, Collection

LEMMA MarkingStep ==
    ASSUME Kept, Marking, [Next]_vars
    PROVE  Marking'
<1>1. CASE BeginCollection
  <2>1. phase # "mark" /\ marked = {} /\ grey = {} /\ todo # <<>>
    BY <1>1 DEF BeginCollection, MayCollect, Marking
  <2>2. marked' = InHand /\ grey' = InHand
    BY <1>1, <2>1, RootsAreInHand DEF BeginCollection, Mark
  <2>3. todo' = todo /\ InHand' = InHand /\ phase' = "mark"
    BY <1>1 DEF BeginCollection, InHand, Held, program_vars, code_vars
  <2> QED BY <2>1, <2>2, <2>3 DEF Marking
<1>2. CASE Blacken
  <2> DEFINE m == Max(grey)
  <2>1. phase = "mark" /\ phase' = "mark" /\ grey # {} BY <1>2 DEF Blacken
  <2>2. marked' = marked \cup Referred(m) /\ grey' = (grey \ {m}) \cup (Referred(m) \ marked)
    BY <1>2, BlackenedIsReferred DEF Blacken, Mark
  <2>3. todo' = todo /\ InHand' = InHand /\ heap' = heap
    BY <1>2 DEF Blacken, InHand, Held, program_vars, code_vars, heap_vars
  <2>4. \A o : Referred(o)' = Referred(o) BY <2>3 DEF Referred
  <2>5. \A C : Near(C)' = Near(C) BY <2>3 DEF Near, Referred
  <2>6. ASSUME NEW C, C \subseteq DOMAIN heap, InHand \subseteq C, Near(C) \subseteq C
        PROVE  marked' \subseteq C
    <3>1. marked \subseteq C BY <2>1, <2>6 DEF Marking
    <3>2. grey \subseteq 0 .. MaxObjects
      <4>1. grey \subseteq Obj BY <2>1, <2>6, <3>1 DEF Marking, Kept
      <4>2. MaxObjects \in Nat BY CollectorConstants
      <4> QED BY <4>1, <4>2 DEF Obj
    <3>3. m \in grey
      <4>1. MaxObjects \in Nat BY CollectorConstants
      <4> QED BY <2>1, <3>2, <4>1, MaxIs
    <3> HIDE DEF m
    <3>4. m \in C \cap DOMAIN heap BY <2>1, <2>6, <3>1, <3>3 DEF Marking
    <3>5. Referred(m) \subseteq Near(C) BY <3>4 DEF Near
    <3> QED BY <2>2, <2>6, <3>1, <3>5
  <2> HIDE DEF m
  <2>7. \A o \in marked' \ grey' : Referred(o) \subseteq marked'
    BY <2>1, <2>2 DEF Marking
  <2>8. grey' \subseteq marked' /\ InHand' \subseteq marked' /\ todo' # <<>>
    BY <2>1, <2>2, <2>3 DEF Marking
  <2>9. Marking'
    BY <2>1, <2>3, <2>4, <2>5, <2>6, <2>7, <2>8 DEF Marking
  <2> QED BY <2>9
<1>3. CASE Sweep
  BY <1>3 DEF Sweep, Marking
<1>4. CASE CodeStep
  BY <1>4, CodeStepIs DEF Marking
<1>5. CASE Instruction
  BY <1>5, InstructionIs DEF Marking, Kept
<1>6. CASE UNCHANGED vars
  <2>1. phase' = phase /\ marked' = marked /\ grey' = grey /\ todo' = todo /\ heap' = heap
    BY <1>6 DEF vars, gc_vars, code_vars, heap_vars
  <2>2. InHand' = InHand BY <1>6 DEF vars, program_vars, InHand, Held
  <2>3. \A o : Referred(o)' = Referred(o) BY <2>1 DEF Referred
  <2>4. \A C : Near(C)' = Near(C) BY <2>1 DEF Near, Referred
  <2> QED BY <2>1, <2>2, <2>3, <2>4 DEF Marking
<1> QED BY <1>1, <1>2, <1>3, <1>4, <1>5, <1>6 DEF Next, Collection

\* A sweep that finds what is in use whole leaves what the roots reach: the marked
\* objects are a closed part of the heap with the roots in it, and the least one.
LEMMA SweepIsExact ==
    ASSUME Kept, Marking, InUseIsKept, Sweep
    PROVE  DOMAIN heap' = Reach(InHand)
<1> DEFINE R == Reach(InHand)
<1>0. IsFiniteSet(DOMAIN heap) BY ObjIs, FS_Subset DEF Kept
<1>1. /\ InHand \subseteq R /\ Near(R) \subseteq R
      /\ \A C : InHand \subseteq C /\ Near(C) \subseteq C => R \subseteq C
  BY <1>0, ReachIs
<1>2. R \subseteq DOMAIN heap
  <2> DEFINE from == InHand \cup Values(LiveLocals)
  <2>1. from \subseteq Reach(from) /\ Near(Reach(from)) \subseteq Reach(from)
    BY <1>0, ReachIs
  <2>2. InUse = Reach(from) BY DEF InUse
  <2>3. InHand \subseteq from OBVIOUS
  <2> HIDE DEF from, R
  <2>4. R \subseteq Reach(from) BY <1>1, <2>1, <2>3
  <2> QED BY <2>2, <2>4 DEF InUseIsKept
<1> HIDE DEF R
<1>3. phase = "mark" /\ grey = {} /\ DOMAIN heap' = marked \cap DOMAIN heap
  BY DEF Sweep, Restrict
<1>4. marked \subseteq R BY <1>1, <1>2, <1>3 DEF Marking
<1>5. R \subseteq marked
  <2>1. InHand \subseteq marked BY <1>3 DEF Marking
  <2>2. Near(marked) \subseteq marked BY <1>3 DEF Marking, Near
  <2> QED BY <1>1, <2>1, <2>2
<1>6. marked = R BY <1>4, <1>5
<1>7. DOMAIN heap' = R BY <1>2, <1>3, <1>6
<1> QED BY <1>7 DEF R

\* What the code and the program can reach is on the heap whenever C code allocates,
\* so a collection frees what the roots of the VM do not reach, cycles included, and
\* nothing that they reach.
THEOREM MarkingIsExact == Spec /\ []InUseIsKept => CollectionIsExact
<1>1. Init => Kept /\ Marking
  <2>1. Init => Marking BY DEF Init, Marking
  <2> QED BY <2>1, KeptInit
<1>2. Kept /\ Marking /\ [Next]_vars => (Kept /\ Marking)'
  BY KeptStep, MarkingStep
<1>3. Kept /\ Marking /\ InUseIsKept /\ [Next]_vars
        => [phase = "mark" /\ phase' = "done" => DOMAIN heap' = Reach(InHand)]_vars
  <2> SUFFICES ASSUME Kept, Marking, InUseIsKept, [Next]_vars, phase = "mark", phase' = "done"
               PROVE  DOMAIN heap' = Reach(InHand)
    OBVIOUS
  <2>1. CASE BeginCollection \/ Blacken BY <2>1 DEF BeginCollection, Blacken
  <2>2. CASE Sweep BY <2>2, SweepIsExact
  <2>3. CASE CodeStep BY <2>3, CodeStepIs
  <2>4. CASE Instruction BY <2>4, InstructionIs DEF Kept
  <2>5. CASE UNCHANGED vars BY <2>5 DEF vars, gc_vars
  <2> QED BY <2>1, <2>2, <2>3, <2>4, <2>5 DEF Next, Collection
<1> QED BY <1>1, <1>2, <1>3, PTL DEF Spec, CollectionIsExact
-----------------------------------------------------------------------------
(***************************************************************************)
(* Interned strings. Between instructions, and while clean code runs,      *)
(* vm->strings holds the string objects there are. While a string is made  *)
(* it is first promised, when no string has its text, and then fresh: held *)
(* by a C variable, and by the stack while vm->strings may grow.           *)
(***************************************************************************)
All == {o \in DOMAIN heap : heap[o].type = "string"}

Distinct == \A s, t \in All : heap[s].text = heap[t].text => s = t

Shapes == \A o \in DOMAIN heap : DOMAIN heap[o] = {"type", "text", "refs"}

IsSeq(s) == \E S : s \in Seq(S)

Typed ==
    /\ Shapes
    /\ DOMAIN local = Registers
    /\ IsSeq(stack) /\ IsSeq(frames)
    /\ \A i \in DOMAIN frames : frames[i].base \in Int

Dropping(rest)        == <<Drop(1)>> \o rest
Remembering(to, rest) == <<Remember(to)>> \o Dropping(rest)
Growing(to, rest)     == <<Block>> \o Remembering(to, rest)
Pushing(to, rest)     == <<Push(to)>> \o Growing(to, rest)
Making(to, text, rest) == <<NewOf(to, "string", {text}, <<>>)>> \o Pushing(to, rest)

Settled == IsCode(todo) /\ strings = All

Promised(to, text, rest) ==
    /\ to \in Registers /\ IsCode(rest)
    /\ todo = Making(to, text, rest) \/ todo = <<Block>> \o Making(to, text, rest)
    /\ strings = All /\ \A s \in All : heap[s].text # {text}

Fresh(to, o, rest) ==
    /\ to \in Registers /\ IsCode(rest)
    /\ local[to] = {o} /\ o \in All /\ strings = All \ {o}
    /\ \/ todo = Pushing(to, rest)
       \/ todo = Growing(to, rest) /\ o \in UNION ToSet(stack)
       \/ todo = Remembering(to, rest)

Strung ==
    \/ Settled
    \/ \E to, text, rest : Promised(to, text, rest)
    \/ \E to, o, rest : Fresh(to, o, rest)

AtAllocation == phase = "mark" => Head(todo).op \in Allocates

LEMMA ConsIs ==
    ASSUME NEW e, NEW s, IsSeq(s)
    PROVE  /\ <<e>> \o s # <<>> /\ Head(<<e>> \o s) = e /\ Tail(<<e>> \o s) = s
           /\ IsSeq(<<e>> \o s)
<1>1. PICK S : s \in Seq(S) BY DEF IsSeq
<1> DEFINE T == S \cup {e}
           t == <<e>> \o s
<1>2. s \in Seq(T) BY <1>1, SeqMonotonic
<1>3. <<e>> \in Seq(T) OBVIOUS
<1> HIDE DEF T
<1>4. /\ t \in Seq(T) /\ Len(t) = 1 + Len(s) /\ Len(s) \in Nat
      /\ t[1] = e /\ \A i \in 1 .. Len(s) : t[i + 1] = s[i]
  BY <1>2, <1>3, ConcatProperties
<1> HIDE DEF t
<1>5. t # <<>> BY <1>4
<1>6. Head(t) = e BY <1>4, <1>5
<1>7. Tail(t) = s
  <2>1. /\ Tail(t) \in Seq(T) /\ Len(Tail(t)) = Len(t) - 1
        /\ \A i \in 1 .. Len(Tail(t)) : Tail(t)[i] = t[i + 1]
    BY <1>4, <1>5, HeadTailProperties
  <2>2. Len(Tail(t)) = Len(s) BY <1>4, <2>1
  <2>3. \A i \in 1 .. Len(s) : Tail(t)[i] = s[i] BY <1>4, <2>1, <2>2
  <2> QED BY <1>2, <2>1, <2>2, <2>3, SeqEqual
<1>8. IsSeq(t) BY <1>4 DEF IsSeq
<1> QED BY <1>5, <1>6, <1>7, <1>8 DEF t

LEMMA CodeIsSeq == ASSUME NEW s, IsCode(s) PROVE IsSeq(s)
  BY DEF IsCode, IsSeq

LEMMA StagesAre ==
    ASSUME NEW to, NEW text, NEW rest, IsCode(rest)
    PROVE  /\ IsCode(Dropping(rest))
           /\ IsSeq(Remembering(to, rest)) /\ IsSeq(Growing(to, rest))
           /\ IsSeq(Pushing(to, rest)) /\ IsSeq(Making(to, text, rest))
<1>1. IsCode(Dropping(rest))
  <2>1. Clean(Drop(1)) BY CleanSteps
  <2>2. IsCode(<<Drop(1)>>) BY <2>1, CodeOf
  <2> QED BY <2>2, CodeConcat DEF Dropping
<1>2. IsSeq(Remembering(to, rest)) BY <1>1, CodeIsSeq, ConsIs DEF Remembering
<1>3. IsSeq(Growing(to, rest)) BY <1>2, ConsIs DEF Growing
<1>4. IsSeq(Pushing(to, rest)) BY <1>3, ConsIs DEF Pushing
<1>5. IsSeq(Making(to, text, rest)) BY <1>4, ConsIs DEF Making
<1> QED BY <1>1, <1>2, <1>3, <1>4, <1>5

LEMMA AllocateStringIs ==
    ASSUME NEW to, NEW text, NEW rest, IsCode(rest)
    PROVE  AllocateString(to, text) \o rest = Making(to, text, rest)
<1>1. PICK S : rest \in Seq(S) BY DEF IsCode
<1> DEFINE a == NewOf(to, "string", {text}, <<>>)
           T == S \cup {a, Push(to), Block, Remember(to), Drop(1)}
<1>2. rest \in Seq(T) BY <1>1, SeqMonotonic
<1>3. /\ <<a>> \in Seq(T) /\ <<Push(to)>> \in Seq(T) /\ <<Block>> \in Seq(T)
      /\ <<Remember(to)>> \in Seq(T) /\ <<Drop(1)>> \in Seq(T)
  OBVIOUS
<1>4. AllocateString(to, text) =
          <<a>> \o (<<Push(to)>> \o (<<Block>> \o (<<Remember(to)>> \o <<Drop(1)>>)))
  BY DEF AllocateString
<1> HIDE DEF T, a
<1>5. /\ <<Remember(to)>> \o <<Drop(1)>> \in Seq(T)
      /\ <<Block>> \o (<<Remember(to)>> \o <<Drop(1)>>) \in Seq(T)
      /\ <<Push(to)>> \o (<<Block>> \o (<<Remember(to)>> \o <<Drop(1)>>)) \in Seq(T)
  BY <1>3, ConcatProperties
<1> QED BY <1>2, <1>3, <1>4, <1>5, ConcatAssociative
        DEF Making, Pushing, Growing, Remembering, Dropping, a

\* A step that writes the fields of objects keeps their types and their texts.
HeapKept ==
    /\ DOMAIN heap' = DOMAIN heap
    /\ \A o \in DOMAIN heap :
          /\ heap'[o].type = heap[o].type /\ heap'[o].text = heap[o].text
          /\ DOMAIN heap'[o] = DOMAIN heap[o]

LEMMA SameHeap == heap' = heap => HeapKept
  BY DEF HeapKept

LEMMA PutKeeps ==
    ASSUME Shapes, NEW obj, NEW field, NEW v, heap' = [heap EXCEPT ![obj].refs[field] = v]
    PROVE  HeapKept
<1>1. DOMAIN heap' = DOMAIN heap OBVIOUS
<1>2. ASSUME NEW o \in DOMAIN heap
      PROVE  /\ heap'[o].type = heap[o].type /\ heap'[o].text = heap[o].text
             /\ DOMAIN heap'[o] = DOMAIN heap[o]
  <2>1. DOMAIN heap[o] = {"type", "text", "refs"} BY DEF Shapes
  <2>2. heap'[o] = heap[o] \/ \E refs : heap'[o] = [heap[o] EXCEPT !.refs = refs]
    OBVIOUS
  <2> QED BY <2>1, <2>2
<1> QED BY <1>1, <1>2 DEF HeapKept

LEMMA ClosedKeeps ==
    ASSUME Shapes, NEW slot, heap' = Closed(slot)
    PROVE  HeapKept
<1>1. DOMAIN heap' = DOMAIN heap BY DEF Closed
<1>2. ASSUME NEW o \in DOMAIN heap
      PROVE  /\ heap'[o].type = heap[o].type /\ heap'[o].text = heap[o].text
             /\ DOMAIN heap'[o] = DOMAIN heap[o]
  <2>1. DOMAIN heap[o] = {"type", "text", "refs"} BY DEF Shapes
  <2>2. heap'[o] = heap[o]
        \/ \E up : heap'[o] = [heap[o] EXCEPT !.refs = [heap[o].refs EXCEPT !.closed = up]]
    BY DEF Closed
  <2> QED BY <2>1, <2>2
<1> QED BY <1>1, <1>2 DEF HeapKept

LEMMA CodeHeapKept ==
    ASSUME Shapes, CodeStep, ~ DoNew
    PROVE  HeapKept
<1>1. DoBlock \/ DoUse \/ DoRemember \/ DoPush \/ DoDrop \/ DoReplace => heap' = heap
  BY DEF DoBlock, DoUse, DoRemember, DoPush, DoDrop, DoReplace, heap_vars
<1>2. DoIntern \/ DoAllow \/ DoFetch \/ DoDefine \/ DoEnter \/ DoLink => heap' = heap
  BY DEF DoIntern, DoAllow, DoFetch, DoDefine, DoEnter, DoLink, heap_vars
<1>3. CASE DoPut
  <2>1. PICK obj, v : heap' = [heap EXCEPT ![obj].refs[Step.arg.field] = v]
    BY <1>3 DEF DoPut
  <2> QED BY <2>1, PutKeeps
<1>4. CASE DoThrow
  <2>1. PICK obj : heap' = IF {obj} = exception THEN heap
                           ELSE [heap EXCEPT ![obj].refs["next"] = exception]
    BY <1>4 DEF DoThrow
  <2> QED BY <2>1, PutKeeps, SameHeap
<1> QED BY <1>1, <1>2, <1>3, <1>4, SameHeap DEF CodeStep

LEMMA InstructionHeapKept ==
    ASSUME Shapes, program \in Programs, Instruction
    PROVE  HeapKept
<1>1. Performs \/ MarkHandled => heap' = heap
  BY DEF Performs, Perform, MarkHandled, heap_vars
<1>2. CASE SetVariable
  <2>1. heap' = heap \/ \E u : heap' = [heap EXCEPT ![u].refs["closed"] = Peek(0)]
    BY <1>2 DEF SetVariable
  <2> QED BY <2>1, PutKeeps, SameHeap
<1>3. CASE Pop BY <1>3, ClosedKeeps DEF Pop
<1>4. CASE Return
  <2>1. heap' = Closed(Active.base) BY <1>4 DEF Return
  <2> QED BY <2>1, ClosedKeeps
<1> QED BY <1>1, <1>2, <1>3, <1>4, SameHeap, InstructionCases

\* The steps of the code that runs assign C variables, and give counts as numbers.
LEMMA HeadIs ==
    ASSUME Strung, todo # <<>>
    PROVE  /\ Head(todo).to \in Registers
           /\ Head(todo).op \in {"drop", "enter"} => Head(todo).arg \in Nat
<1>1. CASE Settled BY <1>1, CodeHead DEF Settled, Clean
<1>2. CASE \E to, text, rest : Promised(to, text, rest)
  <2>1. PICK to, text, rest : Promised(to, text, rest) BY <1>2
  <2>2. IsSeq(Pushing(to, rest)) /\ IsSeq(Making(to, text, rest))
    BY <2>1, StagesAre DEF Promised
  <2>3. Head(todo) = Block \/ Head(todo) = NewOf(to, "string", {text}, <<>>)
    BY <2>1, <2>2, ConsIs DEF Promised, Making
  <2>4. to \in Registers BY <2>1 DEF Promised
  <2> QED BY <2>3, <2>4, Names DEF Block, NewOf, Do
<1>3. CASE \E to, o, rest : Fresh(to, o, rest)
  <2>1. PICK to, o, rest : Fresh(to, o, rest) BY <1>3
  <2>2. /\ IsSeq(Growing(to, rest)) /\ IsSeq(Remembering(to, rest)) /\ IsSeq(Dropping(rest))
    BY <2>1, StagesAre, CodeIsSeq DEF Fresh
  <2>3. Head(todo) = Push(to) \/ Head(todo) = Block \/ Head(todo) = Remember(to)
    BY <2>1, <2>2, ConsIs DEF Fresh, Pushing, Growing, Remembering
  <2> QED BY <2>3, Names DEF Push, Block, Remember, Do
<1> QED BY <1>1, <1>2, <1>3 DEF Strung

LEMMA SeqAppend ==
    ASSUME NEW s, NEW e, IsSeq(s)
    PROVE  /\ IsSeq(Append(s, e)) /\ e \in ToSet(Append(s, e))
           /\ Append(s, e) # <<>>
           /\ \A i \in DOMAIN Append(s, e) :
                 Append(s, e)[i] = e \/ (i \in DOMAIN s /\ Append(s, e)[i] = s[i])
<1>1. PICK S : s \in Seq(S) BY DEF IsSeq
<1> DEFINE T == S \cup {e}
           t == Append(s, e)
<1>2. s \in Seq(T) /\ e \in T BY <1>1, SeqMonotonic
<1> HIDE DEF T
<1>3. /\ t \in Seq(T) /\ Len(t) = Len(s) + 1 /\ Len(s) \in Nat
      /\ t[Len(s) + 1] = e /\ \A i \in 1 .. Len(s) : t[i] = s[i]
  BY <1>2, AppendProperties
<1> HIDE DEF t
<1>4. DOMAIN t = 1 .. Len(s) + 1 /\ DOMAIN s = 1 .. Len(s) BY <1>2, <1>3
<1>5. e \in ToSet(t)
  <2>1. Len(s) + 1 \in DOMAIN t BY <1>3, <1>4
  <2> QED BY <1>3, <2>1 DEF ToSet
<1>6. ASSUME NEW i \in DOMAIN t PROVE t[i] = e \/ (i \in DOMAIN s /\ t[i] = s[i])
  BY <1>3, <1>4
<1>7. t # <<>> BY <1>3
<1>8. IsSeq(t) BY <1>3 DEF IsSeq
<1> QED BY <1>5, <1>6, <1>7, <1>8 DEF t

LEMMA SeqPrefix ==
    ASSUME NEW s, NEW n \in Int, IsSeq(s), n <= Len(s)
    PROVE  /\ IsSeq(SubSeq(s, 1, n))
           /\ \A i \in DOMAIN SubSeq(s, 1, n) : i \in DOMAIN s /\ SubSeq(s, 1, n)[i] = s[i]
<1>1. PICK S : s \in Seq(S) BY DEF IsSeq
<1>2. \A i \in 1 .. n : s[i] \in S /\ i \in DOMAIN s BY <1>1
<1> DEFINE t == SubSeq(s, 1, n)
<1>3. /\ t \in Seq(S) /\ Len(t) = IF 1 <= n THEN n - 1 + 1 ELSE 0
      /\ \A i \in 1 .. n - 1 + 1 : t[i] = s[1 + i - 1]
  BY <1>2, SubSeqProperties
<1> HIDE DEF t
<1>4. ASSUME NEW i \in DOMAIN t PROVE i \in DOMAIN s /\ t[i] = s[i]
  <2>1. i \in 1 .. n /\ 1 + i - 1 = i BY <1>3
  <2> QED BY <1>2, <1>3, <2>1
<1>5. IsSeq(t) BY <1>3 DEF IsSeq
<1> QED BY <1>4, <1>5 DEF t

LEMMA SeqFront ==
    ASSUME NEW s, IsSeq(s)
    PROVE  /\ IsSeq(Front(s))
           /\ \A i \in DOMAIN Front(s) : i \in DOMAIN s /\ Front(s)[i] = s[i]
<1>1. Len(s) \in Nat BY DEF IsSeq
<1>2. Front(s) = SubSeq(s, 1, Len(s) - 1) BY DEF Front
<1> QED BY <1>1, <1>2, SeqPrefix

LEMMA SeqChanged ==
    ASSUME NEW s, NEW i, NEW v, IsSeq(s)
    PROVE  IsSeq([s EXCEPT ![i] = v])
<1>1. PICK S : s \in Seq(S) BY DEF IsSeq
<1> DEFINE T == S \cup {v}
           t == [s EXCEPT ![i] = v]
<1>2. s \in [1 .. Len(s) -> T] /\ Len(s) \in Nat /\ v \in T BY <1>1
<1> HIDE DEF T
<1>3. t \in [1 .. Len(s) -> T] BY <1>2
<1> HIDE DEF t
<1>4. t \in Seq(T) BY <1>2, <1>3, SeqDef
<1>5. IsSeq(t) BY <1>4 DEF IsSeq
<1> QED BY <1>5 DEF t

LEMMA LocalsKept ==
    ASSUME DOMAIN local = Registers, CodeStep
    PROVE  DOMAIN local' = Registers
<1>1. \A v : \A r : DOMAIN [local EXCEPT ![r] = v] = Registers OBVIOUS
<1>2. DOMAIN NoLocals = Registers BY DEF NoLocals
<1>3. \A steps : \A v : GoOn(steps, v) /\ DOMAIN v = Registers => DOMAIN local' = Registers
  BY <1>2 DEF GoOn
<1>4. Proceed => DOMAIN local' = Registers BY <1>3 DEF Proceed
<1>5. DoBlock \/ DoUse \/ DoRemember \/ DoPush \/ DoDrop \/ DoReplace \/ DoPut \/ DoAllow
      \/ DoDefine \/ DoEnter \/ DoLink => Proceed
  BY DEF DoBlock, DoUse, DoRemember, DoPush, DoDrop, DoReplace, DoPut, DoAllow,
         DoDefine, DoEnter, DoLink
<1>6. CASE DoNew
  <2>1. GoOn(Tail(todo), [local EXCEPT ![Step.to] = {Min(Obj \ DOMAIN heap)}])
    BY <1>6 DEF DoNew
  <2> QED BY <1>1, <1>3, <2>1
<1>7. CASE DoFetch
  <2>1. GoOn(Tail(todo), [local EXCEPT ![Step.to] = stack[Step.arg + 1]])
    BY <1>7 DEF DoFetch
  <2> QED BY <1>1, <1>3, <2>1
<1>8. CASE DoIntern
  <2>1. \/ GoOn(Tail(todo), [local EXCEPT ![Step.to] = Interned(Step.arg)])
        \/ \E steps : GoOn(steps, local)
    BY <1>8 DEF DoIntern
  <2> QED BY <1>1, <1>3, <2>1
<1>9. CASE DoThrow
  <2>1. \/ \E steps : GoOn(steps, [local EXCEPT !["r"] = exception'])
        \/ \E steps : GoOn(steps, local)
    BY <1>9 DEF DoThrow
  <2> QED BY <1>1, <1>3, <2>1
<1> QED BY <1>4, <1>5, <1>6, <1>7, <1>8, <1>9 DEF CodeStep

IntBases(fs) == \A i \in DOMAIN fs : fs[i].base \in Int

LEMMA StackKept ==
    ASSUME Typed, Strung, CodeStep
    PROVE  IsSeq(stack') /\ IsSeq(frames') /\ IntBases(frames')
<1>0. IsSeq(stack) /\ IsSeq(frames) /\ IntBases(frames) /\ Len(stack) \in Nat
  BY DEF Typed, IntBases, IsSeq
<1>1. DoBlock \/ DoUse \/ DoNew \/ DoIntern \/ DoRemember \/ DoPut \/ DoAllow \/ DoFetch
        => stack' = stack /\ frames' = frames
  BY DEF DoBlock, DoUse, DoNew, DoIntern, DoRemember, DoPut, DoAllow, DoFetch, program_vars
<1>2. DoDefine \/ DoLink => stack' = stack /\ frames' = frames
  BY DEF DoDefine, DoLink
<1>3. CASE DoPush BY <1>0, <1>3, SeqAppend DEF DoPush
<1>4. CASE DoDrop
  <2>1. Step.arg \in Nat BY <1>4, HeadIs DEF DoDrop, Doing, Step
  <2>2. stack' = SubSeq(stack, 1, Len(stack) - Step.arg) /\ frames' = frames
    BY <1>4 DEF DoDrop
  <2>3. Len(stack) - Step.arg \in Int /\ Len(stack) - Step.arg <= Len(stack) BY <1>0, <2>1
  <2> QED BY <1>0, <2>2, <2>3, SeqPrefix
<1>5. CASE DoReplace BY <1>0, <1>5, SeqChanged DEF DoReplace
<1>6. CASE DoEnter
  <2> DEFINE e == [closure |-> Values(Step.from), base |-> Len(stack) - Step.arg - 1]
  <2>1. Step.arg \in Nat BY <1>6, HeadIs DEF DoEnter, Doing, Step
  <2>2. stack' = stack /\ frames' = Append(frames, e) BY <1>6 DEF DoEnter
  <2>3. e.base \in Int BY <1>0, <2>1
  <2> HIDE DEF e
  <2>4. IntBases(Append(frames, e))
    <3> SUFFICES ASSUME NEW i \in DOMAIN Append(frames, e)
                 PROVE  Append(frames, e)[i].base \in Int
      BY DEF IntBases
    <3>1. Append(frames, e)[i] = e \/ (i \in DOMAIN frames /\ Append(frames, e)[i] = frames[i])
      BY <1>0, SeqAppend
    <3> QED BY <1>0, <2>3, <3>1 DEF IntBases
  <2>5. IsSeq(Append(frames, e)) BY <1>0, SeqAppend
  <2> QED BY <1>0, <2>2, <2>4, <2>5
<1>7. CASE DoThrow
  <2>1. CASE frames' = <<>> /\ stack' = <<>>
    <3>1. IsSeq(<<>>) /\ IntBases(<<>>) BY CodeOf, CodeIsSeq DEF IntBases
    <3> QED BY <2>1, <3>1
  <2>2. CASE \E k \in DOMAIN frames : \E height \in frames[k].base + 1 .. Len(stack) :
                frames' = SubSeq(frames, 1, k) /\ stack' = SubSeq(stack, 1, height)
    <3>1. PICK k \in DOMAIN frames : \E height \in frames[k].base + 1 .. Len(stack) :
                 frames' = SubSeq(frames, 1, k) /\ stack' = SubSeq(stack, 1, height)
      BY <2>2
    <3>2. PICK height \in frames[k].base + 1 .. Len(stack) :
                 frames' = SubSeq(frames, 1, k) /\ stack' = SubSeq(stack, 1, height)
      BY <3>1
    <3>3. height \in Int /\ height <= Len(stack) BY <1>0, <3>2 DEF IntBases
    <3>4. IsSeq(stack') BY <1>0, <3>2, <3>3, SeqPrefix
    <3>5. k \in Int /\ k <= Len(frames) BY <1>0 DEF IsSeq
    <3>6. IsSeq(frames') /\ \A i \in DOMAIN frames' : i \in DOMAIN frames /\ frames'[i] = frames[i]
      BY <1>0, <3>2, <3>5, SeqPrefix
    <3>7. IntBases(frames') BY <1>0, <3>6 DEF IntBases
    <3> QED BY <3>4, <3>6, <3>7
  <2> QED BY <1>7, <2>1, <2>2 DEF DoThrow
<1> QED BY <1>0, <1>1, <1>2, <1>3, <1>4, <1>5, <1>6, <1>7 DEF CodeStep

LEMMA SeqConcat == ASSUME NEW s, NEW t, IsSeq(s), IsSeq(t) PROVE IsSeq(s \o t)
<1>1. PICK S : s \in Seq(S) BY DEF IsSeq
<1>2. PICK T : t \in Seq(T) BY DEF IsSeq
<1>3. s \in Seq(S \cup T) /\ t \in Seq(S \cup T) BY <1>1, <1>2, SeqMonotonic
<1> QED BY <1>3, ConcatProperties DEF IsSeq

LEMMA InstructionTyped ==
    ASSUME Typed, program \in Programs, Instruction
    PROVE  /\ DOMAIN local' = Registers
           /\ IsSeq(stack') /\ IsSeq(frames') /\ IntBases(frames')
<1>0. IsSeq(stack) /\ IsSeq(frames) /\ IntBases(frames) /\ DOMAIN local = Registers
  BY DEF Typed, IntBases
<1>1. CASE Performs
  <2>1. PICK variables : local' = [r \in Registers |->
                             IF r \in DOMAIN variables THEN variables[r] ELSE {}]
    BY <1>1 DEF Performs, Perform
  <2>2. stack' = stack /\ frames' = frames BY <1>1 DEF Performs, Perform, program_vars
  <2> QED BY <1>0, <2>1, <2>2
<1>2. CASE SetVariable
  <2>1. stack' = stack \/ \E i : stack' = [stack EXCEPT ![i] = Peek(0)]
    BY <1>2 DEF SetVariable
  <2>2. frames' = frames /\ local' = local BY <1>2 DEF SetVariable, code_vars
  <2> QED BY <1>0, <2>1, <2>2, SeqChanged
<1>3. CASE Pop
  <2>1. stack' = Front(stack) /\ frames' = frames /\ local' = local
    BY <1>3 DEF Pop, code_vars
  <2> QED BY <1>0, <2>1, SeqFront
<1>4. CASE Return
  <2> DEFINE base == Active.base
             answer == IF Len(frames) = 1 THEN <<>> ELSE <<Peek(0)>>
  <2>1. /\ frames # <<>> /\ Len(stack) - base - 1 > 0
        /\ frames' = Front(frames) /\ local' = local
        /\ stack' = SubSeq(stack, 1, base) \o answer
    BY <1>4 DEF Return, Runs, Height, code_vars
  <2>2. base \in Int
    <3>1. Len(frames) \in DOMAIN frames BY <1>0, <2>1 DEF IsSeq
    <3>2. Active = frames[Len(frames)] BY DEF Active, Last
    <3> QED BY <1>0, <3>1, <3>2 DEF IntBases
  <2>3. IsSeq(answer)
    <3>1. \A e : IsSeq(<<e>>)
      <4> SUFFICES ASSUME NEW e PROVE IsSeq(<<e>>) OBVIOUS
      <4> DEFINE S == {e}  s == <<e>>
      <4>1. s \in Seq(S) OBVIOUS
      <4> HIDE DEF S, s
      <4>2. IsSeq(s) BY <4>1 DEF IsSeq
      <4> QED BY <4>2 DEF s
    <3>2. IsSeq(<<>>) BY CodeOf, CodeIsSeq
    <3> QED BY <3>1, <3>2
  <2> HIDE DEF base, answer
  <2>4. base <= Len(stack)
    <3>1. Len(stack) \in Nat BY <1>0 DEF IsSeq
    <3> QED BY <2>1, <2>2, <3>1
  <2>5. IsSeq(stack') BY <1>0, <2>1, <2>2, <2>3, <2>4, SeqPrefix, SeqConcat
  <2>6. IsSeq(frames') BY <1>0, <2>1, SeqFront
  <2>7. IntBases(frames') BY <1>0, <2>1, SeqFront DEF IntBases
  <2> QED BY <1>0, <2>1, <2>5, <2>6, <2>7
<1>5. CASE MarkHandled
  <2>1. stack' = stack /\ frames' = frames /\ local' = local
    BY <1>5 DEF MarkHandled, code_vars
  <2> QED BY <1>0, <2>1
<1> QED BY <1>1, <1>2, <1>3, <1>4, <1>5, InstructionCases

LEMMA TypedStep ==
    ASSUME Kept, Typed, Strung, [Next]_vars
    PROVE  Typed'
<1>0. Shapes /\ DOMAIN local = Registers /\ IsSeq(stack) /\ IsSeq(frames) /\ IntBases(frames)
  BY DEF Typed, IntBases
<1>1. CASE Collection \/ UNCHANGED vars
  <2>1. stack' = stack /\ frames' = frames /\ local' = local
    BY <1>1 DEF Collection, BeginCollection, Blacken, Sweep, program_vars, code_vars, vars
  <2>2. \A o \in DOMAIN heap' : o \in DOMAIN heap /\ heap'[o] = heap[o]
    <3>1. heap' = heap \/ heap' = Restrict(heap, marked \cap DOMAIN heap)
      BY <1>1 DEF Collection, BeginCollection, Blacken, Sweep, heap_vars, vars
    <3> QED BY <3>1 DEF Restrict
  <2>3. Shapes' BY <1>0, <2>2 DEF Shapes
  <2> QED BY <1>0, <2>1, <2>3 DEF Typed, IntBases
<1>2. CASE CodeStep
  <2>1. Shapes'
    <3>1. CASE ~ DoNew
      <4>1. HeapKept BY <1>0, <1>2, <3>1, CodeHeapKept
      <4> QED BY <1>0, <4>1 DEF HeapKept, Shapes
    <3>2. CASE DoNew
      <4> DEFINE obj == Min(Obj \ DOMAIN heap)
      <4>1. \A o \in DOMAIN heap' : \/ o \in DOMAIN heap /\ heap'[o] = heap[o]
                                    \/ DOMAIN heap'[o] = {"type", "text", "refs"}
        BY <3>2 DEF DoNew
      <4> QED BY <1>0, <4>1 DEF Shapes
    <3> QED BY <3>1, <3>2
  <2> QED BY <1>0, <1>2, <2>1, LocalsKept, StackKept DEF Typed, IntBases
<1>3. CASE Instruction
  <2>1. program \in Programs BY DEF Kept
  <2>2. HeapKept BY <1>0, <1>3, <2>1, InstructionHeapKept
  <2>3. Shapes' BY <1>0, <2>2 DEF HeapKept, Shapes
  <2> QED BY <1>3, <2>1, <2>3, InstructionTyped DEF Typed, IntBases
<1> QED BY <1>1, <1>2, <1>3 DEF Next

LEMMA CodeOp ==
    ASSUME CodeStep
    PROVE  /\ todo # <<>>
           /\ Head(todo).op = "block" => DoBlock
           /\ Head(todo).op = "new" => DoNew
           /\ Head(todo).op = "push" => DoPush
           /\ Head(todo).op = "remember" => DoRemember
           /\ \/ Head(todo).op \in {"block", "push", "new", "remember"}
              \/ DoIntern \/ DoThrow
              \/ DoUse \/ DoDrop \/ DoReplace \/ DoPut \/ DoAllow \/ DoFetch \/ DoDefine
              \/ DoEnter \/ DoLink
<1>1. DoBlock \/ DoUse \/ DoNew \/ DoRemember
        => /\ todo # <<>>
           /\ \/ Head(todo).op = "block" /\ DoBlock
              \/ Head(todo).op = "use" /\ DoUse
              \/ Head(todo).op = "new" /\ DoNew
              \/ Head(todo).op = "remember" /\ DoRemember
  BY DEF DoBlock, DoUse, DoNew, DoRemember, Doing
<1>2. DoPush \/ DoDrop \/ DoReplace \/ DoPut \/ DoAllow
        => /\ todo # <<>>
           /\ \/ Head(todo).op = "push" /\ DoPush
              \/ Head(todo).op = "drop" /\ DoDrop
              \/ Head(todo).op = "replace" /\ DoReplace
              \/ Head(todo).op = "put" /\ DoPut
              \/ Head(todo).op = "allow" /\ DoAllow
  BY DEF DoPush, DoDrop, DoReplace, DoPut, DoAllow, Doing
<1>3. DoFetch \/ DoDefine \/ DoEnter \/ DoLink \/ DoThrow
        => /\ todo # <<>>
           /\ \/ Head(todo).op = "fetch" /\ DoFetch
              \/ Head(todo).op = "define" /\ DoDefine
              \/ Head(todo).op = "enter" /\ DoEnter
              \/ Head(todo).op = "link" /\ DoLink
              \/ Head(todo).op = "throw" /\ DoThrow
  BY DEF DoFetch, DoDefine, DoEnter, DoLink, DoThrow, Doing
<1>4. DoIntern => todo # <<>> /\ Head(todo).op \in {"intern", "copy"}
  BY DEF DoIntern, Doing
<1> QED BY <1>1, <1>2, <1>3, <1>4 DEF CodeStep

LEMMA CodeGoesOn ==
    /\ DoBlock \/ DoUse \/ DoDrop \/ DoReplace \/ DoPut \/ DoAllow \/ DoFetch
       \/ DoDefine \/ DoEnter \/ DoLink \/ DoPush
          => todo' = Tail(todo) /\ strings' = strings /\ ~ DoNew
    /\ DoNew => todo' = Tail(todo) /\ strings' = strings
<1>1. DoBlock \/ DoUse => todo' = Tail(todo) /\ strings' = strings /\ ~ DoNew
  BY DEF DoBlock, DoUse, DoNew, Doing, Proceed, GoOn, heap_vars
<1>2. DoDrop \/ DoReplace => todo' = Tail(todo) /\ strings' = strings /\ ~ DoNew
  BY DEF DoDrop, DoReplace, DoNew, Doing, Proceed, GoOn, heap_vars
<1>3. DoPut \/ DoAllow \/ DoFetch => todo' = Tail(todo) /\ strings' = strings /\ ~ DoNew
  BY DEF DoPut, DoAllow, DoFetch, DoNew, Doing, Proceed, GoOn, heap_vars
<1>4. DoDefine \/ DoEnter => todo' = Tail(todo) /\ strings' = strings /\ ~ DoNew
  BY DEF DoDefine, DoEnter, DoNew, Doing, Proceed, GoOn, heap_vars
<1>5. DoLink \/ DoPush => todo' = Tail(todo) /\ strings' = strings /\ ~ DoNew
  BY DEF DoLink, DoPush, DoNew, Doing, Proceed, GoOn, heap_vars
<1>6. DoNew => todo' = Tail(todo) /\ strings' = strings
  BY DEF DoNew, GoOn
<1> QED BY <1>1, <1>2, <1>3, <1>4, <1>5, <1>6

LEMMA KeptAll ==
    ASSUME HeapKept
    PROVE  All' = All /\ (Distinct => Distinct')
           /\ \A text : (\A s \in All : heap[s].text # {text})
                            => \A s \in All' : heap'[s].text # {text}
<1>1. All' = All BY DEF HeapKept, All
<1>2. \A s \in All : heap'[s].text = heap[s].text BY DEF HeapKept, All
<1> QED BY <1>1, <1>2 DEF Distinct

\* take_string and copy_string make a string of a text that no string has.
LEMMA InternStrung ==
    ASSUME Settled, DoIntern
    PROVE  Strung'
<1>0. PICK to, text, rest : to = Step.to /\ text = Step.arg /\ rest = Tail(todo)
  OBVIOUS
<1>1. todo # <<>> BY CodeOp DEF CodeStep
<1>2. to \in Registers /\ IsCode(rest)
  BY <1>0, <1>1, CodeHead DEF Settled, Clean, Step
<1>3. heap' = heap /\ strings' = strings BY DEF DoIntern, heap_vars
<1>4. All' = All BY <1>3 DEF All
<1>5. CASE Interned(text) # {}
  <2>1. todo' = rest BY <1>0, <1>5 DEF DoIntern, GoOn
  <2>2. Settled' BY <1>2, <1>3, <1>4, <2>1 DEF Settled
  <2> QED BY <2>2 DEF Strung
<1>6. CASE Interned(text) = {}
  <2> DEFINE copied == IF Step.op = "copy" THEN <<Block>> ELSE <<>>
  <2>1. todo' = copied \o AllocateString(to, text) \o rest
    BY <1>0, <1>6 DEF DoIntern, GoOn
  <2>2. AllocateString(to, text) \o rest = Making(to, text, rest)
    BY <1>2, AllocateStringIs
  <2>3. PICK S : rest \in Seq(S) BY <1>2 DEF IsCode
  <2> DEFINE a == NewOf(to, "string", {text}, <<>>)
             A == AllocateString(to, text)
             T == S \cup {a, Push(to), Block, Remember(to), Drop(1)}
  <2>4. A \in Seq(T) BY DEF AllocateString
  <2>5. rest \in Seq(T) BY <2>3, SeqMonotonic
  <2>6. <<Block>> \in Seq(T) OBVIOUS
  <2> HIDE DEF T, a, A
  <2>7. /\ (<<Block>> \o A) \o rest = <<Block>> \o (A \o rest)
        /\ (<<>> \o A) \o rest = A \o rest
    BY <2>4, <2>5, <2>6, ConcatAssociative
  <2>8. todo' = Making(to, text, rest) \/ todo' = <<Block>> \o Making(to, text, rest)
    BY <2>1, <2>2, <2>7 DEF A
  <2>9. \A s \in All : heap[s].text # {text}
    BY <1>6 DEF Interned, Settled
  <2>10. Promised(to, text, rest)'
    BY <1>2, <1>3, <1>4, <2>8, <2>9 DEF Promised, Settled
  <2> QED BY <2>10 DEF Strung
<1> QED BY <1>5, <1>6

\* What allocate_object adds.
LEMMA NewIs ==
    ASSUME Kept, Typed, Strung, DoNew
    PROVE  \E o :
              /\ o \notin DOMAIN heap /\ DOMAIN heap' = DOMAIN heap \cup {o}
              /\ \A p \in DOMAIN heap : heap'[p] = heap[p]
              /\ heap'[o].type = Step.arg.type /\ heap'[o].text = Step.arg.text
              /\ Tail(todo) # <<>> => local'[Step.to] = {o}
<1>1. PICK o : o = Min(Obj \ DOMAIN heap)
  OBVIOUS
<1>2. o \notin DOMAIN heap BY <1>1, FreshIs DEF DoNew
<1>3. PICK refs : heap' = [p \in DOMAIN heap \cup {o} |->
                  IF p # o THEN heap[p]
                  ELSE [type |-> Step.arg.type, text |-> Step.arg.text, refs |-> refs]]
  <2> DEFINE refs == [f \in Fields[Step.arg.type] |->
                        IF f \in DOMAIN Step.arg.parts THEN Values(Step.arg.parts[f]) ELSE {}]
  <2>1. heap' = [p \in DOMAIN heap \cup {o} |->
                  IF p # o THEN heap[p]
                  ELSE [type |-> Step.arg.type, text |-> Step.arg.text, refs |-> refs]]
    BY <1>1 DEF DoNew
  <2> HIDE DEF refs
  <2> QED BY <2>1
<1>4. Tail(todo) # <<>> => local'[Step.to] = {o}
  <2>1. Step.to \in DOMAIN local BY HeadIs DEF Typed, DoNew, Doing, Step
  <2>2. GoOn(Tail(todo), [local EXCEPT ![Step.to] = {o}]) BY <1>1 DEF DoNew
  <2> QED BY <2>1, <2>2 DEF GoOn
<1> QED BY <1>2, <1>3, <1>4

LEMMA SettledCode ==
    ASSUME Kept, Typed, Distinct, Settled, CodeStep
    PROVE  Strung' /\ Distinct'
<1>0. Shapes /\ Strung BY DEF Typed, Strung
<1>1. todo # <<>> BY CodeOp
<1>2. Clean(Head(todo)) /\ IsCode(Tail(todo)) BY <1>1, CodeHead DEF Settled
<1>3. CASE DoNew
  <2>1. PICK o : /\ o \notin DOMAIN heap /\ DOMAIN heap' = DOMAIN heap \cup {o}
                 /\ \A p \in DOMAIN heap : heap'[p] = heap[p]
                 /\ heap'[o].type = Step.arg.type
    BY <1>0, <1>3, NewIs
  <2>2. Step.arg.type # "string" BY <1>2, <1>3 DEF Clean, DoNew, Doing, Step
  <2>3. All' = All BY <2>1, <2>2 DEF All
  <2>4. todo' = Tail(todo) /\ strings' = strings BY <1>3, CodeGoesOn
  <2>5. Settled' BY <1>2, <2>3, <2>4 DEF Settled
  <2>6. \A s \in All : heap'[s] = heap[s] BY <2>1 DEF All
  <2>7. Distinct' BY <2>3, <2>6 DEF Distinct
  <2> QED BY <2>5, <2>7 DEF Strung
<1>4. CASE ~ DoNew
  <2>1. HeapKept BY <1>0, <1>4, CodeHeapKept
  <2>2. All' = All /\ Distinct' BY <2>1, KeptAll
  <2>3. CASE DoIntern BY <2>2, <2>3, InternStrung
  <2>4. CASE DoThrow
    <3>1. strings' = strings BY <2>4 DEF DoThrow
    <3>2. IsCode(todo')
      <4>1. IsCode(<<Push("r")>> \o Tail(todo))
        <5>1. IsCode(<<Push("r")>>) BY CodeOf, CleanSteps
        <5> QED BY <1>2, <5>1, CodeConcat
      <4>2. IsCode(CleanUp(Tail(todo)))
        <5>1. IsCode(<<Allow(TRUE)>>) BY CodeOf, CleanSteps
        <5> QED BY <5>1, CodeOf DEF CleanUp
      <4>3. todo' = <<Push("r")>> \o Tail(todo) \/ todo' = CleanUp(Tail(todo))
        BY <2>4 DEF DoThrow, GoOn
      <4> QED BY <4>1, <4>2, <4>3
    <3>3. Settled' BY <2>2, <3>1, <3>2 DEF Settled
    <3> QED BY <2>2, <3>3 DEF Strung
  <2>5. CASE ~ DoIntern /\ ~ DoThrow
    <3>1. Head(todo).op # "remember" BY <1>2 DEF Clean
    <3>2. \/ DoBlock \/ DoUse \/ DoDrop \/ DoReplace \/ DoPut \/ DoAllow \/ DoFetch
          \/ DoDefine \/ DoEnter \/ DoLink \/ DoPush
      BY <1>4, <2>5, <3>1, CodeOp
    <3>3. todo' = Tail(todo) /\ strings' = strings BY <3>2, CodeGoesOn
    <3>4. Settled' BY <1>2, <2>2, <3>3 DEF Settled
    <3> QED BY <2>2, <3>4 DEF Strung
  <2> QED BY <2>3, <2>4, <2>5
<1> QED BY <1>3, <1>4

\* The string that was promised is made, of a text that no other string has.
LEMMA PromisedCode ==
    ASSUME Kept, Typed, Distinct, NEW to, NEW text, NEW rest, Promised(to, text, rest), CodeStep
    PROVE  Strung' /\ Distinct'
<1>0. Shapes /\ Strung BY DEF Typed, Strung
<1>1. to \in Registers /\ IsCode(rest) BY DEF Promised
<1>2. IsSeq(Pushing(to, rest)) /\ IsSeq(Making(to, text, rest)) BY <1>1, StagesAre
<1>3. CASE todo = <<Block>> \o Making(to, text, rest)
  <2>1. Head(todo) = Block /\ Tail(todo) = Making(to, text, rest) BY <1>2, <1>3, ConsIs
  <2>2. DoBlock BY <2>1, CodeOp DEF Block, Do
  <2>3. todo' = Making(to, text, rest) /\ strings' = strings /\ ~ DoNew
    BY <2>1, <2>2, CodeGoesOn
  <2>4. HeapKept BY <1>0, <2>3, CodeHeapKept
  <2>5. Promised(to, text, rest)' BY <1>1, <2>3, <2>4, KeptAll DEF Promised
  <2> QED BY <2>4, <2>5, KeptAll DEF Strung
<1>4. CASE todo = Making(to, text, rest)
  <2>1. Head(todo) = NewOf(to, "string", {text}, <<>>) /\ Tail(todo) = Pushing(to, rest)
    BY <1>2, <1>4, ConsIs DEF Making
  <2>2. /\ Step.to = to /\ Step.op = "new"
        /\ Step.arg.type = "string" /\ Step.arg.text = {text}
    BY <2>1 DEF Step, NewOf, Do
  <2>3. DoNew BY <2>2, CodeOp DEF Step
  <2>4. Pushing(to, rest) # <<>> BY <1>1, StagesAre, ConsIs DEF Pushing
  <2>5. PICK o : /\ o \notin DOMAIN heap /\ DOMAIN heap' = DOMAIN heap \cup {o}
                 /\ \A p \in DOMAIN heap : heap'[p] = heap[p]
                 /\ heap'[o].type = "string" /\ heap'[o].text = {text}
                 /\ local'[to] = {o}
    BY <1>0, <2>1, <2>2, <2>3, <2>4, NewIs
  <2>6. All' = All \cup {o} /\ o \notin All BY <2>5 DEF All
  <2>7. todo' = Pushing(to, rest) /\ strings' = strings BY <2>1, <2>3, CodeGoesOn
  <2>8. Fresh(to, o, rest)' BY <1>1, <2>5, <2>6, <2>7 DEF Fresh, Promised
  <2>9. Distinct'
    <3>1. \A s \in All : heap'[s].text = heap[s].text /\ heap[s].text # {text}
      BY <2>5 DEF All, Promised
    <3> QED BY <2>5, <2>6, <3>1 DEF Distinct
  <2> QED BY <2>8, <2>9 DEF Strung
<1> QED BY <1>3, <1>4 DEF Promised

\* The fresh string is pushed, vm->strings grows, and the string is entered.
LEMMA FreshCode ==
    ASSUME Kept, Typed, Distinct, NEW to, NEW o, NEW rest, Fresh(to, o, rest), CodeStep
    PROVE  Strung' /\ Distinct'
<1>0. Shapes /\ Strung BY DEF Typed, Strung
<1>1. /\ to \in Registers /\ IsCode(rest) /\ local[to] = {o} /\ o \in All
      /\ strings = All \ {o}
  BY DEF Fresh
<1>2. /\ IsSeq(Growing(to, rest)) /\ IsSeq(Remembering(to, rest))
      /\ IsCode(Dropping(rest)) /\ IsSeq(Dropping(rest))
  BY <1>1, StagesAre, CodeIsSeq
<1>3. CASE todo = Pushing(to, rest)
  <2>1. Head(todo) = Push(to) /\ Tail(todo) = Growing(to, rest)
    BY <1>2, <1>3, ConsIs DEF Pushing
  <2>2. Step.op = "push" /\ Step.from = {to} BY <2>1 DEF Step, Push, Do
  <2>3. DoPush BY <2>2, CodeOp DEF Step
  <2>4. todo' = Growing(to, rest) /\ strings' = strings /\ ~ DoNew
    BY <2>1, <2>3, CodeGoesOn
  <2>5. HeapKept BY <1>0, <2>4, CodeHeapKept
  <2>6. Growing(to, rest) # <<>> BY <1>2, ConsIs DEF Growing
  <2>7. local' = local BY <2>1, <2>3, <2>6 DEF DoPush, Proceed, GoOn
  <2>8. o \in UNION ToSet(stack')
    <3>1. stack' = Append(stack, {o}) BY <1>1, <2>2, <2>3 DEF DoPush, Values
    <3>2. {o} \in ToSet(stack') BY <3>1, SeqAppend DEF Typed
    <3> QED BY <3>2
  <2>9. Fresh(to, o, rest)' BY <1>1, <2>4, <2>5, <2>7, <2>8, KeptAll DEF Fresh
  <2> QED BY <2>5, <2>9, KeptAll DEF Strung
<1>4. CASE todo = Growing(to, rest)
  <2>1. Head(todo) = Block /\ Tail(todo) = Remembering(to, rest)
    BY <1>2, <1>4, ConsIs DEF Growing
  <2>2. DoBlock BY <2>1, CodeOp DEF Block, Do
  <2>3. todo' = Remembering(to, rest) /\ strings' = strings /\ ~ DoNew
    BY <2>1, <2>2, CodeGoesOn
  <2>4. HeapKept BY <1>0, <2>3, CodeHeapKept
  <2>5. Remembering(to, rest) # <<>> BY <1>2, ConsIs DEF Remembering
  <2>6. local' = local BY <2>1, <2>2, <2>5 DEF DoBlock, Proceed, GoOn
  <2>7. Fresh(to, o, rest)' BY <1>1, <2>3, <2>4, <2>6, KeptAll DEF Fresh
  <2> QED BY <2>4, <2>7, KeptAll DEF Strung
<1>5. CASE todo = Remembering(to, rest)
  <2>1. Head(todo) = Remember(to) /\ Tail(todo) = Dropping(rest)
    BY <1>2, <1>5, ConsIs DEF Remembering
  <2>2. Step.op = "remember" /\ Step.from = {to} BY <2>1 DEF Step, Remember, Do
  <2>3. DoRemember BY <2>2, CodeOp DEF Step
  <2>4. heap' = heap /\ todo' = Dropping(rest)
    BY <2>1, <2>3 DEF DoRemember, Proceed, GoOn
  <2>5. strings' = All BY <1>1, <2>2, <2>3 DEF DoRemember, Values
  <2>6. All' = All /\ Distinct' BY <2>4 DEF All, Distinct
  <2>7. Settled' BY <1>2, <2>4, <2>5, <2>6 DEF Settled
  <2> QED BY <2>6, <2>7 DEF Strung
<1> QED BY <1>3, <1>4, <1>5 DEF Fresh

\* A sweep frees strings and takes them out of vm->strings alike. One that is being
\* made is on the stack when its allocation collects, and so marked.
LEMMA SweepStrung ==
    ASSUME Marking, AtAllocation, Distinct, Strung, Sweep
    PROVE  Strung' /\ Distinct'
<1>1. /\ phase = "mark" /\ grey = {} /\ strings' = strings \cap marked
      /\ todo' = todo /\ local' = local /\ stack' = stack
      /\ DOMAIN heap' = marked \cap DOMAIN heap
      /\ \A o \in DOMAIN heap' : heap'[o] = heap[o]
  BY DEF Sweep, Restrict, code_vars
<1>2. All' = All \cap marked BY <1>1 DEF All
<1>3. \A s \in All' : heap'[s] = heap[s] BY <1>1 DEF All
<1>4. Distinct' BY <1>2, <1>3 DEF Distinct
<1>5. CASE Settled
  <2>1. Settled' BY <1>1, <1>2, <1>5 DEF Settled
  <2> QED BY <1>4, <2>1 DEF Strung
<1>6. CASE \E to, text, rest : Promised(to, text, rest)
  <2>1. PICK to, text, rest : Promised(to, text, rest) BY <1>6
  <2>2. Promised(to, text, rest)' BY <1>1, <1>2, <1>3, <2>1 DEF Promised
  <2> QED BY <1>4, <2>2 DEF Strung
<1>7. CASE \E to, o, rest : Fresh(to, o, rest)
  <2>1. PICK to, o, rest : Fresh(to, o, rest) BY <1>7
  <2>2. IsSeq(Growing(to, rest)) /\ IsSeq(Dropping(rest))
    BY <2>1, StagesAre, CodeIsSeq DEF Fresh
  <2>3. todo # Pushing(to, rest) /\ todo # Remembering(to, rest)
    <3>1. Head(todo).op \in {"block", "new"} BY <1>1 DEF AtAllocation, Allocates
    <3>2. Head(Pushing(to, rest)) = Push(to) BY <2>2, ConsIs DEF Pushing
    <3>3. Head(Remembering(to, rest)) = Remember(to) BY <2>2, ConsIs DEF Remembering
    <3> QED BY <3>1, <3>2, <3>3 DEF Push, Remember, Do
  <2>4. todo = Growing(to, rest) /\ o \in UNION ToSet(stack) BY <2>1, <2>3 DEF Fresh
  <2>5. o \in marked
    <3>1. UNION ToSet(stack) \subseteq Roots BY DEF Roots, Held
    <3>2. InHand \subseteq marked BY <1>1 DEF Marking
    <3> QED BY <2>4, <3>1, <3>2, RootsAreInHand
  <2>6. Fresh(to, o, rest)' BY <1>1, <1>2, <2>1, <2>4, <2>5 DEF Fresh
  <2> QED BY <1>4, <2>6 DEF Strung
<1> QED BY <1>5, <1>6, <1>7 DEF Strung

LEMMA InstructionStrung ==
    ASSUME Kept, Typed, Distinct, Strung, Instruction
    PROVE  Strung' /\ Distinct'
<1>0. program \in Programs /\ Shapes BY DEF Kept, Typed
<1>1. todo = <<>> /\ strings' = strings BY <1>0, InstructionIs
<1>2. HeapKept BY <1>0, InstructionHeapKept
<1>3. All' = All /\ Distinct' BY <1>2, KeptAll
<1>4. Settled
  <2>1. ASSUME NEW to, NEW text, NEW rest, Promised(to, text, rest) PROVE FALSE
    <3>1. IsSeq(Pushing(to, rest)) /\ IsSeq(Making(to, text, rest))
      BY <2>1, StagesAre DEF Promised
    <3> QED BY <1>1, <2>1, <3>1, ConsIs DEF Promised, Making
  <2>2. ASSUME NEW to, NEW o, NEW rest, Fresh(to, o, rest) PROVE FALSE
    <3>1. IsSeq(Growing(to, rest)) /\ IsSeq(Remembering(to, rest)) /\ IsSeq(Dropping(rest))
      BY <2>2, StagesAre, CodeIsSeq DEF Fresh
    <3> QED BY <1>1, <2>2, <3>1, ConsIs DEF Fresh, Pushing, Growing, Remembering
  <2> QED BY <2>1, <2>2 DEF Strung
<1>5. IsCode(todo')
  <2>1. Performs => IsCode(todo') BY DEF Performs, Perform
  <2>2. SetVariable \/ Pop \/ Return \/ MarkHandled => todo' = todo
    BY DEF SetVariable, Pop, Return, MarkHandled, code_vars
  <2> QED BY <1>0, <1>4, <2>1, <2>2, InstructionCases DEF Settled
<1>6. Settled' BY <1>1, <1>3, <1>4, <1>5 DEF Settled
<1> QED BY <1>3, <1>6 DEF Strung

LEMMA StrungStep ==
    ASSUME Kept, Marking, Typed, AtAllocation, Distinct, Strung, [Next]_vars
    PROVE  Strung' /\ Distinct'
<1>1. CASE BeginCollection \/ Blacken \/ UNCHANGED vars
  <2>1. /\ todo' = todo /\ local' = local /\ heap' = heap /\ strings' = strings
        /\ stack' = stack
    BY <1>1 DEF BeginCollection, Blacken, heap_vars, program_vars, code_vars, vars
  <2>2. All' = All BY <2>1 DEF All
  <2>3. Settled => Settled' BY <2>1, <2>2 DEF Settled
  <2>4. \A to, text, rest : Promised(to, text, rest) => Promised(to, text, rest)'
    BY <2>1, <2>2 DEF Promised
  <2>5. \A to, o, rest : Fresh(to, o, rest) => Fresh(to, o, rest)'
    BY <2>1, <2>2 DEF Fresh
  <2>6. Distinct' BY <2>1, <2>2 DEF Distinct
  <2> QED BY <2>3, <2>4, <2>5, <2>6 DEF Strung
<1>2. CASE Sweep BY <1>2, SweepStrung
<1>3. CASE CodeStep BY <1>3, SettledCode, PromisedCode, FreshCode DEF Strung
<1>4. CASE Instruction BY <1>4, InstructionStrung
<1> QED BY <1>1, <1>2, <1>3, <1>4 DEF Next, Collection

LEMMA AtAllocationStep ==
    ASSUME Kept, Marking, AtAllocation, [Next]_vars
    PROVE  AtAllocation'
<1>1. CASE BeginCollection
  BY <1>1 DEF BeginCollection, MayCollect, AtAllocation, code_vars
<1>2. CASE Blacken
  BY <1>2 DEF Blacken, AtAllocation, code_vars
<1>3. CASE Sweep
  BY <1>3 DEF Sweep, AtAllocation
<1>4. CASE CodeStep
  BY <1>4, CodeStepIs DEF AtAllocation
<1>5. CASE UNCHANGED vars
  BY <1>5 DEF vars, gc_vars, code_vars, AtAllocation
<1>6. CASE Instruction
  BY <1>6, InstructionIs DEF Kept, Marking, AtAllocation
<1> QED BY <1>1, <1>2, <1>3, <1>4, <1>5, <1>6 DEF Next, Collection

\* What holds in every state, and carries the two theorems about strings.
Interning == Kept /\ Marking /\ Typed /\ AtAllocation /\ Distinct /\ Strung

LEMMA InterningInit == Init => Interning
<1> SUFFICES ASSUME Init PROVE Interning
  OBVIOUS
<1>1. /\ DOMAIN heap = {1, 2, 3, 4}
      /\ heap[1] = Object("string", {NativeText}) /\ heap[2] = Object("native", {})
      /\ heap[3] = Object("string", {InitText}) /\ heap[4] = Object("string", {ModText})
  BY DEF Init
<1>2. All = {1, 3, 4} BY <1>1 DEF All, Object
<1>3. Distinct BY <1>1, <1>2, CollectorConstants DEF Distinct, Object
<1>4. Shapes BY <1>1 DEF Shapes, Object
<1>5. IsSeq(<<>>) /\ IsCode(<<>>) BY CodeOf, CodeIsSeq
<1>6. Typed BY <1>4, <1>5 DEF Init, Typed, NoLocals
<1>7. Settled BY <1>2, <1>5 DEF Init, Settled
<1>8. Marking /\ AtAllocation BY DEF Init, Marking, AtAllocation
<1> QED BY <1>3, <1>6, <1>7, <1>8, KeptInit DEF Interning, Strung

LEMMA InterningStep == Interning /\ [Next]_vars => Interning'
<1> SUFFICES ASSUME Interning, [Next]_vars PROVE Interning'
  OBVIOUS
<1>1. Kept /\ Marking /\ Typed /\ AtAllocation /\ Distinct /\ Strung BY DEF Interning
<1>2. Kept' /\ Marking' BY <1>1, KeptStep, MarkingStep
<1>3. Typed' BY <1>1, TypedStep
<1>4. AtAllocation' BY <1>1, AtAllocationStep
<1>5. Strung' /\ Distinct' BY <1>1, StrungStep
<1> QED BY <1>2, <1>3, <1>4, <1>5 DEF Interning

LEMMA InterningHolds == Spec => []Interning
  BY InterningInit, InterningStep, PTL DEF Spec

LEMMA InterningIsEnough == Interning => StringsAreInterned
<1> SUFFICES ASSUME Interning PROVE StringsAreInterned
  OBVIOUS
<1>1. Distinct /\ Strung BY DEF Interning
<1>2. strings \subseteq All
  BY <1>1 DEF Strung, Settled, Promised, Fresh
<1>3. ASSUME All # strings
      PROVE  \E o \in All : All = strings \cup {o}
                            /\ \E i \in DOMAIN todo : todo[i].op = "remember"
  <2>1. PICK to, o, rest : Fresh(to, o, rest)
    BY <1>1, <1>3 DEF Strung, Settled, Promised
  <2>2. o \in All /\ All = strings \cup {o} BY <2>1 DEF Fresh
  <2>3. /\ IsSeq(Growing(to, rest)) /\ IsSeq(Remembering(to, rest)) /\ IsSeq(Dropping(rest))
    BY <2>1, StagesAre, CodeIsSeq DEF Fresh
  <2>4. Remember(to).op = "remember" BY DEF Remember, Do
  <2>5. \A e, s : IsSeq(s) =>
            /\ 1 \in DOMAIN (<<e>> \o s) /\ (<<e>> \o s)[1] = e
            /\ \A i \in DOMAIN s : i + 1 \in DOMAIN (<<e>> \o s) /\ (<<e>> \o s)[i + 1] = s[i]
    <3> SUFFICES ASSUME NEW e, NEW s, IsSeq(s)
                 PROVE  /\ 1 \in DOMAIN (<<e>> \o s) /\ (<<e>> \o s)[1] = e
                        /\ \A i \in DOMAIN s :
                              i + 1 \in DOMAIN (<<e>> \o s) /\ (<<e>> \o s)[i + 1] = s[i]
      OBVIOUS
    <3>1. PICK S : s \in Seq(S) BY DEF IsSeq
    <3>2. s \in Seq(S \cup {e}) /\ <<e>> \in Seq(S \cup {e}) BY <3>1, SeqMonotonic
    <3> QED BY <3>2, ConcatProperties
  <2>6. 1 \in DOMAIN Remembering(to, rest) /\ Remembering(to, rest)[1] = Remember(to)
    BY <2>3, <2>5 DEF Remembering
  <2>7. 2 \in DOMAIN Growing(to, rest) /\ Growing(to, rest)[2] = Remember(to)
    <3>1. 1 + 1 \in DOMAIN Growing(to, rest) /\ Growing(to, rest)[1 + 1] = Remember(to)
      BY <2>3, <2>5, <2>6 DEF Growing
    <3> QED BY <3>1
  <2>8. 3 \in DOMAIN Pushing(to, rest) /\ Pushing(to, rest)[3] = Remember(to)
    <3>1. 2 + 1 \in DOMAIN Pushing(to, rest) /\ Pushing(to, rest)[2 + 1] = Remember(to)
      BY <2>3, <2>5, <2>7 DEF Pushing
    <3> QED BY <3>1
  <2>9. \E i \in DOMAIN todo : todo[i] = Remember(to)
    BY <2>1, <2>6, <2>7, <2>8 DEF Fresh
  <2> QED BY <2>2, <2>4, <2>9
<1> QED BY <1>1, <1>2, <1>3 DEF StringsAreInterned, Distinct, All

\* vm->strings holds every string there is but the one being made, and no two have one
\* text: names are compared by address, in every program, whenever collections run.
THEOREM StringsStayInterned == Spec => []StringsAreInterned
  BY InterningHolds, InterningIsEnough, PTL

-----------------------------------------------------------------------------
(***************************************************************************)
(* Rooting. What the C code of an instruction holds in its variables is    *)
(* followed from its first step to its last, as a type checker would: a    *)
(* claim says of which variables the objects have not been freed, which of *)
(* them the roots reach, with and without the top of the stack, what their *)
(* objects are, whether collection is off and the stack has room, and how  *)
(* many operands lie above the variables of the frame. Each step asks      *)
(* something of the claim before it and leaves a claim after it.           *)
(***************************************************************************)

\* What the objects in a field are: the constructors store objects of one type.
Kind(type, field) ==
    IF field = "function" THEN "function"
    ELSE IF field = "upvalues" THEN "upvalue"
    ELSE IF field = "class_" THEN "class"
    ELSE IF field = "method" THEN "closure"
    ELSE IF field = "receiver" /\ type = "bound_native" THEN "array"
    ELSE "any"

\* A function that names the module, which its namespace is called after.
NamesModule(h, o) ==
    \E s \in h[o].refs["constants"] : h[s].type = "string" /\ h[s].text = {ModuleText}

\* What is claimed of the objects v of a variable or a field.
IsA(h, v, kind) ==
    IF kind = "any" THEN TRUE
    ELSE IF kind = "one" THEN \E o : v = {o}
    ELSE IF kind = "module"
         THEN v # {} /\ \A o \in v : h[o].type = "string" /\ h[o].text = {ModuleText}
    ELSE IF kind = "complete"
         THEN \A o \in v : h[o].type = "function" /\ NamesModule(h, o)
    ELSE \A o \in v : h[o].type = kind

\* Functions are complete, in a program with the name of modules among its texts,
\* when something refers to them.
Complete(h, v) == ModuleText \in program.texts => IsA(h, v, "complete")

FieldIsSound(h, type, f, v) ==
    /\ v \subseteq DOMAIN h
    /\ IsA(h, v, Kind(type, f))
    /\ f = "function" => Complete(h, v)
    /\ f = "constants" => \A o \in v : h[o].type = "function" => Complete(h, {o})

HeapIsSound(h) ==
    \A o \in DOMAIN h :
        /\ h[o].type \in DOMAIN Fields /\ h[o].text \subseteq Texts
        /\ DOMAIN h[o] = {"type", "text", "refs"} /\ DOMAIN h[o].refs = Fields[h[o].type]
        /\ \A f \in Fields[h[o].type] : FieldIsSound(h, h[o].type, f, h[o].refs[f])

\* The frames are nested and the open upvalues are for slots of the stack.
StackIsSound ==
    /\ capacity \in Nat \ {0} /\ Len(stack) <= capacity
    /\ \A u \in open : u.slot \in Nat /\ u.slot < Len(stack)
    /\ \A i \in DOMAIN frames : frames[i].base \in Nat /\ frames[i].base < Len(stack)
    /\ \A i, j \in DOMAIN frames : i < j => frames[i].base < frames[j].base

HandIsSound ==
    /\ InHand \subseteq DOMAIN heap
    /\ \A i \in DOMAIN frames : IsA(heap, frames[i].closure, "closure")
    /\ \A u \in open : IsA(heap, u.upvalue, "upvalue")

ControlIsSound ==
    /\ local \in [Registers -> SUBSET Obj] /\ allowed \in BOOLEAN
    /\ phase \in {"idle", "mark", "done"} /\ (phase = "mark" => allowed)

Sound == HeapIsSound(heap) /\ StackIsSound /\ HandIsSound /\ ControlIsSound
-----------------------------------------------------------------------------
(* What the roots reach: every closed part of the heap with the roots in it has it. *)

Closes(h, X) == \A o \in X \cap DOMAIN h : \A f \in Fields[h[o].type] : h[o].refs[f] \subseteq X

HeldBy(h, R, v) == \A X : R \subseteq X /\ Closes(h, X) => v \subseteq X

\* The roots but for the stack, and with its first n slots.
Others == UNION {Held[part] : part \in {"frames", "upvalues", "globals", "exception", "names"}}
Under(n) == Others \cup UNION {stack[i] : i \in 1 .. n}
Full == Under(Len(stack))
Below == Under(Len(stack) - 1)

LEMMA HeldMore ==
    ASSUME NEW h, NEW R, NEW S, NEW v, NEW w, HeldBy(h, R, v), R \subseteq S, w \subseteq v
    PROVE  HeldBy(h, S, w)
  BY DEF HeldBy

LEMMA HeldRoots == ASSUME NEW h, NEW R, NEW v, v \subseteq R PROVE HeldBy(h, R, v)
  BY DEF HeldBy

LEMMA HeldBoth ==
    ASSUME NEW h, NEW R, NEW v, NEW w, HeldBy(h, R, v), HeldBy(h, R, w)
    PROVE  HeldBy(h, R, v \cup w)
  BY DEF HeldBy

\* What a field of what is held refers to is held.
LEMMA HeldField ==
    ASSUME NEW h, NEW R, NEW v, NEW w, NEW f, HeldBy(h, R, v),
           \A o \in v : o \in DOMAIN h /\ f \in Fields[h[o].type],
           w \subseteq UNION {h[o].refs[f] : o \in v}
    PROVE  HeldBy(h, R, w)
<1> SUFFICES ASSUME NEW X, R \subseteq X, Closes(h, X) PROVE w \subseteq X
  BY DEF HeldBy
<1>1. v \subseteq X BY DEF HeldBy
<1>2. \A o \in v : h[o].refs[f] \subseteq X BY <1>1 DEF Closes
<1> QED BY <1>2

\* What is held stays held when the heap grows.
LEMMA HeldGrows ==
    ASSUME NEW h, NEW g, NEW R, NEW v, HeldBy(h, R, v),
           \A o \in DOMAIN h : o \in DOMAIN g /\ g[o] = h[o]
    PROVE  HeldBy(g, R, v)
  BY DEF HeldBy, Closes

\* What is held is on a sound heap.
LEMMA HeldIsKept ==
    ASSUME NEW h, NEW R, NEW v, HeldBy(h, R, v), R \subseteq DOMAIN h, HeapIsSound(h)
    PROVE  v \subseteq DOMAIN h
<1>1. Closes(h, DOMAIN h) BY DEF Closes, HeapIsSound, FieldIsSound
<1> QED BY <1>1 DEF HeldBy

\* What is held by some of what is marked survives when the rest is freed.
LEMMA HeldSurvives ==
    ASSUME NEW h, NEW g, NEW R, NEW v, NEW m, HeldBy(h, R, v), R \subseteq m, Closes(h, m),
           DOMAIN g = m \cap DOMAIN h, \A o \in DOMAIN g : g[o] = h[o]
    PROVE  HeldBy(g, R, v)
<1> SUFFICES ASSUME NEW X, R \subseteq X, Closes(g, X) PROVE v \subseteq X
  BY DEF HeldBy
<1>1. Closes(h, X \cap m)
  <2> SUFFICES ASSUME NEW o \in (X \cap m) \cap DOMAIN h, NEW f \in Fields[h[o].type]
               PROVE  h[o].refs[f] \subseteq X \cap m
    BY DEF Closes
  <2>1. h[o].refs[f] \subseteq m BY DEF Closes
  <2>2. o \in X \cap DOMAIN g /\ g[o] = h[o] OBVIOUS
  <2>3. g[o].refs[f] \subseteq X BY <2>2 DEF Closes
  <2> QED BY <2>1, <2>2, <2>3
<1>2. v \subseteq X \cap m BY <1>1 DEF HeldBy
<1> QED BY <1>2

LEMMA FullIs == ASSUME IsSeq(stack) PROVE Full = InHand /\ Below \subseteq Full
<1>1. PICK S : stack \in Seq(S) BY DEF IsSeq
<1>2. Len(stack) \in Nat /\ DOMAIN stack = 1 .. Len(stack) BY <1>1
<1>3. DOMAIN Held = {"stack", "frames", "upvalues", "globals", "exception", "names"}
  BY DEF Held
<1>4. InHand = Held["stack"] \cup Others BY <1>3 DEF InHand, Others, Range
<1>5. Held["stack"] = UNION {stack[i] : i \in 1 .. Len(stack)}
  <2>1. Held["stack"] = UNION ToSet(stack) BY DEF Held
  <2> QED BY <1>2, <2>1 DEF ToSet, Range
<1>6. 1 .. Len(stack) - 1 \subseteq 1 .. Len(stack) BY <1>2
<1> QED BY <1>4, <1>5, <1>6 DEF Full, Below, Under

-----------------------------------------------------------------------------
(***************************************************************************)
(* Claims. ok: the variables whose objects are on the heap; held and base: *)
(* those whose objects the roots reach, and reach without the top of the   *)
(* stack; kinds: what the objects of a variable are; off: collection is    *)
(* disabled; room: the stack has room for one more value; depth: operands  *)
(* that may be popped; low: slots that the stack has; texts: those whose   *)
(* string the roots reach; free: the program does not name the module.     *)
(***************************************************************************)
Sane(A) == /\ A.base \subseteq A.held /\ A.held \subseteq A.ok /\ A.ok \subseteq Registers
           /\ A.depth \in Nat /\ A.low \in Nat
           /\ A.off \in BOOLEAN /\ A.room \in BOOLEAN /\ A.free \in BOOLEAN

\* The variables that may be read by a step. Where it may collect, only what the roots
\* reach is still there; copy_string and take_string push the string they make.
Alive(A, s) ==
    IF s.op \in Allocates /\ ~ A.off THEN A.held
    ELSE IF s.op \in {"intern", "copy"} /\ ~ (A.off /\ A.room) THEN A.held
    ELSE A.ok

\* What a variable must be to be stored in a field of an object.
IsNamed(A, r) == A.free \/ <<r, "complete">> \in A.kinds
FitsField(A, r, type, f) ==
    /\ Kind(type, f) # "any" => <<r, Kind(type, f)>> \in A.kinds
    /\ f = "function" => IsNamed(A, r)
    /\ f = "constants" => <<r, "string">> \in A.kinds \/ IsNamed(A, r)

\* The parts of a claim that a step leaves as they are, or assigns.
SameVariables(A, s, B) == B.ok \subseteq Alive(A, s) /\ B.kinds \subseteq A.kinds
Assigned(A, s, B, kinds) ==
    /\ B.ok \subseteq Alive(A, s) \cup {s.to}
    /\ B.kinds \subseteq {k \in A.kinds : k[1] # s.to} \cup {<<s.to, kind>> : kind \in kinds}
SameHeld(A, B) == B.held \subseteq A.held /\ B.base \subseteq A.base
NoneHeld(B)    == B.held = {} /\ B.base = {}
SameGc(A, B)   == (B.off => A.off) /\ (B.room => A.room)
SameStack(A, B) == B.depth <= A.depth /\ B.low <= A.low
StringKinds(text) == {"string"} \cup (IF text = {ModuleText} THEN {"module"} ELSE {})

GoesQuiet(A, s, B) ==
    /\ s.op \in {"block", "use", "remember"}
    /\ SameVariables(A, s, B) /\ SameHeld(A, B) /\ SameGc(A, B) /\ SameStack(A, B)

GoesNew(A, s, B) ==
    /\ s.op = "new"
    /\ s.arg.type \in DOMAIN Fields /\ s.arg.text \subseteq Texts
    /\ \A f \in Fields[s.arg.type] \cap DOMAIN s.arg.parts :
          /\ s.arg.parts[f] \subseteq s.from
          /\ \A r \in s.arg.parts[f] : FitsField(A, r, s.arg.type, f)
    /\ Assigned(A, s, B, {"one"} \cup IF s.arg.type = "string" THEN StringKinds(s.arg.text)
                                      ELSE {s.arg.type})
    /\ B.held \subseteq A.held \ {s.to} /\ B.base \subseteq A.base \ {s.to}
    /\ SameGc(A, B) /\ SameStack(A, B)

GoesIntern(A, s, B) ==
    /\ s.op \in {"intern", "copy"} /\ s.arg \in Texts
    /\ Assigned(A, s, B, StringKinds({s.arg}))
    /\ B.held \subseteq (A.held \ {s.to}) \cup (IF s.arg \in A.texts THEN {s.to} ELSE {})
    /\ B.base = {}
    /\ (B.off => A.off /\ A.room) /\ (B.room => A.room) /\ SameStack(A, B)

GoesPush(A, s, B) ==
    /\ s.op = "push" /\ SameVariables(A, s, B)
    /\ B.held \subseteq A.held \cup s.from /\ B.base \subseteq A.held
    /\ (B.off => A.off /\ A.room) /\ ~ B.room
    /\ B.depth <= A.depth + 1 /\ B.low <= A.low + 1

GoesDrop(A, s, B) ==
    /\ s.op = "drop" /\ SameVariables(A, s, B)
    /\ s.arg \in Nat /\ s.arg <= A.depth
    /\ \/ s.arg = 0 /\ SameHeld(A, B) /\ SameGc(A, B)
       \/ s.arg = 1 /\ B.held \subseteq A.base /\ B.base = {} /\ (B.off => A.off)
       \/ NoneHeld(B) /\ SameGc(A, B)
    /\ B.depth <= A.depth - s.arg /\ B.low <= A.low - s.arg

GoesReplace(A, s, B) ==
    /\ s.op = "replace" /\ SameVariables(A, s, B)
    /\ s.arg \in Nat /\ s.arg < A.depth
    /\ B.held \subseteq s.from \cup (IF s.arg = 0 THEN A.base ELSE {})
    /\ B.base \subseteq (IF s.arg = 0 THEN A.base ELSE {})
    /\ SameGc(A, B) /\ SameStack(A, B)

GoesPut(A, s, B) ==
    /\ s.op = "put" /\ s.to \in s.from /\ s.arg.from \subseteq s.from
    /\ s.arg.field \in {"name", "constants", "upvalues", "methods", "fields", "values", "message"}
    /\ \A r \in s.arg.from : FitsField(A, r, "any", s.arg.field)
    /\ B.ok \subseteq Alive(A, s)
    /\ B.kinds \subseteq A.kinds \cup
          {<<s.to, "complete">> : x \in {y \in {s.arg.field} :
              /\ y = "constants" /\ <<s.to, "function">> \in A.kinds /\ <<s.to, "one">> \in A.kinds
              /\ \E r \in s.arg.from : <<r, "module">> \in A.kinds}}
    /\ NoneHeld(B) /\ SameGc(A, B) /\ SameStack(A, B)

GoesAllow(A, s, B) ==
    /\ s.op = "allow" /\ SameVariables(A, s, B) /\ SameHeld(A, B) /\ SameStack(A, B)
    /\ s.arg \in BOOLEAN /\ (B.off => ~ s.arg) /\ (B.room => A.room)

GoesFetch(A, s, B) ==
    /\ s.op = "fetch" /\ Assigned(A, s, B, {})
    /\ s.arg \in Nat /\ s.arg < A.low
    /\ B.held \subseteq A.held \cup {s.to} /\ B.base \subseteq A.base \ {s.to}
    /\ SameGc(A, B) /\ SameStack(A, B)

GoesDefine(A, s, B) ==
    /\ s.op = "define" /\ SameVariables(A, s, B) /\ s.arg.key \in s.from /\ s.arg.val \in s.from
    /\ NoneHeld(B) /\ SameGc(A, B) /\ SameStack(A, B)

GoesEnter(A, s, B) ==
    /\ s.op = "enter" /\ SameVariables(A, s, B) /\ s.arg \in Nat /\ s.arg + 1 <= A.depth
    /\ \A r \in s.from : <<r, "closure">> \in A.kinds
    /\ NoneHeld(B) /\ SameGc(A, B) /\ B.depth = 0 /\ B.low <= A.low

GoesLink(A, s, B) ==
    /\ s.op = "link" /\ SameVariables(A, s, B) /\ s.arg \in Nat /\ s.arg < A.low
    /\ \A r \in s.from : <<r, "upvalue">> \in A.kinds
    /\ NoneHeld(B) /\ SameGc(A, B) /\ B.depth = 0 /\ B.low <= A.low

\* The handler finds the exception on top of the stack.
GoesThrow(A, s, B) ==
    /\ s.op = "throw"
    /\ B.ok \subseteq Alive(A, s) /\ B.kinds \subseteq {k \in A.kinds : k[1] # "r"}
    /\ NoneHeld(B) /\ (B.off => A.off /\ A.room) /\ ~ B.room
    /\ B.depth <= 1 /\ B.low <= 1

Goes(A, s, B) ==
    /\ Sane(A) /\ Sane(B) /\ B.texts = {} /\ (B.free => A.free)
    /\ s.to \in Registers /\ s.from \subseteq Alive(A, s)
    /\ \/ GoesQuiet(A, s, B) \/ GoesNew(A, s, B) \/ GoesIntern(A, s, B)
       \/ GoesPush(A, s, B) \/ GoesDrop(A, s, B) \/ GoesReplace(A, s, B)
       \/ GoesPut(A, s, B) \/ GoesAllow(A, s, B) \/ GoesFetch(A, s, B)
       \/ GoesDefine(A, s, B) \/ GoesEnter(A, s, B) \/ GoesLink(A, s, B)
       \/ GoesThrow(A, s, B)
-----------------------------------------------------------------------------
(* Steps one after the other. *)

Path(p, s) == \A i \in 1 .. Len(s) : Goes(p[i], s[i], p[i + 1])

Leads(A, s, B) ==
    IsSeq(s) /\ \E p : Path(p, s) /\ p[1] = A /\ p[Len(s) + 1] = B

LEMMA SeqIs ==
    ASSUME NEW s, IsSeq(s)
    PROVE  /\ Len(s) \in Nat /\ DOMAIN s = 1 .. Len(s)
           /\ s = <<>> <=> Len(s) = 0
           /\ s # <<>> => /\ Head(s) = s[1] /\ Len(Tail(s)) = Len(s) - 1
                          /\ \A i \in 1 .. Len(s) - 1 : Tail(s)[i] = s[i + 1]
                          /\ IsSeq(Tail(s))
<1>1. PICK S : s \in Seq(S) BY DEF IsSeq
<1>2. s # <<>> => Tail(s) \in Seq(S) BY <1>1, HeadTailProperties
<1> QED BY <1>1, <1>2, EmptySeq, HeadTailProperties DEF IsSeq

LEMMA ConcatIs ==
    ASSUME NEW s, NEW t, IsSeq(s), IsSeq(t)
    PROVE  /\ IsSeq(s \o t) /\ Len(s \o t) = Len(s) + Len(t)
           /\ \A i \in 1 .. Len(s) : (s \o t)[i] = s[i]
           /\ \A i \in 1 .. Len(t) : (s \o t)[Len(s) + i] = t[i]
<1>1. IsSeq(s \o t) BY SeqConcat
<1>2. PICK S : s \in Seq(S) BY DEF IsSeq
<1>3. PICK T : t \in Seq(T) BY DEF IsSeq
<1>4. s \in Seq(S \cup T) /\ t \in Seq(S \cup T) BY <1>2, <1>3, SeqMonotonic
<1>5. Len(s) \in Nat /\ Len(t) \in Nat BY <1>4
<1> QED BY <1>1, <1>4, <1>5, ConcatProperties

LEMMA LeadsNone == ASSUME NEW A PROVE Leads(A, <<>>, A)
<1> DEFINE p == <<A>>
<1>1. IsSeq(<<>>)
  <2>1. <<>> \in Seq({}) OBVIOUS
  <2> QED BY <2>1 DEF IsSeq
<1>2. Len(<<>>) = 0 OBVIOUS
<1>3. Path(p, <<>>) BY <1>2 DEF Path
<1> QED BY <1>1, <1>2, <1>3 DEF Leads

LEMMA LeadsThen ==
    ASSUME NEW A, NEW B, NEW C, NEW s, NEW t, Leads(A, s, B), Leads(B, t, C)
    PROVE  Leads(A, s \o t, C)
<1>1. PICK p : Path(p, s) /\ p[1] = A /\ p[Len(s) + 1] = B BY DEF Leads
<1>2. PICK q : Path(q, t) /\ q[1] = B /\ q[Len(t) + 1] = C BY DEF Leads
<1>3. IsSeq(s) /\ IsSeq(t) BY DEF Leads
<1> DEFINE n == Len(s)
           m == Len(t)
           u == s \o t
           w == [i \in 1 .. n + m + 1 |-> IF i <= n THEN p[i] ELSE q[i - n]]
<1>4. n \in Nat /\ m \in Nat BY <1>3, SeqIs
<1>5. /\ IsSeq(u) /\ Len(u) = n + m
      /\ \A i \in 1 .. n : u[i] = s[i]
      /\ \A i \in 1 .. m : u[n + i] = t[i]
  BY <1>3, ConcatIs
<1> HIDE DEF u
<1>6. w[1] = A
  <2>1. CASE n = 0
    <3>1. w[1] = q[1] BY <1>4, <2>1
    <3> QED BY <3>1, <2>1, <1>1, <1>2
  <2>2. CASE n # 0
    BY <1>1, <1>4, <2>2
  <2> QED BY <2>1, <2>2
<1>7. w[n + m + 1] = C BY <1>2, <1>4
<1>8. ASSUME NEW i \in 1 .. n + m PROVE Goes(w[i], u[i], w[i + 1])
  <2>1. CASE i < n
    <3>1. i \in 1 .. n /\ w[i] = p[i] /\ w[i + 1] = p[i + 1] /\ u[i] = s[i]
      BY <1>4, <1>5, <2>1
    <3> QED BY <1>1, <3>1 DEF Path
  <2>2. CASE i = n
    <3>1. i \in 1 .. n /\ w[i] = p[i] /\ w[i + 1] = q[1] /\ u[i] = s[i]
      BY <1>4, <1>5, <2>2
    <3>2. w[i + 1] = p[i + 1] BY <1>1, <1>2, <2>2, <3>1
    <3> QED BY <1>1, <3>1, <3>2 DEF Path
  <2>3. CASE i > n
    <3>1. i - n \in 1 .. m /\ w[i] = q[i - n] /\ w[i + 1] = q[i - n + 1]
      BY <1>4, <2>3
    <3>2. u[i] = t[i - n]
      <4>1. i = n + (i - n) BY <1>4
      <4> QED BY <1>5, <3>1, <4>1
    <3>3. Goes(q[i - n], t[i - n], q[i - n + 1]) BY <1>2, <3>1 DEF Path
    <3> QED BY <3>1, <3>2, <3>3
  <2> QED BY <1>4, <2>1, <2>2, <2>3
<1> HIDE DEF w, n, m
<1>9. Path(w, u) BY <1>5, <1>8 DEF Path
<1>10. Leads(A, u, C) BY <1>5, <1>6, <1>7, <1>9 DEF Leads
<1> QED BY <1>10 DEF u

LEMMA LeadsHead ==
    ASSUME NEW A, NEW E, NEW s, Leads(A, s, E), s # <<>>
    PROVE  \E B : Goes(A, Head(s), B) /\ Leads(B, Tail(s), E)
<1>1. PICK p : Path(p, s) /\ p[1] = A /\ p[Len(s) + 1] = E BY DEF Leads
<1>2. IsSeq(s) BY DEF Leads
<1> DEFINE n == Len(s)
           q == [i \in 1 .. n |-> p[i + 1]]
<1>3. /\ n \in Nat \ {0} /\ Head(s) = s[1] /\ IsSeq(Tail(s)) /\ Len(Tail(s)) = n - 1
      /\ \A i \in 1 .. n - 1 : Tail(s)[i] = s[i + 1]
  BY <1>2, SeqIs
<1>4. Goes(A, Head(s), p[2])
  <2>1. 1 \in 1 .. n /\ 1 + 1 = 2 BY <1>3
  <2>2. Goes(p[1], s[1], p[1 + 1]) BY <1>1, <2>1 DEF Path
  <2> QED BY <1>1, <1>3, <2>2
<1>5. q[1] = p[2] /\ q[Len(Tail(s)) + 1] = E
  <2>1. 1 \in 1 .. n /\ n \in 1 .. n /\ 1 + 1 = 2 /\ n - 1 + 1 = n BY <1>3
  <2> QED BY <1>1, <1>3, <2>1
<1>6. Path(q, Tail(s))
  <2> SUFFICES ASSUME NEW i \in 1 .. n - 1 PROVE Goes(q[i], Tail(s)[i], q[i + 1])
    BY <1>3 DEF Path
  <2>1. i \in 1 .. n /\ i + 1 \in 1 .. n BY <1>3
  <2>2. Goes(p[i + 1], s[i + 1], p[i + 1 + 1]) BY <1>1, <2>1 DEF Path
  <2> QED BY <1>3, <2>1, <2>2
<1> HIDE DEF q, n
<1>7. Leads(p[2], Tail(s), E) BY <1>3, <1>5, <1>6 DEF Leads
<1> QED BY <1>4, <1>7

LEMMA LeadsBy ==
    ASSUME NEW A, NEW B, NEW s, NEW n, NEW S, s \in Seq(S), Len(s) = n, NEW p,
           \A i \in 1 .. n : Goes(p[i], s[i], p[i + 1]), p[1] = A, p[n + 1] = B
    PROVE  Leads(A, s, B)
  BY DEF Leads, IsSeq, Path

LEMMA LeadsOne ==
    ASSUME NEW A, NEW B, NEW s,
           Goes(A, s, B)
    PROVE  Leads(A, <<s>>, B)
<1> DEFINE p == <<A, B>>
           code == <<s>>
<1>1. code \in Seq({s}) /\ Len(code) = 1 OBVIOUS
<1>2. ASSUME NEW i \in 1 .. 1 PROVE Goes(p[i], code[i], p[i + 1])
  <2>1. i = 1 /\ 1 + 1 = 2 OBVIOUS
  <2> QED BY <2>1
<1>3. p[1] = A /\ p[1 + 1] = B OBVIOUS
<1> HIDE DEF p, code
<1>4. Leads(A, code, B) BY <1>1, <1>2, <1>3, LeadsBy
<1> QED BY <1>4 DEF code

LEMMA LeadsTwo ==
    ASSUME NEW A, NEW B, NEW C, NEW s, NEW t,
           Goes(A, s, B), Goes(B, t, C)
    PROVE  Leads(A, <<s, t>>, C)
<1> DEFINE p == <<A, B, C>>
           code == <<s, t>>
<1>1. code \in Seq({s, t}) /\ Len(code) = 2 OBVIOUS
<1>2. ASSUME NEW i \in 1 .. 2 PROVE Goes(p[i], code[i], p[i + 1])
  <2>1. CASE i = 1
    <3>1. p[i] = A /\ code[i] = s /\ p[i + 1] = B BY <2>1
    <3> QED BY <3>1
  <2>2. CASE i = 2
    <3>1. p[i] = B /\ code[i] = t /\ p[i + 1] = C BY <2>2
    <3> QED BY <3>1
  <2> QED BY <2>1, <2>2
<1>3. p[1] = A /\ p[2 + 1] = C OBVIOUS
<1> HIDE DEF p, code
<1>4. Leads(A, code, C) BY <1>1, <1>2, <1>3, LeadsBy
<1> QED BY <1>4 DEF code

LEMMA LeadsThree ==
    ASSUME NEW A, NEW B, NEW C, NEW D, NEW s, NEW t, NEW u,
           Goes(A, s, B), Goes(B, t, C), Goes(C, u, D)
    PROVE  Leads(A, <<s, t, u>>, D)
<1> DEFINE p == <<A, B, C, D>>
           code == <<s, t, u>>
<1>1. code \in Seq({s, t, u}) /\ Len(code) = 3 OBVIOUS
<1>2. ASSUME NEW i \in 1 .. 3 PROVE Goes(p[i], code[i], p[i + 1])
  <2>1. CASE i = 1
    <3>1. p[i] = A /\ code[i] = s /\ p[i + 1] = B BY <2>1
    <3> QED BY <3>1
  <2>2. CASE i = 2
    <3>1. p[i] = B /\ code[i] = t /\ p[i + 1] = C BY <2>2
    <3> QED BY <3>1
  <2>3. CASE i = 3
    <3>1. p[i] = C /\ code[i] = u /\ p[i + 1] = D BY <2>3
    <3> QED BY <3>1
  <2> QED BY <2>1, <2>2, <2>3
<1>3. p[1] = A /\ p[3 + 1] = D OBVIOUS
<1> HIDE DEF p, code
<1>4. Leads(A, code, D) BY <1>1, <1>2, <1>3, LeadsBy
<1> QED BY <1>4 DEF code

LEMMA LeadsFour ==
    ASSUME NEW A, NEW B, NEW C, NEW D, NEW E, NEW s, NEW t, NEW u, NEW v,
           Goes(A, s, B), Goes(B, t, C), Goes(C, u, D), Goes(D, v, E)
    PROVE  Leads(A, <<s, t, u, v>>, E)
<1> DEFINE p == <<A, B, C, D, E>>
           code == <<s, t, u, v>>
<1>1. code \in Seq({s, t, u, v}) /\ Len(code) = 4 OBVIOUS
<1>2. ASSUME NEW i \in 1 .. 4 PROVE Goes(p[i], code[i], p[i + 1])
  <2>1. CASE i = 1
    <3>1. p[i] = A /\ code[i] = s /\ p[i + 1] = B BY <2>1
    <3> QED BY <3>1
  <2>2. CASE i = 2
    <3>1. p[i] = B /\ code[i] = t /\ p[i + 1] = C BY <2>2
    <3> QED BY <3>1
  <2>3. CASE i = 3
    <3>1. p[i] = C /\ code[i] = u /\ p[i + 1] = D BY <2>3
    <3> QED BY <3>1
  <2>4. CASE i = 4
    <3>1. p[i] = D /\ code[i] = v /\ p[i + 1] = E BY <2>4
    <3> QED BY <3>1
  <2> QED BY <2>1, <2>2, <2>3, <2>4
<1>3. p[1] = A /\ p[4 + 1] = E OBVIOUS
<1> HIDE DEF p, code
<1>4. Leads(A, code, E) BY <1>1, <1>2, <1>3, LeadsBy
<1> QED BY <1>4 DEF code

LEMMA LeadsFive ==
    ASSUME NEW A, NEW B, NEW C, NEW D, NEW E, NEW F, NEW s, NEW t, NEW u, NEW v, NEW w,
           Goes(A, s, B), Goes(B, t, C), Goes(C, u, D), Goes(D, v, E), Goes(E, w, F)
    PROVE  Leads(A, <<s, t, u, v, w>>, F)
<1> DEFINE p == <<A, B, C, D, E, F>>
           code == <<s, t, u, v, w>>
<1>1. code \in Seq({s, t, u, v, w}) /\ Len(code) = 5 OBVIOUS
<1>2. ASSUME NEW i \in 1 .. 5 PROVE Goes(p[i], code[i], p[i + 1])
  <2>1. CASE i = 1
    <3>1. p[i] = A /\ code[i] = s /\ p[i + 1] = B BY <2>1
    <3> QED BY <3>1
  <2>2. CASE i = 2
    <3>1. p[i] = B /\ code[i] = t /\ p[i + 1] = C BY <2>2
    <3> QED BY <3>1
  <2>3. CASE i = 3
    <3>1. p[i] = C /\ code[i] = u /\ p[i + 1] = D BY <2>3
    <3> QED BY <3>1
  <2>4. CASE i = 4
    <3>1. p[i] = D /\ code[i] = v /\ p[i + 1] = E BY <2>4
    <3> QED BY <3>1
  <2>5. CASE i = 5
    <3>1. p[i] = E /\ code[i] = w /\ p[i + 1] = F BY <2>5
    <3> QED BY <3>1
  <2> QED BY <2>1, <2>2, <2>3, <2>4, <2>5
<1>3. p[1] = A /\ p[5 + 1] = F OBVIOUS
<1> HIDE DEF p, code
<1>4. Leads(A, code, F) BY <1>1, <1>2, <1>3, LeadsBy
<1> QED BY <1>4 DEF code

-----------------------------------------------------------------------------
(***************************************************************************)
(* What a claim says of a state, and that it is so after each step.        *)
(***************************************************************************)
RegsHold(A, good) ==
    /\ \A r \in good : local[r] \subseteq DOMAIN heap
    /\ \A r \in good : \A kind : <<r, kind>> \in A.kinds => IsA(heap, local[r], kind)

RootsHold(A) == /\ \A r \in A.held : HeldBy(heap, Full, local[r])
                /\ \A r \in A.base : HeldBy(heap, Below, local[r])

PlaceHolds(A) ==
    /\ (A.off => ~ allowed) /\ (A.room => Len(stack) < capacity)
    /\ (A.free => ModuleText \notin program.texts)
    /\ A.low <= Len(stack) /\ A.depth <= Len(stack)
    /\ \A i \in DOMAIN frames : frames[i].base + A.depth < Len(stack)
    /\ \A u \in open : u.slot + A.depth < Len(stack)

TextsHold(A) == \A t \in A.texts : Interned(t) # {} /\ HeldBy(heap, Full, Interned(t))

Holds(A, good) == RegsHold(A, good) /\ RootsHold(A) /\ PlaceHolds(A) /\ TextsHold(A)

\* The code that is left can be followed to its end.
Planned == todo # <<>> =>
    \E A, E : Leads(A, todo, E) /\ Holds(A, Alive(A, Head(todo)))

Ready(A, B) == /\ Kept /\ Typed /\ Strung /\ Sound /\ todo # <<>> /\ phase # "mark"
               /\ Goes(A, Step, B) /\ Holds(A, Alive(A, Step))
Done(B) == Sound /\ (todo # <<>> => Holds(B, B.ok))

LEMMA HeapSame ==
    ASSUME heap' = heap, program' = program, HeapIsSound(heap)
    PROVE  HeapIsSound(heap)'
  BY DEF HeapIsSound, FieldIsSound, Complete

LEMMA HandSame ==
    ASSUME heap' = heap, UNCHANGED <<stack, frames, globals, open, exception, named>>, HandIsSound
    PROVE  HandIsSound'
<1>1. InHand' = InHand BY DEF InHand, Held
<1> QED BY <1>1 DEF HandIsSound, IsA, NamesModule

LEMMA UnderSame ==
    ASSUME UNCHANGED <<stack, frames, globals, open, exception, named>>
    PROVE  Full' = Full /\ Below' = Below /\ Others' = Others
<1>1. Held' = Held BY DEF Held
<1>2. Others' = Others BY <1>1 DEF Others
<1> QED BY <1>2 DEF Full, Below, Under

LEMMA OthersSame ==
    ASSUME UNCHANGED <<frames, globals, open, exception, named>>
    PROVE  Others' = Others
  BY DEF Others, Held

LEMMA StackSame ==
    ASSUME UNCHANGED <<stack, capacity, frames, open>>, StackIsSound
    PROVE  StackIsSound'
  BY DEF StackIsSound, IsSeq

\* The variables of the code, when it goes on.
LEMMA LocalSame ==
    ASSUME ControlIsSound, Proceed, allowed' \in BOOLEAN, phase # "mark"
    PROVE  ControlIsSound' /\ (todo' # <<>> => local' = local) /\ todo' = Tail(todo)
           /\ program' = program /\ phase' = "idle"
<1>1. NoLocals \in [Registers -> SUBSET Obj] BY DEF NoLocals
<1> QED BY <1>1 DEF Proceed, GoOn, ControlIsSound

LEMMA LocalSet ==
    ASSUME NEW to \in Registers, NEW v, v \subseteq Obj, ControlIsSound,
           GoOn(Tail(todo), [local EXCEPT ![to] = v]), allowed' \in BOOLEAN, phase # "mark"
    PROVE  ControlIsSound' /\ todo' = Tail(todo) /\ program' = program /\ phase' = "idle"
           /\ (todo' # <<>> => /\ local'[to] = v
                               /\ \A r \in Registers : r # to => local'[r] = local[r])
<1>1. NoLocals \in [Registers -> SUBSET Obj] BY DEF NoLocals
<1>2. [local EXCEPT ![to] = v] \in [Registers -> SUBSET Obj] BY DEF ControlIsSound
<1> QED BY <1>1, <1>2 DEF GoOn, ControlIsSound

LEMMA RegsSame ==
    ASSUME NEW A, NEW B, NEW good, RegsHold(A, good), B.ok \subseteq good, B.kinds \subseteq A.kinds,
           heap' = heap, local' = local
    PROVE  RegsHold(B, B.ok)'
<1>1. RegsHold(B, B.ok) BY DEF RegsHold
<1> QED BY <1>1 DEF RegsHold

LEMMA RootsSame ==
    ASSUME NEW A, NEW B, RootsHold(A), SameHeld(A, B), heap' = heap, local' = local,
           Full' = Full, Below' = Below
    PROVE  RootsHold(B)'
  BY DEF RootsHold, SameHeld, HeldBy, Closes

LEMMA NoneHeldHolds == ASSUME NEW B, NoneHeld(B) PROVE RootsHold(B)'
  BY DEF RootsHold, NoneHeld

LEMMA NoTexts == ASSUME NEW B, B.texts = {} PROVE TextsHold(B)'
  BY DEF TextsHold

LEMMA PlaceSame ==
    ASSUME NEW A, NEW B, PlaceHolds(A), SameGc(A, B), SameStack(A, B), B.free => A.free,
           Sane(A), Sane(B), StackIsSound, IsSeq(stack),
           UNCHANGED <<program, allowed, stack, capacity, frames, open>>
    PROVE  PlaceHolds(B)'
<1>1. Len(stack) \in Nat BY SeqIs
<1>2. A.depth \in Nat /\ B.depth \in Nat /\ A.low \in Nat /\ B.low \in Nat BY DEF Sane
<1>3. /\ \A i \in DOMAIN frames : frames[i].base \in Nat
      /\ \A u \in open : u.slot \in Nat
  BY DEF StackIsSound
<1>4. PlaceHolds(B)
  <2>1. \A x \in Nat : x + A.depth < Len(stack) => x + B.depth < Len(stack)
    BY <1>1, <1>2 DEF SameStack
  <2>2. B.low <= Len(stack) /\ B.depth <= Len(stack) BY <1>1, <1>2 DEF SameStack, PlaceHolds
  <2> QED BY <1>3, <2>1, <2>2 DEF PlaceHolds, SameGc
<1> QED BY <1>4 DEF PlaceHolds

\* Steps that change neither the heap nor the roots nor a variable.
LEMMA QuietGoes ==
    ASSUME NEW A, NEW B, Ready(A, B), DoBlock \/ DoUse \/ DoRemember
    PROVE  Done(B)'
<1>1. Step.op \in {"block", "use", "remember"} BY DEF DoBlock, DoUse, DoRemember, Doing, Step
<1>2. GoesQuiet(A, Step, B) /\ Sane(A) /\ Sane(B) /\ B.texts = {} /\ (B.free => A.free)
  BY <1>1 DEF Ready, Goes, GoesQuiet, GoesNew, GoesIntern, GoesPush, GoesDrop, GoesReplace,
              GoesPut, GoesAllow, GoesFetch, GoesDefine, GoesEnter, GoesLink, GoesThrow
<1>3. Proceed /\ UNCHANGED <<heap, allowed, program_vars>>
  BY DEF DoBlock, DoUse, DoRemember, heap_vars
<1>4. UNCHANGED <<stack, capacity, frames, globals, open, exception, named>>
  BY <1>3 DEF program_vars
<1>5. ControlIsSound' /\ (todo' # <<>> => local' = local) /\ program' = program
  BY <1>3, LocalSame DEF Ready, Sound, ControlIsSound
<1>6. Sound' BY <1>3, <1>4, <1>5, HeapSame, HandSame, StackSame DEF Ready, Sound
<1>7. ASSUME todo' # <<>> PROVE Holds(B, B.ok)'
  <2>1. RegsHold(B, B.ok)'
    BY <1>2, <1>3, <1>5, <1>7, RegsSame DEF GoesQuiet, SameVariables, Ready, Holds
  <2>2. RootsHold(B)'
    BY <1>2, <1>3, <1>4, <1>5, <1>7, RootsSame, UnderSame DEF GoesQuiet, Ready, Holds
  <2>3. PlaceHolds(B)'
    BY <1>2, <1>3, <1>4, <1>5, PlaceSame DEF GoesQuiet, Ready, Holds, Sound, Typed
  <2> QED BY <1>2, <2>1, <2>2, <2>3, NoTexts DEF Holds
<1> QED BY <1>6, <1>7 DEF Done

LEMMA FullIsNext == ASSUME IsSeq(stack') PROVE Full' = InHand' /\ Below' \subseteq Full'
<1>1. PICK S : stack' \in Seq(S) BY DEF IsSeq
<1>2. Len(stack') \in Nat /\ DOMAIN stack' = 1 .. Len(stack') BY <1>1
<1>3. DOMAIN Held' = {"stack", "frames", "upvalues", "globals", "exception", "names"}
  BY DEF Held
<1>4. InHand' = Held'["stack"] \cup Others' BY <1>3 DEF InHand, Others, Range
<1>5. Held'["stack"] = UNION {stack'[i] : i \in 1 .. Len(stack')}
  <2>1. Held'["stack"] = UNION ToSet(stack') BY DEF Held
  <2> QED BY <1>2, <2>1 DEF ToSet, Range
<1>6. 1 .. Len(stack') - 1 \subseteq 1 .. Len(stack') BY <1>2
<1> QED BY <1>4, <1>5, <1>6 DEF Full, Below, Under

LEMMA GoesIs ==
    ASSUME NEW A, NEW B, NEW s, Goes(A, s, B)
    PROVE  /\ Sane(A) /\ Sane(B) /\ B.texts = {} /\ (B.free => A.free)
           /\ s.to \in Registers /\ s.from \subseteq Alive(A, s)
           /\ s.op = "new" => GoesNew(A, s, B)
           /\ s.op \in {"intern", "copy"} => GoesIntern(A, s, B)
           /\ s.op = "push" => GoesPush(A, s, B)
           /\ s.op = "drop" => GoesDrop(A, s, B)
           /\ s.op = "replace" => GoesReplace(A, s, B)
           /\ s.op = "put" => GoesPut(A, s, B)
           /\ s.op = "allow" => GoesAllow(A, s, B)
           /\ s.op = "fetch" => GoesFetch(A, s, B)
           /\ s.op = "define" => GoesDefine(A, s, B)
           /\ s.op = "enter" => GoesEnter(A, s, B)
           /\ s.op = "link" => GoesLink(A, s, B)
           /\ s.op = "throw" => GoesThrow(A, s, B)
<1>1. \/ s.op \in {"block", "use", "remember"}
      \/ GoesNew(A, s, B) \/ GoesIntern(A, s, B)
      \/ GoesPush(A, s, B) \/ GoesDrop(A, s, B) \/ GoesReplace(A, s, B)
      \/ GoesPut(A, s, B) \/ GoesAllow(A, s, B) \/ GoesFetch(A, s, B)
      \/ GoesDefine(A, s, B) \/ GoesEnter(A, s, B) \/ GoesLink(A, s, B)
      \/ GoesThrow(A, s, B)
  BY DEF Goes, GoesQuiet
<1>3. /\ (GoesNew(A, s, B) => s.op = "new")
      /\ (GoesIntern(A, s, B) => s.op \in {"intern", "copy"})
      /\ (GoesPush(A, s, B) => s.op = "push")
      /\ (GoesDrop(A, s, B) => s.op = "drop")
      /\ (GoesReplace(A, s, B) => s.op = "replace")
      /\ (GoesPut(A, s, B) => s.op = "put")
      /\ (GoesAllow(A, s, B) => s.op = "allow")
      /\ (GoesFetch(A, s, B) => s.op = "fetch")
      /\ (GoesDefine(A, s, B) => s.op = "define")
      /\ (GoesEnter(A, s, B) => s.op = "enter")
      /\ (GoesLink(A, s, B) => s.op = "link")
      /\ (GoesThrow(A, s, B) => s.op = "throw")
  BY DEF GoesNew, GoesIntern, GoesPush, GoesDrop, GoesReplace, GoesPut, GoesAllow, GoesFetch,
         GoesDefine, GoesEnter, GoesLink, GoesThrow
<1> QED BY <1>1, <1>3 DEF Goes

\* The values a step reads are on the heap.
LEMMA ReadsAreKept ==
    ASSUME NEW A, NEW B, Ready(A, B)
    PROVE  /\ Values(Step.from) \subseteq DOMAIN heap
           /\ \A r \in Step.from : r \in Alive(A, Step) /\ local[r] \subseteq Values(Step.from)
           /\ \A from : from \subseteq Step.from => Values(from) \subseteq DOMAIN heap
<1>1. Step.from \subseteq Alive(A, Step) BY GoesIs DEF Ready
<1>2. \A r \in Alive(A, Step) : local[r] \subseteq DOMAIN heap BY DEF Ready, Holds, RegsHold
<1> QED BY <1>1, <1>2 DEF Values

LEMMA PushUnder ==
    ASSUME IsSeq(stack), NEW v, stack' = Append(stack, v),
           UNCHANGED <<frames, globals, open, exception, named>>
    PROVE  /\ Full' = Full \cup v /\ Below' = Full
           /\ Len(stack') = Len(stack) + 1 /\ IsSeq(stack')
<1>1. PICK S : stack \in Seq(S) BY DEF IsSeq
<1> DEFINE n == Len(stack)
<1>2. n \in Nat /\ DOMAIN stack = 1 .. n BY <1>1
<1>3. /\ Len(stack') = n + 1 /\ stack'[n + 1] = v
      /\ \A i \in 1 .. n : stack'[i] = stack[i]
  <2>1. stack \in Seq(S \cup {v}) BY <1>1, SeqMonotonic
  <2> QED BY <2>1, AppendProperties
<1>4. Others' = Others BY OthersSame
<1>5. UNION {stack'[i] : i \in 1 .. n} = UNION {stack[i] : i \in 1 .. n} BY <1>3
<1>6. UNION {stack'[i] : i \in 1 .. n + 1} = (UNION {stack[i] : i \in 1 .. n}) \cup v
  <2>1. 1 .. n + 1 = (1 .. n) \cup {n + 1} BY <1>2
  <2> QED BY <1>3, <1>5, <2>1
<1>7. n + 1 - 1 = n BY <1>2
<1> HIDE DEF n
<1>9. Full' = Full \cup v BY <1>3, <1>4, <1>6 DEF Under, Full, n
<1>10. Below' = Full BY <1>3, <1>4, <1>5, <1>7 DEF Under, Full, Below, n
<1> QED BY <1>3, <1>9, <1>10, SeqAppend DEF n

\* push, which grows a full stack and then allows collection.
LEMMA PushGoes ==
    ASSUME NEW A, NEW B, Ready(A, B), DoPush
    PROVE  Done(B)'
<1> DEFINE v == Values(Step.from)
<1>1. Step.op = "push" BY DEF DoPush, Doing, Step
<1>2. GoesPush(A, Step, B) /\ Sane(A) /\ Sane(B) /\ B.texts = {} /\ (B.free => A.free)
  BY <1>1, GoesIs DEF Ready
<1>3. Proceed /\ stack' = Append(stack, v)
      /\ UNCHANGED <<heap, frames, globals, open, exception, named>>
      /\ capacity' = (IF Len(stack) >= capacity THEN 2 * capacity ELSE capacity)
      /\ allowed' = (allowed \/ Len(stack) >= capacity)
  BY DEF DoPush, heap_vars
<1>4. v \subseteq DOMAIN heap BY ReadsAreKept
<1>5. IsSeq(stack) /\ Len(stack) \in Nat BY SeqIs DEF Ready, Typed
<1>6. capacity \in Nat \ {0} /\ Len(stack) <= capacity BY DEF Ready, Sound, StackIsSound
<1> HIDE DEF v
<1>7. allowed' \in BOOLEAN BY <1>3 DEF Ready, Sound, ControlIsSound
<1>8. ControlIsSound' /\ (todo' # <<>> => local' = local) /\ program' = program
  BY <1>3, <1>7, LocalSame DEF Ready, Sound
<1>9. /\ Full' = Full \cup v /\ Below' = Full
      /\ Len(stack') = Len(stack) + 1 /\ IsSeq(stack')
  BY <1>3, <1>5, PushUnder
<1>10. HandIsSound'
  <2>1. InHand' = InHand \cup v BY <1>5, <1>9, FullIs, FullIsNext
  <2> QED BY <1>3, <1>4, <2>1 DEF HandIsSound, Ready, Sound
<1>11. StackIsSound'
  <2>1. capacity' \in Nat \ {0} /\ Len(stack') <= capacity' BY <1>3, <1>5, <1>6, <1>9
  <2>2. \A x \in Nat : x < Len(stack) => x < Len(stack') BY <1>5, <1>9
  <2> QED BY <1>3, <2>1, <2>2 DEF StackIsSound, Ready, Sound
<1>12. Sound' BY <1>3, <1>8, <1>10, <1>11, HeapSame DEF Ready, Sound
<1>13. ASSUME todo' # <<>> PROVE Holds(B, B.ok)'
  <2>1. RegsHold(B, B.ok)'
    BY <1>2, <1>3, <1>8, <1>13, RegsSame DEF GoesPush, SameVariables, Ready, Holds
  <2>2. RootsHold(B)'
    <3>1. \A r \in A.held : HeldBy(heap, Full, local[r]) BY DEF Ready, Holds, RootsHold
    <3>2. \A r \in A.held : HeldBy(heap, Full \cup v, local[r]) BY <3>1, HeldMore
    <3>3. \A r \in Step.from : HeldBy(heap, Full \cup v, local[r])
      <4>1. \A r \in Step.from : local[r] \subseteq Full \cup v BY ReadsAreKept DEF v
      <4> QED BY <4>1, HeldRoots
    <3> QED BY <1>2, <1>3, <1>8, <1>9, <1>13, <3>1, <3>2, <3>3 DEF RootsHold, GoesPush
  <2>3. PlaceHolds(B)'
    <3>1. A.depth \in Nat /\ B.depth \in Nat /\ A.low \in Nat /\ B.low \in Nat BY <1>2 DEF Sane
    <3>2. /\ \A i \in DOMAIN frames : frames[i].base \in Nat
          /\ \A u \in open : u.slot \in Nat
      BY DEF Ready, Sound, StackIsSound
    <3>3. \A x \in Nat : x + A.depth < Len(stack) => x + B.depth < Len(stack')
      BY <1>2, <1>5, <1>9, <3>1 DEF GoesPush
    <3>4. B.low <= Len(stack') /\ B.depth <= Len(stack')
      BY <1>2, <1>5, <1>9, <3>1 DEF GoesPush, Ready, Holds, PlaceHolds
    <3>5. B.off => ~ allowed'
      <4>1. A.room => ~ (Len(stack) >= capacity)
        BY <1>5, <1>6 DEF Ready, Holds, PlaceHolds
      <4>2. A.off => ~ allowed BY DEF Ready, Holds, PlaceHolds
      <4> QED BY <1>2, <1>3, <4>1, <4>2 DEF GoesPush
    <3>6. ~ B.room BY <1>2 DEF GoesPush
    <3> QED BY <1>2, <1>3, <1>8, <3>2, <3>3, <3>4, <3>5, <3>6 DEF PlaceHolds, Ready, Holds
  <2> QED BY <1>2, <2>1, <2>2, <2>3, NoTexts DEF Holds
<1> QED BY <1>12, <1>13 DEF Done

LEMMA DropUnder ==
    ASSUME IsSeq(stack), NEW n \in Nat, n <= Len(stack), stack' = SubSeq(stack, 1, Len(stack) - n),
           UNCHANGED <<frames, globals, open, exception, named>>
    PROVE  /\ Full' = Under(Len(stack) - n)
           /\ Below' = Under(Len(stack) - n - 1)
           /\ Len(stack') = Len(stack) - n /\ IsSeq(stack')
           /\ \A m \in Int : m <= Len(stack) => Under(m) \subseteq Full
<1>1. PICK S : stack \in Seq(S) BY DEF IsSeq
<1>2. Len(stack) \in Nat BY <1>1
<1> DEFINE m == Len(stack) - n
<1>3. m \in Nat /\ m <= Len(stack) BY <1>2
<1> HIDE DEF m
<1>4. /\ stack' \in Seq(S) /\ Len(stack') = m
      /\ \A i \in 1 .. m : stack'[i] = stack[i]
  <2>1. stack' = SubSeq(stack, 1, m) BY DEF m
  <2>2. 1 .. m \subseteq 1 .. Len(stack) BY <1>2, <1>3
  <2> QED BY <1>1, <1>2, <1>3, <2>1, <2>2, SubSeqProperties
<1>5. Others' = Others BY OthersSame
<1>6. UNION {stack'[i] : i \in 1 .. m} = UNION {stack[i] : i \in 1 .. m} BY <1>4
<1>7. UNION {stack'[i] : i \in 1 .. m - 1} = UNION {stack[i] : i \in 1 .. m - 1}
  <2>1. 1 .. m - 1 \subseteq 1 .. m BY <1>3
  <2> QED BY <1>4, <2>1
<1>8. \A k \in Int : k <= Len(stack) => 1 .. k \subseteq 1 .. Len(stack) BY <1>2
<1>9. \A k \in Int : k <= Len(stack) => Under(k) \subseteq Full BY <1>8 DEF Under, Full
<1>10. Full' = Under(m) /\ Below' = Under(m - 1)
  BY <1>4, <1>5, <1>6, <1>7 DEF Full, Below, Under
<1> QED BY <1>4, <1>9, <1>10 DEF IsSeq, m

\* pop and popn.
LEMMA DropGoes ==
    ASSUME NEW A, NEW B, Ready(A, B), DoDrop
    PROVE  Done(B)'
<1> DEFINE n == Step.arg
<1>1. Step.op = "drop" BY DEF DoDrop, Doing, Step
<1>2. GoesDrop(A, Step, B) /\ Sane(A) /\ Sane(B) /\ B.texts = {} /\ (B.free => A.free)
  BY <1>1, GoesIs DEF Ready
<1>3. Proceed /\ stack' = SubSeq(stack, 1, Len(stack) - n)
      /\ UNCHANGED <<heap, allowed, capacity, frames, globals, open, exception, named>>
  BY DEF DoDrop, heap_vars
<1>5. IsSeq(stack) /\ Len(stack) \in Nat BY SeqIs DEF Ready, Typed
<1>6. capacity \in Nat \ {0} /\ Len(stack) <= capacity BY DEF Ready, Sound, StackIsSound
<1>7. n \in Nat /\ n <= A.depth /\ A.depth \in Nat /\ A.depth <= Len(stack)
  BY <1>2 DEF GoesDrop, Sane, Ready, Holds, PlaceHolds
<1>8. n <= Len(stack) BY <1>5, <1>7
<1> HIDE DEF n
<1>9. ControlIsSound' /\ (todo' # <<>> => local' = local) /\ program' = program
  BY <1>3, LocalSame DEF Ready, Sound, ControlIsSound
<1>10. /\ Full' = Under(Len(stack) - n) /\ Below' = Under(Len(stack) - n - 1)
       /\ Len(stack') = Len(stack) - n /\ IsSeq(stack')
       /\ \A m \in Int : m <= Len(stack) => Under(m) \subseteq Full
  BY <1>3, <1>5, <1>7, <1>8, DropUnder
<1>11. HandIsSound'
  <2>1. Full' \subseteq Full BY <1>5, <1>7, <1>10
  <2>2. InHand' \subseteq InHand BY <1>5, <1>10, <2>1, FullIs, FullIsNext
  <2> QED BY <1>3, <2>2 DEF HandIsSound, Ready, Sound
<1>12. /\ \A i \in DOMAIN frames : frames[i].base \in Nat /\ frames[i].base + A.depth < Len(stack)
       /\ \A u \in open : u.slot \in Nat /\ u.slot + A.depth < Len(stack)
  BY DEF Ready, Sound, StackIsSound, Holds, PlaceHolds
<1>13. StackIsSound'
  <2>1. capacity' \in Nat \ {0} /\ Len(stack') <= capacity' BY <1>3, <1>5, <1>6, <1>7, <1>10
  <2>2. \A x \in Nat : x + A.depth < Len(stack) => x < Len(stack') BY <1>5, <1>7, <1>10
  <2> QED BY <1>3, <1>12, <2>1, <2>2 DEF StackIsSound, Ready, Sound
<1>14. Sound' BY <1>3, <1>9, <1>11, <1>13, HeapSame DEF Ready, Sound
<1>15. ASSUME todo' # <<>> PROVE Holds(B, B.ok)'
  <2>1. RegsHold(B, B.ok)'
    BY <1>2, <1>3, <1>9, <1>15, RegsSame DEF GoesDrop, SameVariables, Ready, Holds
  <2>2. RootsHold(B)'
    <3>1. CASE NoneHeld(B) BY <3>1, NoneHeldHolds
    <3>2. CASE n = 0 /\ SameHeld(A, B)
      <4>1. Full' = Full /\ Below' = Below BY <1>5, <1>10, <3>2 DEF Full, Below
      <4> QED BY <1>3, <1>9, <1>15, <3>2, <4>1, RootsSame DEF Ready, Holds
    <3>3. CASE n = 1 /\ B.held \subseteq A.base /\ B.base = {}
      <4>1. Full' = Below BY <1>5, <1>10, <3>3 DEF Below
      <4> QED BY <1>3, <1>9, <1>15, <3>3, <4>1 DEF RootsHold, Ready, Holds
    <3> QED BY <1>2, <3>1, <3>2, <3>3 DEF GoesDrop, n
  <2>3. PlaceHolds(B)'
    <3>1. B.depth \in Nat /\ A.low \in Nat /\ B.low \in Nat BY <1>2 DEF Sane
    <3>2. B.depth <= A.depth - n /\ B.low <= A.low - n BY <1>2 DEF GoesDrop, n
    <3>3. \A x \in Nat : x + A.depth < Len(stack) => x + B.depth < Len(stack')
      BY <1>5, <1>7, <1>10, <3>1, <3>2
    <3>4. B.low <= Len(stack') /\ B.depth <= Len(stack')
      BY <1>5, <1>7, <1>10, <3>1, <3>2 DEF Ready, Holds, PlaceHolds
    <3>5. B.off => A.off BY <1>2 DEF GoesDrop, SameGc
    <3>6. B.room => Len(stack') < capacity'
      <4>1. CASE n = 0
        <5>1. B.room => A.room BY <1>2, <4>1 DEF GoesDrop, SameGc, n
        <5>2. A.room => Len(stack) < capacity BY DEF Ready, Holds, PlaceHolds
        <5>3. Len(stack') = Len(stack) BY <1>5, <1>10, <4>1
        <5> QED BY <1>3, <5>1, <5>2, <5>3
      <4>2. CASE n # 0 BY <1>3, <1>5, <1>6, <1>7, <1>10, <4>2
      <4> QED BY <4>1, <4>2
    <3> QED BY <1>2, <1>3, <1>9, <1>12, <3>3, <3>4, <3>5, <3>6 DEF PlaceHolds, Ready, Holds
  <2> QED BY <1>2, <2>1, <2>2, <2>3, NoTexts DEF Holds
<1> QED BY <1>14, <1>15 DEF Done

\* An operand that is replaced in its slot.
LEMMA ReplaceGoes ==
    ASSUME NEW A, NEW B, Ready(A, B), DoReplace
    PROVE  Done(B)'
<1> DEFINE d == Step.arg
           n == Len(stack)
           v == Values(Step.from)
<1>1. Step.op = "replace" BY DEF DoReplace, Doing, Step
<1>2. GoesReplace(A, Step, B) /\ Sane(A) /\ Sane(B) /\ B.texts = {} /\ (B.free => A.free)
  BY <1>1, GoesIs DEF Ready
<1>3. Proceed /\ stack' = [stack EXCEPT ![n - d] = v]
      /\ UNCHANGED <<heap, allowed, capacity, frames, globals, open, exception, named>>
  BY DEF DoReplace, heap_vars
<1>4. v \subseteq DOMAIN heap BY ReadsAreKept
<1>5. IsSeq(stack) /\ n \in Nat /\ DOMAIN stack = 1 .. n BY SeqIs DEF Ready, Typed
<1>6. d \in Nat /\ d < n
  <2>1. d \in Nat /\ d < A.depth /\ A.depth \in Nat /\ A.depth <= n
    BY <1>2 DEF GoesReplace, Sane, Ready, Holds, PlaceHolds
  <2> QED BY <1>5, <2>1
<1>7. /\ IsSeq(stack') /\ Len(stack') = n /\ stack'[n - d] = v
      /\ \A i \in 1 .. n : i # n - d => stack'[i] = stack[i]
  <2>1. IsSeq(stack') BY <1>3, <1>5, SeqChanged
  <2>2. DOMAIN stack' = 1 .. n BY <1>3, <1>5
  <2>3. Len(stack') = n BY <1>5, <2>1, <2>2, SeqIs
  <2> QED BY <1>3, <1>5, <1>6, <2>1, <2>3
<1>8. Others' = Others BY <1>3, OthersSame
<1> HIDE DEF v, d, n
<1>9. ControlIsSound' /\ (todo' # <<>> => local' = local) /\ program' = program
  BY <1>3, LocalSame DEF Ready, Sound, ControlIsSound
<1>10. Full' \subseteq Full \cup v
  <2>1. \A i \in 1 .. n : stack'[i] = v \/ stack'[i] = stack[i] BY <1>5, <1>6, <1>7
  <2>2. UNION {stack'[i] : i \in 1 .. n} \subseteq v \cup (UNION {stack[i] : i \in 1 .. n})
    BY <2>1
  <2> QED BY <1>7, <1>8, <2>2 DEF Full, Under, n
<1>11. HandIsSound'
  <2>1. InHand' \subseteq InHand \cup v BY <1>5, <1>7, <1>10, FullIs, FullIsNext
  <2> QED BY <1>3, <1>4, <2>1 DEF HandIsSound, Ready, Sound
<1>12. StackIsSound' BY <1>3, <1>7 DEF StackIsSound, Ready, Sound
<1>13. Sound' BY <1>3, <1>9, <1>11, <1>12, HeapSame DEF Ready, Sound
<1>14. ASSUME todo' # <<>> PROVE Holds(B, B.ok)'
  <2>1. RegsHold(B, B.ok)'
    BY <1>2, <1>3, <1>9, <1>14, RegsSame DEF GoesReplace, SameVariables, Ready, Holds
  <2>2. RootsHold(B)'
    <3>1. v \subseteq Full'
      <4>0. n - d \in 1 .. n BY <1>5, <1>6
      <4>1. n - d \in 1 .. Len(stack') BY <1>7, <4>0
      <4>2. v \subseteq UNION {stack'[i] : i \in 1 .. Len(stack')} BY <1>7, <4>1
      <4> QED BY <4>2 DEF Full, Under
    <3>2. \A r \in Step.from : HeldBy(heap, Full', local[r])
      <4>1. \A r \in Step.from : local[r] \subseteq Full' BY <3>1, ReadsAreKept DEF v
      <4> QED BY <4>1, HeldRoots
    <3>3. d = 0 => Below' = Below /\ Below \subseteq Full'
      <4>1. SUFFICES ASSUME d = 0 PROVE Below' = Below /\ Below \subseteq Full' OBVIOUS
      <4>0. \A i \in 1 .. n - 1 : i \in 1 .. n /\ i # n - d BY <1>5, <4>1
      <4>2. \A i \in 1 .. n - 1 : i \in 1 .. n /\ stack'[i] = stack[i] BY <1>7, <4>0
      <4>3. UNION {stack'[i] : i \in 1 .. n - 1} = UNION {stack[i] : i \in 1 .. n - 1} BY <4>2
      <4>4. Below' = Below BY <1>7, <1>8, <4>3 DEF Below, Under, n
      <4> QED BY <1>7, <4>4, FullIsNext
    <3>4. d = 0 => \A r \in A.base : HeldBy(heap, Below', local[r]) /\ HeldBy(heap, Full', local[r])
      <4>1. \A r \in A.base : HeldBy(heap, Below, local[r]) BY DEF Ready, Holds, RootsHold
      <4> QED BY <3>3, <4>1, HeldMore
    <3> QED BY <1>2, <1>3, <1>9, <1>14, <3>2, <3>4 DEF RootsHold, GoesReplace, d
  <2>3. PlaceHolds(B)'
    <3>1. /\ A.depth \in Nat /\ B.depth \in Nat /\ A.low \in Nat /\ B.low \in Nat
          /\ B.depth <= A.depth /\ B.low <= A.low /\ SameGc(A, B)
      BY <1>2 DEF Sane, GoesReplace, SameStack
    <3>2. /\ \A i \in DOMAIN frames : frames[i].base \in Nat
          /\ \A u \in open : u.slot \in Nat
      BY DEF Ready, Sound, StackIsSound
    <3>3. \A x \in Nat : x + A.depth < n => x + B.depth < n BY <1>5, <3>1
    <3>4. B.low <= n /\ B.depth <= n BY <1>5, <3>1 DEF Ready, Holds, PlaceHolds
    <3> QED BY <1>2, <1>3, <1>7, <1>9, <3>1, <3>2, <3>3, <3>4
            DEF PlaceHolds, Ready, Holds, SameGc
  <2> QED BY <1>2, <2>1, <2>2, <2>3, NoTexts DEF Holds
<1> QED BY <1>13, <1>14 DEF Done

\* What a step leaves of the objects that were there: their types and texts, and the
\* constants of functions.
Preserves(h, g) ==
    /\ DOMAIN h \subseteq DOMAIN g
    /\ \A o \in DOMAIN h :
          /\ g[o].type = h[o].type /\ g[o].text = h[o].text
          /\ DOMAIN g[o] = DOMAIN h[o] /\ DOMAIN g[o].refs = DOMAIN h[o].refs
          /\ \A f \in Fields[h[o].type] \cap {"constants"} : h[o].refs[f] \subseteq g[o].refs[f]

LEMMA PreservesSame == ASSUME NEW h PROVE Preserves(h, h)
  BY DEF Preserves

\* What is claimed of objects stays so.
LEMMA IsAKept ==
    ASSUME NEW h, NEW g, HeapIsSound(h), Preserves(h, g), NEW v, NEW kind,
           v \subseteq DOMAIN h, IsA(h, v, kind)
    PROVE  IsA(g, v, kind)
<1>1. \A o \in v : g[o].type = h[o].type /\ g[o].text = h[o].text BY DEF Preserves
<1>2. ASSUME NEW o \in v, h[o].type = "function", NamesModule(h, o) PROVE NamesModule(g, o)
  <2>1. "constants" \in Fields["function"] BY DEF Fields
  <2>2. PICK s \in h[o].refs["constants"] : h[s].type = "string" /\ h[s].text = {ModuleText}
    BY <1>2 DEF NamesModule
  <2>3. s \in DOMAIN h BY <1>2, <2>1, <2>2 DEF HeapIsSound, FieldIsSound
  <2>4. s \in g[o].refs["constants"] BY <1>2, <2>1 DEF Preserves
  <2>5. g[s].type = h[s].type /\ g[s].text = h[s].text BY <2>3 DEF Preserves
  <2> QED BY <2>2, <2>4, <2>5 DEF NamesModule
<1>3. CASE kind = "complete" BY <1>1, <1>2, <1>3 DEF IsA
<1>4. CASE kind # "complete" BY <1>1, <1>4 DEF IsA
<1> QED BY <1>3, <1>4

LEMMA FieldKept ==
    ASSUME NEW h, NEW g, HeapIsSound(h), Preserves(h, g), NEW type, NEW f, NEW v,
           FieldIsSound(h, type, f, v)
    PROVE  FieldIsSound(g, type, f, v)
<1>1. v \subseteq DOMAIN h /\ v \subseteq DOMAIN g BY DEF FieldIsSound, Preserves
<1>2. IsA(g, v, Kind(type, f)) BY <1>1, IsAKept DEF FieldIsSound
<1>3. f = "function" => Complete(g, v) BY <1>1, IsAKept DEF FieldIsSound, Complete
<1>4. ASSUME f = "constants", NEW o \in v, g[o].type = "function" PROVE Complete(g, {o})
  <2>1. h[o].type = "function" /\ {o} \subseteq DOMAIN h BY <1>1, <1>4 DEF Preserves
  <2>2. Complete(h, {o}) BY <1>4, <2>1 DEF FieldIsSound
  <2> QED BY <2>1, <2>2, IsAKept DEF Complete
<1> QED BY <1>1, <1>2, <1>3, <1>4 DEF FieldIsSound

\* A heap stays sound when the fields that change hold what they may.
LEMMA HeapChanged ==
    ASSUME NEW h, NEW g, HeapIsSound(h), Preserves(h, g), DOMAIN g = DOMAIN h,
           \A o \in DOMAIN h : \A f \in Fields[h[o].type] :
              g[o].refs[f] = h[o].refs[f] \/ FieldIsSound(h, h[o].type, f, g[o].refs[f])
    PROVE  HeapIsSound(g)
<1> SUFFICES ASSUME NEW o \in DOMAIN h
             PROVE  /\ g[o].type \in DOMAIN Fields /\ g[o].text \subseteq Texts
                    /\ DOMAIN g[o] = {"type", "text", "refs"} /\ DOMAIN g[o].refs = Fields[g[o].type]
                    /\ \A f \in Fields[g[o].type] : FieldIsSound(g, g[o].type, f, g[o].refs[f])
  BY DEF HeapIsSound
<1>1. g[o].type = h[o].type /\ g[o].text = h[o].text
      /\ DOMAIN g[o] = DOMAIN h[o] /\ DOMAIN g[o].refs = DOMAIN h[o].refs
  BY DEF Preserves
<1>2. /\ h[o].type \in DOMAIN Fields /\ h[o].text \subseteq Texts
      /\ DOMAIN h[o] = {"type", "text", "refs"} /\ DOMAIN h[o].refs = Fields[h[o].type]
      /\ \A f \in Fields[h[o].type] : FieldIsSound(h, h[o].type, f, h[o].refs[f])
  BY DEF HeapIsSound
<1>3. \A f \in Fields[h[o].type] : FieldIsSound(h, h[o].type, f, g[o].refs[f]) BY <1>2
<1>4. \A f \in Fields[h[o].type] : FieldIsSound(g, h[o].type, f, g[o].refs[f])
  BY <1>3, FieldKept
<1> QED BY <1>1, <1>2, <1>4

LEMMA SoundNext ==
    ASSUME HeapIsSound(heap'), program' = program
    PROVE  HeapIsSound(heap)'
  BY DEF HeapIsSound, FieldIsSound, Complete

\* What the VM holds stays what it is.
LEMMA HandKept ==
    ASSUME HandIsSound, HeapIsSound(heap), Preserves(heap, heap'), UNCHANGED <<frames, open>>,
           InHand' \subseteq DOMAIN heap', IsSeq(stack)
    PROVE  HandIsSound'
<1>1. \A i \in DOMAIN frames : frames[i].closure \subseteq DOMAIN heap
  <2>1. \A i \in DOMAIN frames : frames[i].closure \subseteq Held["frames"] BY DEF Held
  <2> QED BY <2>1 DEF HandIsSound, InHand, Range, Held
<1>2. \A u \in open : u.upvalue \subseteq DOMAIN heap
  <2>1. \A u \in open : u.upvalue \subseteq Held["upvalues"] BY DEF Held
  <2> QED BY <2>1 DEF HandIsSound, InHand, Range, Held
<1>3. \A i \in DOMAIN frames : IsA(heap', frames[i].closure, "closure")
  BY <1>1, IsAKept DEF HandIsSound
<1>4. \A u \in open : IsA(heap', u.upvalue, "upvalue")
  BY <1>2, IsAKept DEF HandIsSound
<1> QED BY <1>3, <1>4 DEF HandIsSound

\* enable_gc and disable_gc.
LEMMA AllowGoes ==
    ASSUME NEW A, NEW B, Ready(A, B), DoAllow
    PROVE  Done(B)'
<1>1. Step.op = "allow" BY DEF DoAllow, Doing, Step
<1>2. GoesAllow(A, Step, B) /\ Sane(A) /\ Sane(B) /\ B.texts = {} /\ (B.free => A.free)
  BY <1>1, GoesIs DEF Ready
<1>3. Proceed /\ allowed' = Step.arg /\ heap' = heap
      /\ UNCHANGED <<stack, capacity, frames, globals, open, exception, named>>
  BY DEF DoAllow, heap_vars, program_vars
<1>4. ControlIsSound' /\ (todo' # <<>> => local' = local) /\ program' = program
  BY <1>2, <1>3, LocalSame DEF Ready, Sound, GoesAllow
<1>5. Sound' BY <1>3, <1>4, HeapSame, HandSame, StackSame DEF Ready, Sound
<1>6. ASSUME todo' # <<>> PROVE Holds(B, B.ok)'
  <2>1. RegsHold(B, B.ok)'
    BY <1>2, <1>3, <1>4, <1>6, RegsSame DEF GoesAllow, SameVariables, Ready, Holds
  <2>2. RootsHold(B)'
    BY <1>2, <1>3, <1>4, <1>6, RootsSame, UnderSame DEF GoesAllow, Ready, Holds
  <2>3. PlaceHolds(B)'
    <3>1. Len(stack) \in Nat BY SeqIs DEF Ready, Typed
    <3>2. /\ A.depth \in Nat /\ B.depth \in Nat /\ A.low \in Nat /\ B.low \in Nat
          /\ B.depth <= A.depth /\ B.low <= A.low
      BY <1>2 DEF Sane, GoesAllow, SameStack
    <3>3. /\ \A i \in DOMAIN frames : frames[i].base \in Nat
          /\ \A u \in open : u.slot \in Nat
      BY DEF Ready, Sound, StackIsSound
    <3>4. \A x \in Nat : x + A.depth < Len(stack) => x + B.depth < Len(stack) BY <3>1, <3>2
    <3>5. B.low <= Len(stack) /\ B.depth <= Len(stack)
      BY <3>1, <3>2 DEF Ready, Holds, PlaceHolds
    <3>6. (B.off => ~ allowed') /\ (B.room => A.room) BY <1>2, <1>3 DEF GoesAllow
    <3> QED BY <1>2, <1>3, <1>4, <3>3, <3>4, <3>5, <3>6 DEF PlaceHolds, Ready, Holds
  <2> QED BY <1>2, <2>1, <2>2, <2>3, NoTexts DEF Holds
<1> QED BY <1>5, <1>6 DEF Done

LEMMA AliveIsOk == ASSUME NEW A, NEW s, Sane(A) PROVE Alive(A, s) \subseteq A.ok /\ A.ok \subseteq Registers
  BY DEF Sane, Alive

\* A variable is assigned.
LEMMA RegsAssigned ==
    ASSUME NEW A, NEW B, NEW s, NEW kinds, RegsHold(A, Alive(A, s)), Sane(A),
           Assigned(A, s, B, kinds), HeapIsSound(heap), Preserves(heap, heap'),
           local'[s.to] \subseteq DOMAIN heap', \A kind \in kinds : IsA(heap', local'[s.to], kind),
           \A r \in Registers : r # s.to => local'[r] = local[r]
    PROVE  RegsHold(B, B.ok)'
<1> DEFINE to == s.to
           good == Alive(A, s)
<1>1. B.ok \subseteq good \cup {to} BY DEF Assigned
<1>2. B.kinds \subseteq {k \in A.kinds : k[1] # to} \cup {<<to, kind>> : kind \in kinds}
  BY DEF Assigned
<1>3. RegsHold(A, good) /\ good \subseteq Registers BY AliveIsOk
<1>4. /\ local'[to] \subseteq DOMAIN heap' /\ \A kind \in kinds : IsA(heap', local'[to], kind)
      /\ \A r \in Registers : r # to => local'[r] = local[r]
  OBVIOUS
<1> HIDE DEF to, good
<1>5. ASSUME NEW r \in B.ok PROVE local'[r] \subseteq DOMAIN heap'
  BY <1>1, <1>3, <1>4 DEF RegsHold, Preserves
<1>6. ASSUME NEW r \in B.ok, NEW kind, <<r, kind>> \in B.kinds PROVE IsA(heap', local'[r], kind)
  <2>1. CASE r = to
    <3>1. <<r, kind>>[1] = to BY <2>1
    <3>2. <<r, kind>> \in {<<to, k>> : k \in kinds} BY <1>2, <1>6, <3>1
    <3>3. kind \in kinds BY <3>2
    <3> QED BY <1>4, <2>1, <3>3
  <2>2. CASE r # to
    <3>1. <<r, kind>> \in A.kinds /\ r \in good BY <1>1, <1>2, <1>6, <2>2
    <3>2. local[r] \subseteq DOMAIN heap /\ IsA(heap, local[r], kind) /\ r \in Registers
      BY <1>3, <3>1 DEF RegsHold
    <3>3. local'[r] = local[r] BY <1>4, <2>2, <3>2
    <3> QED BY <3>2, <3>3, IsAKept
  <2> QED BY <2>1, <2>2
<1> QED BY <1>5, <1>6 DEF RegsHold

\* A slot of the frame is read.
LEMMA FetchGoes ==
    ASSUME NEW A, NEW B, Ready(A, B), DoFetch
    PROVE  Done(B)'
<1> DEFINE to == Step.to
           v == stack[Step.arg + 1]
<1>1. Step.op = "fetch" BY DEF DoFetch, Doing, Step
<1>2. GoesFetch(A, Step, B) /\ Sane(A) /\ Sane(B) /\ B.texts = {} /\ (B.free => A.free)
      /\ to \in Registers
  BY <1>1, GoesIs DEF Ready
<1>3. GoOn(Tail(todo), [local EXCEPT ![to] = v]) /\ UNCHANGED <<heap, allowed>>
      /\ UNCHANGED <<stack, capacity, frames, globals, open, exception, named>>
  BY DEF DoFetch, heap_vars, program_vars
<1>4. IsSeq(stack) /\ Len(stack) \in Nat BY SeqIs DEF Ready, Typed
<1>5. v \subseteq Full
  <2>1. Step.arg \in Nat /\ Step.arg < Len(stack)
    BY <1>2, <1>4 DEF GoesFetch, Sane, Ready, Holds, PlaceHolds
  <2>2. Step.arg + 1 \in 1 .. Len(stack) BY <1>4, <2>1
  <2> QED BY <2>2 DEF Full, Under
<1>6. v \subseteq DOMAIN heap /\ v \subseteq Obj
  BY <1>4, <1>5, FullIs DEF Ready, Sound, HandIsSound, Kept
<1> HIDE DEF v, to
<1>7. /\ ControlIsSound' /\ program' = program
      /\ todo' # <<>> => /\ local'[to] = v
                         /\ \A r \in Registers : r # to => local'[r] = local[r]
  BY <1>2, <1>3, <1>6, LocalSet DEF Ready, Sound, ControlIsSound
<1>8. Sound' BY <1>3, <1>7, HeapSame, HandSame, StackSame DEF Ready, Sound
<1>9. ASSUME todo' # <<>> PROVE Holds(B, B.ok)'
  <2>1. RegsHold(B, B.ok)'
    <3>1. Assigned(A, Step, B, {}) BY <1>2 DEF GoesFetch
    <3>2. Preserves(heap, heap') /\ HeapIsSound(heap) BY <1>3, PreservesSame DEF Ready, Sound
    <3>3. RegsHold(A, Alive(A, Step)) /\ Sane(A) BY <1>2 DEF Ready, Holds
    <3>4. local'[to] \subseteq DOMAIN heap' BY <1>3, <1>6, <1>7, <1>9
    <3>5. \A kind \in {} : IsA(heap', local'[to], kind) OBVIOUS
    <3> QED BY <1>7, <1>9, <3>1, <3>2, <3>3, <3>4, <3>5, RegsAssigned DEF to
  <2>2. RootsHold(B)'
    <3>1. Full' = Full /\ Below' = Below BY <1>3, UnderSame
    <3>2. HeldBy(heap, Full, v) BY <1>5, HeldRoots
    <3>3. \A r \in A.held : HeldBy(heap, Full, local[r]) BY DEF Ready, Holds, RootsHold
    <3>4. \A r \in A.base : HeldBy(heap, Below, local[r]) BY DEF Ready, Holds, RootsHold
    <3>5. B.held \subseteq A.held \cup {to} /\ B.base \subseteq A.base \ {to}
          /\ A.held \subseteq Registers /\ A.base \subseteq Registers
      BY <1>2 DEF GoesFetch, to, Sane
    <3>6. ASSUME NEW r \in B.held PROVE HeldBy(heap, Full, local'[r])
      BY <1>7, <1>9, <3>2, <3>3, <3>5
    <3>7. ASSUME NEW r \in B.base PROVE HeldBy(heap, Below, local'[r])
      BY <1>7, <1>9, <3>4, <3>5
    <3> QED BY <1>3, <3>1, <3>6, <3>7 DEF RootsHold
  <2>3. PlaceHolds(B)'
    BY <1>2, <1>3, <1>4, <1>7, PlaceSame DEF GoesFetch, Ready, Holds, Sound
  <2> QED BY <1>2, <2>1, <2>2, <2>3, NoTexts DEF Holds
<1> QED BY <1>8, <1>9 DEF Done

\* What the roots are, but for one part of them.
LEMMA InHandIs ==
    /\ InHand = UNION {Held[part] : part \in
                   {"stack", "frames", "upvalues", "globals", "exception", "names"}}
    /\ InHand = Held["stack"] \cup Held["frames"] \cup Held["upvalues"] \cup Held["globals"]
                \cup Held["exception"] \cup Held["names"]
<1>1. DOMAIN Held = {"stack", "frames", "upvalues", "globals", "exception", "names"}
  BY DEF Held
<1> QED BY <1>1 DEF InHand, Range

\* A global variable is given its value.
LEMMA DefineGoes ==
    ASSUME NEW A, NEW B, Ready(A, B), DoDefine
    PROVE  Done(B)'
<1>1. Step.op = "define" BY DEF DoDefine, Doing, Step
<1>2. GoesDefine(A, Step, B) /\ Sane(A) /\ Sane(B) /\ B.texts = {} /\ (B.free => A.free)
  BY <1>1, GoesIs DEF Ready
<1>3. Proceed /\ UNCHANGED <<heap, allowed, stack, capacity, frames, open, exception, named>>
  BY DEF DoDefine, heap_vars
<1>4. ControlIsSound' /\ (todo' # <<>> => local' = local) /\ program' = program
  BY <1>3, LocalSame DEF Ready, Sound, ControlIsSound
<1>5. InHand' \subseteq DOMAIN heap
  <2> DEFINE val == local[Step.arg.val]
  <2>1. PICK key \in local[Step.arg.key] :
           globals' = [k \in DOMAIN globals \cup {key} |-> IF k = key THEN val ELSE globals[k]]
    BY DEF DoDefine
  <2>2. key \in DOMAIN heap /\ val \subseteq DOMAIN heap
    BY <1>2, ReadsAreKept DEF GoesDefine, Values
  <2> HIDE DEF val
  <2>3. DOMAIN globals' \subseteq DOMAIN globals \cup {key} BY <2>1
  <2>4. UNION Range(globals') \subseteq (UNION Range(globals)) \cup val
    <3>1. \A k \in DOMAIN globals' : globals'[k] = val \/ (k \in DOMAIN globals /\ globals'[k] = globals[k])
      BY <2>1
    <3> QED BY <3>1 DEF Range
  <2>5. Held'["globals"] \subseteq Held["globals"] \cup {key} \cup val BY <2>3, <2>4 DEF Held
  <2>6. /\ Held'["stack"] = Held["stack"] /\ Held'["frames"] = Held["frames"]
        /\ Held'["upvalues"] = Held["upvalues"] /\ Held'["exception"] = Held["exception"]
        /\ Held'["names"] = Held["names"]
    BY <1>3 DEF Held
  <2>7. InHand' = Held'["stack"] \cup Held'["frames"] \cup Held'["upvalues"] \cup Held'["globals"]
                \cup Held'["exception"] \cup Held'["names"]
    <3>1. DOMAIN Held' = {"stack", "frames", "upvalues", "globals", "exception", "names"}
      BY DEF Held
    <3> QED BY <3>1 DEF InHand, Range
  <2> QED BY <2>2, <2>5, <2>6, <2>7, InHandIs DEF Ready, Sound, HandIsSound
<1>6. Preserves(heap, heap') BY <1>3, PreservesSame
<1>7. HandIsSound' BY <1>3, <1>5, <1>6, HandKept DEF Ready, Sound, Typed
<1>8. Sound' BY <1>3, <1>4, <1>7, HeapSame, StackSame DEF Ready, Sound
<1>9. ASSUME todo' # <<>> PROVE Holds(B, B.ok)'
  <2>1. RegsHold(B, B.ok)'
    BY <1>2, <1>3, <1>4, <1>9, RegsSame DEF GoesDefine, SameVariables, Ready, Holds
  <2>2. RootsHold(B)' BY <1>2, NoneHeldHolds DEF GoesDefine
  <2>3. PlaceHolds(B)'
    BY <1>2, <1>3, <1>4, PlaceSame DEF GoesDefine, Ready, Holds, Sound, Typed
  <2> QED BY <1>2, <2>1, <2>2, <2>3, NoTexts DEF Holds
<1> QED BY <1>8, <1>9 DEF Done

\* What a part of the state refers to.
LEMMA HandOf ==
    /\ \A i \in DOMAIN frames : frames[i].closure \subseteq InHand
    /\ \A u \in open : u.upvalue \subseteq InHand
<1>1. \A i \in DOMAIN frames : frames[i].closure \subseteq Held["frames"] BY DEF Held
<1>2. \A u \in open : u.upvalue \subseteq Held["upvalues"] BY DEF Held
<1> QED BY <1>1, <1>2, InHandIs

LEMMA InHandNext ==
    InHand' = Held'["stack"] \cup Held'["frames"] \cup Held'["upvalues"] \cup Held'["globals"]
              \cup Held'["exception"] \cup Held'["names"]
<1>1. DOMAIN Held' = {"stack", "frames", "upvalues", "globals", "exception", "names"}
  BY DEF Held
<1> QED BY <1>1 DEF InHand, Range

LEMMA ReadsAre ==
    ASSUME NEW A, NEW B, NEW kind, Ready(A, B), kind \in DOMAIN Fields,
           \A r \in Step.from : <<r, kind>> \in A.kinds
    PROVE  \A o \in Values(Step.from) : heap[o].type = kind
<1>1. kind \notin {"any", "one", "module", "complete"} BY DEF Fields
<1>2. \A r \in Step.from : IsA(heap, local[r], kind)
  BY ReadsAreKept DEF Ready, Holds, RegsHold
<1> QED BY <1>1, <1>2 DEF IsA, Values

\* A call links its frame; the arguments are above its base.
LEMMA EnterGoes ==
    ASSUME NEW A, NEW B, Ready(A, B), DoEnter
    PROVE  Done(B)'
<1> DEFINE v == Values(Step.from)
           n == Len(stack)
           b == n - Step.arg - 1
<1>1. Step.op = "enter" BY DEF DoEnter, Doing, Step
<1>2. GoesEnter(A, Step, B) /\ Sane(A) /\ Sane(B) /\ B.texts = {} /\ (B.free => A.free)
  BY <1>1, GoesIs DEF Ready
<1>3. Proceed /\ frames' = Append(frames, [closure |-> v, base |-> b])
      /\ UNCHANGED <<heap, allowed, stack, capacity, globals, open, exception, named>>
  BY DEF DoEnter, heap_vars
<1>4. v \subseteq DOMAIN heap BY ReadsAreKept
<1>5. \A o \in v : heap[o].type = "closure"
  <2>1. "closure" \in DOMAIN Fields BY DEF Fields
  <2> QED BY <1>2, <2>1, ReadsAre DEF GoesEnter
<1>6. n \in Nat BY SeqIs DEF Ready, Typed
<1>7. /\ Step.arg \in Nat /\ A.depth \in Nat /\ B.depth \in Nat /\ A.low \in Nat /\ B.low \in Nat
      /\ Step.arg + 1 <= A.depth /\ B.depth = 0 /\ B.low <= A.low
      /\ A.depth <= n /\ A.low <= n
  BY <1>2 DEF GoesEnter, Sane, Ready, Holds, PlaceHolds
<1>8. b \in Nat /\ b < n /\ \A x \in Nat : x + A.depth < n => x < b /\ x < n
  BY <1>6, <1>7
<1> HIDE DEF v, b, n
<1>9. ControlIsSound' /\ (todo' # <<>> => local' = local) /\ program' = program
  BY <1>3, LocalSame DEF Ready, Sound, ControlIsSound
<1>10. IsSeq(frames) BY DEF Ready, Typed
<1>11. PICK k \in Nat : /\ k = Len(frames) /\ DOMAIN frames = 1 .. k /\ DOMAIN frames' = 1 .. k + 1
                        /\ \A i \in 1 .. k : frames'[i] = frames[i]
                        /\ frames'[k + 1] = [closure |-> v, base |-> b]
  BY <1>3, <1>10 DEF IsSeq
<1>12. \A i \in 1 .. k : frames[i].base \in Nat /\ frames[i].base + A.depth < n
  BY <1>11 DEF Ready, Sound, StackIsSound, Holds, PlaceHolds, n
<1>13. \A i \in 1 .. k + 1 : frames'[i].base \in Nat /\ frames'[i].base < n
  <2>1. \A i \in 1 .. k : frames'[i].base \in Nat /\ frames'[i].base < n BY <1>8, <1>11, <1>12
  <2>2. frames'[k + 1].base = b BY <1>11
  <2>3. \A i \in 1 .. k + 1 : i \in 1 .. k \/ i = k + 1 OBVIOUS
  <2> QED BY <1>8, <2>1, <2>2, <2>3
<1>14. ASSUME NEW i \in 1 .. k + 1, NEW j \in 1 .. k + 1, i < j
       PROVE  frames'[i].base < frames'[j].base
  <2>1. i \in 1 .. k /\ frames'[i] = frames[i] BY <1>11, <1>14
  <2>2. CASE j = k + 1
    <3>1. frames'[j].base = b BY <1>11, <2>2
    <3> QED BY <1>8, <1>12, <2>1, <3>1
  <2>3. CASE j # k + 1
    <3>1. j \in 1 .. k /\ frames'[j] = frames[j] BY <1>11, <2>3
    <3> QED BY <1>11, <1>14, <2>1, <3>1 DEF Ready, Sound, StackIsSound
  <2> QED BY <2>2, <2>3
<1>15. \A u \in open : u.slot \in Nat /\ u.slot + A.depth < n
  BY DEF Ready, Sound, StackIsSound, Holds, PlaceHolds, n
<1>16. StackIsSound'
  <2>1. capacity' \in Nat \ {0} /\ Len(stack') <= capacity'
    BY <1>3 DEF Ready, Sound, StackIsSound
  <2>2. \A u \in open' : u.slot \in Nat /\ u.slot < Len(stack') BY <1>3, <1>8, <1>15 DEF n
  <2>3. Len(stack') = n BY <1>3 DEF n
  <2> QED BY <1>11, <1>13, <1>14, <2>1, <2>2, <2>3 DEF StackIsSound
<1>17. HandIsSound'
  <2>1. Held'["frames"] = Held["frames"] \cup v
    <3>1. \A i \in 1 .. k + 1 : i \in 1 .. k \/ i = k + 1 BY <1>11
    <3>2. 1 .. k \subseteq 1 .. k + 1 /\ k + 1 \in 1 .. k + 1 BY <1>11
    <3>3. UNION {frames'[i].closure : i \in 1 .. k + 1}
             = (UNION {frames[i].closure : i \in 1 .. k}) \cup v
      BY <1>11, <3>1, <3>2
    <3> QED BY <1>11, <3>3 DEF Held
  <2>2. /\ Held'["stack"] = Held["stack"] /\ Held'["globals"] = Held["globals"]
        /\ Held'["upvalues"] = Held["upvalues"] /\ Held'["exception"] = Held["exception"]
        /\ Held'["names"] = Held["names"]
    BY <1>3 DEF Held
  <2>3. InHand' \subseteq DOMAIN heap
    BY <1>4, <2>1, <2>2, InHandIs, InHandNext DEF Ready, Sound, HandIsSound
  <2>4. IsA(heap, v, "closure") BY <1>5 DEF IsA
  <2>5. \A i \in 1 .. k + 1 : IsA(heap, frames'[i].closure, "closure")
    <3>1. \A i \in 1 .. k : IsA(heap, frames[i].closure, "closure")
      BY <1>11 DEF Ready, Sound, HandIsSound
    <3>2. \A i \in 1 .. k + 1 : i \in 1 .. k \/ i = k + 1 BY <1>11
    <3>3. frames'[k + 1].closure = v BY <1>11
    <3> QED BY <1>11, <2>4, <3>1, <3>2, <3>3
  <2>6. \A u \in open : IsA(heap, u.upvalue, "upvalue") BY DEF Ready, Sound, HandIsSound
  <2> QED BY <1>3, <1>11, <2>3, <2>5, <2>6 DEF HandIsSound
<1>18. Sound' BY <1>3, <1>9, <1>16, <1>17, HeapSame DEF Ready, Sound
<1>19. ASSUME todo' # <<>> PROVE Holds(B, B.ok)'
  <2>1. RegsHold(B, B.ok)'
    BY <1>2, <1>3, <1>9, <1>19, RegsSame DEF GoesEnter, SameVariables, Ready, Holds
  <2>2. RootsHold(B)' BY <1>2, NoneHeldHolds DEF GoesEnter
  <2>3. PlaceHolds(B)'
    <3>1. (B.off => A.off) /\ (B.room => A.room) BY <1>2 DEF GoesEnter, SameGc
    <3>2. Len(stack') = n BY <1>3 DEF n
    <3>3. B.low <= n /\ B.depth <= n BY <1>6, <1>7
    <3>4. \A x \in Nat : x < n => x + B.depth < n BY <1>6, <1>7
    <3>5. \A i \in DOMAIN frames' : frames'[i].base + B.depth < n BY <1>11, <1>13, <3>4
    <3>6. \A u \in open' : u.slot + B.depth < n BY <1>3, <1>8, <1>15, <3>4
    <3>7. (A.off => ~ allowed) /\ (A.room => n < capacity) /\ (A.free => ModuleText \notin program.texts)
      BY DEF Ready, Holds, PlaceHolds, n
    <3> QED BY <1>2, <1>3, <1>9, <3>1, <3>2, <3>3, <3>5, <3>6, <3>7 DEF PlaceHolds
  <2> QED BY <1>2, <2>1, <2>2, <2>3, NoTexts DEF Holds
<1> QED BY <1>18, <1>19 DEF Done

\* capture_upvalue links a new upvalue.
LEMMA LinkGoes ==
    ASSUME NEW A, NEW B, Ready(A, B), DoLink
    PROVE  Done(B)'
<1> DEFINE v == Values(Step.from)
           n == Len(stack)
           up == [slot |-> Step.arg, upvalue |-> v]
<1>1. Step.op = "link" BY DEF DoLink, Doing, Step
<1>2. GoesLink(A, Step, B) /\ Sane(A) /\ Sane(B) /\ B.texts = {} /\ (B.free => A.free)
  BY <1>1, GoesIs DEF Ready
<1>3. Proceed /\ open' = Above(Step.arg) \cup {up}
      /\ UNCHANGED <<heap, allowed, stack, capacity, frames, globals, exception, named>>
  BY DEF DoLink, heap_vars
<1>4. v \subseteq DOMAIN heap BY ReadsAreKept
<1>5. \A o \in v : heap[o].type = "upvalue"
  <2>1. "upvalue" \in DOMAIN Fields BY DEF Fields
  <2> QED BY <1>2, <2>1, ReadsAre DEF GoesLink
<1>6. n \in Nat BY SeqIs DEF Ready, Typed
<1>7. /\ A.depth \in Nat /\ B.depth \in Nat /\ A.low \in Nat /\ B.low \in Nat
      /\ B.depth = 0 /\ B.low <= A.low /\ A.depth <= n /\ A.low <= n
      /\ Step.arg \in Nat /\ Step.arg < A.low
  BY <1>2 DEF GoesLink, Sane, Ready, Holds, PlaceHolds
<1>8. up.slot = Step.arg /\ up.upvalue = v /\ Step.arg < n BY <1>6, <1>7
<1>9. \A x \in Nat : (x + A.depth < n => x < n) /\ (x < n => x + B.depth < n) BY <1>6, <1>7
<1> HIDE DEF v, n, up
<1>10. ControlIsSound' /\ (todo' # <<>> => local' = local) /\ program' = program
  BY <1>3, LocalSame DEF Ready, Sound, ControlIsSound
<1>11. open' \subseteq open \cup {up} BY <1>3 DEF Above
<1>12. \A u \in open' : u.slot \in Nat /\ u.slot < n
  <2>1. \A u \in open : u.slot \in Nat /\ u.slot < n BY DEF Ready, Sound, StackIsSound, n
  <2> QED BY <1>7, <1>8, <1>11, <2>1
<1>13. StackIsSound'
  <2>1. capacity' \in Nat \ {0} /\ Len(stack') <= capacity'
    BY <1>3 DEF Ready, Sound, StackIsSound
  <2>2. Len(stack') = n BY <1>3 DEF n
  <2> QED BY <1>3, <1>12, <2>1, <2>2 DEF Ready, Sound, StackIsSound
<1>14. HandIsSound'
  <2>1. Held'["upvalues"] \subseteq Held["upvalues"] \cup v BY <1>8, <1>11 DEF Held
  <2>2. /\ Held'["stack"] = Held["stack"] /\ Held'["globals"] = Held["globals"]
        /\ Held'["frames"] = Held["frames"] /\ Held'["exception"] = Held["exception"]
        /\ Held'["names"] = Held["names"]
    BY <1>3 DEF Held
  <2>3. InHand' \subseteq DOMAIN heap
    BY <1>4, <2>1, <2>2, InHandIs, InHandNext DEF Ready, Sound, HandIsSound
  <2>4. IsA(heap, v, "upvalue") BY <1>5 DEF IsA
  <2>5. \A u \in open' : IsA(heap, u.upvalue, "upvalue")
    BY <1>8, <1>11, <2>4 DEF Ready, Sound, HandIsSound
  <2> QED BY <1>3, <2>3, <2>5 DEF HandIsSound, Ready, Sound
<1>15. Sound' BY <1>3, <1>10, <1>13, <1>14, HeapSame DEF Ready, Sound
<1>16. ASSUME todo' # <<>> PROVE Holds(B, B.ok)'
  <2>1. RegsHold(B, B.ok)'
    BY <1>2, <1>3, <1>10, <1>16, RegsSame DEF GoesLink, SameVariables, Ready, Holds
  <2>2. RootsHold(B)' BY <1>2, NoneHeldHolds DEF GoesLink
  <2>3. PlaceHolds(B)'
    <3>1. (B.off => A.off) /\ (B.room => A.room) BY <1>2 DEF GoesLink, SameGc
    <3>2. Len(stack') = n BY <1>3 DEF n
    <3>3. B.low <= n /\ B.depth <= n BY <1>6, <1>7
    <3>4. \A i \in DOMAIN frames : frames[i].base + B.depth < n
      BY <1>9 DEF Ready, Sound, StackIsSound, n
    <3>5. \A u \in open' : u.slot + B.depth < n BY <1>9, <1>12
    <3>6. (A.off => ~ allowed) /\ (A.room => n < capacity) /\ (A.free => ModuleText \notin program.texts)
      BY DEF Ready, Holds, PlaceHolds, n
    <3> QED BY <1>2, <1>3, <1>10, <3>1, <3>2, <3>3, <3>4, <3>5, <3>6 DEF PlaceHolds
  <2> QED BY <1>2, <2>1, <2>2, <2>3, NoTexts DEF Holds
<1> QED BY <1>15, <1>16 DEF Done

\* A field of an object is added to, or its table's entry overwritten.
LEMMA PutGoes ==
    ASSUME NEW A, NEW B, Ready(A, B), DoPut
    PROVE  Done(B)'
<1> DEFINE to == Step.to
           field == Step.arg.field
           v == Values(Step.arg.from)
<1>1. Step.op = "put" BY DEF DoPut, Doing, Step
<1>2. GoesPut(A, Step, B) /\ Sane(A) /\ Sane(B) /\ B.texts = {} /\ (B.free => A.free)
  BY <1>1, GoesIs DEF Ready
<1>3. Proceed /\ UNCHANGED <<allowed, stack, capacity, frames, globals, open, exception, named>>
  BY DEF DoPut, program_vars
<1>4. /\ field \in {"name", "constants", "upvalues", "methods", "fields", "values", "message"}
      /\ to \in Step.from /\ Step.arg.from \subseteq Step.from
      /\ \A r \in Step.arg.from : FitsField(A, r, "any", field)
  BY <1>2 DEF GoesPut
<1>5. /\ v \subseteq DOMAIN heap /\ local[to] \subseteq DOMAIN heap
      /\ \A r \in Step.arg.from : local[r] \subseteq v /\ r \in Alive(A, Step)
      /\ \A o \in v : \E r \in Step.arg.from : o \in local[r]
  BY <1>4, ReadsAreKept DEF Values
<1>20. PICK obj \in local[to] : \E gone :
          /\ gone # {} => field \in Overwritten
          /\ heap' = [heap EXCEPT ![obj].refs[field] = (heap[obj].refs[field] \ gone) \cup v]
  BY DEF DoPut
<1>6. PICK gone :
         /\ obj \in local[to] /\ (gone # {} => field \in Overwritten)
         /\ heap' = [heap EXCEPT ![obj].refs[field] = (heap[obj].refs[field] \ gone) \cup v]
  BY <1>20
<1>7. obj \in DOMAIN heap BY <1>5, <1>6
<1>8. HeapIsSound(heap) /\ RegsHold(A, Alive(A, Step)) BY DEF Ready, Sound, Holds
<1> DEFINE new == (heap[obj].refs[field] \ gone) \cup v
<1> HIDE DEF to, field, v
<1>9. DOMAIN heap[obj] = {"type", "text", "refs"} /\ DOMAIN heap[obj].refs = Fields[heap[obj].type]
  BY <1>7, <1>8 DEF HeapIsSound
<1>10. /\ DOMAIN heap' = DOMAIN heap
       /\ \A o \in DOMAIN heap : o # obj => heap'[o] = heap[o]
       /\ heap'[obj].type = heap[obj].type /\ heap'[obj].text = heap[obj].text
       /\ DOMAIN heap'[obj] = DOMAIN heap[obj] /\ DOMAIN heap'[obj].refs = DOMAIN heap[obj].refs
       /\ field \in Fields[heap[obj].type] => heap'[obj].refs[field] = new
       /\ \A f \in Fields[heap[obj].type] : f # field => heap'[obj].refs[f] = heap[obj].refs[f]
  BY <1>6, <1>7, <1>9
<1>11. Preserves(heap, heap')
  <2>1. field = "constants" => gone = {} BY <1>6 DEF Overwritten
  <2>2. field = "constants" => heap[obj].refs[field] \subseteq new BY <2>1
  <2> HIDE DEF new
  <2> QED BY <1>10, <2>2 DEF Preserves
<1>12. ASSUME field \in Fields[heap[obj].type]
       PROVE  FieldIsSound(heap, heap[obj].type, field, new)
  <2> DEFINE type == heap[obj].type
             old == heap[obj].refs[field]
  <2>1. FieldIsSound(heap, type, field, old) BY <1>7, <1>8, <1>12 DEF HeapIsSound
  <2>2. new \subseteq DOMAIN heap BY <1>5, <2>1 DEF FieldIsSound
  <2>3. IsA(heap, new, Kind(type, field))
    <3>1. CASE field = "upvalues"
      <4>1. Kind(type, field) = "upvalue" /\ Kind("any", field) = "upvalue" BY <3>1 DEF Kind
      <4>2. \A o \in old : heap[o].type = "upvalue" BY <2>1, <4>1 DEF FieldIsSound, IsA
      <4>3. \A r \in Step.arg.from : <<r, "upvalue">> \in A.kinds BY <1>4, <4>1 DEF FitsField
      <4>4. \A r \in Step.arg.from : IsA(heap, local[r], "upvalue")
        BY <1>5, <1>8, <4>3 DEF RegsHold
      <4>5. \A o \in v : heap[o].type = "upvalue" BY <1>5, <4>4 DEF IsA
      <4> QED BY <4>1, <4>2, <4>5 DEF IsA
    <3>2. CASE field # "upvalues"
      <4>1. Kind(type, field) = "any" BY <1>4, <3>2 DEF Kind
      <4> QED BY <4>1 DEF IsA
    <3> QED BY <3>1, <3>2
  <2>4. ASSUME field = "constants", NEW o \in new, heap[o].type = "function"
        PROVE  Complete(heap, {o})
    <3>1. CASE o \in old BY <2>1, <2>4, <3>1 DEF FieldIsSound
    <3>2. CASE o \in v
      <4>1. PICK r \in Step.arg.from : o \in local[r] BY <1>5, <3>2
      <4>2. <<r, "string">> \in A.kinds \/ IsNamed(A, r) BY <1>4, <2>4 DEF FitsField
      <4>3. CASE <<r, "string">> \in A.kinds
        <5>1. IsA(heap, local[r], "string") BY <1>5, <1>8, <4>3 DEF RegsHold
        <5> QED BY <2>4, <4>1, <5>1 DEF IsA
      <4>4. CASE <<r, "complete">> \in A.kinds
        <5>1. IsA(heap, local[r], "complete") BY <1>5, <1>8, <4>4 DEF RegsHold
        <5>2. IsA(heap, {o}, "complete") BY <4>1, <5>1 DEF IsA
        <5> QED BY <5>2 DEF Complete
      <4>5. CASE A.free BY <4>5 DEF Ready, Holds, PlaceHolds, Complete
      <4> QED BY <4>2, <4>3, <4>4, <4>5 DEF IsNamed
    <3> QED BY <2>4, <3>1, <3>2
  <2>5. field # "function" BY <1>4
  <2> QED BY <2>2, <2>3, <2>4, <2>5 DEF FieldIsSound
<1> HIDE DEF new
<1>13. ControlIsSound' /\ (todo' # <<>> => local' = local) /\ program' = program
  BY <1>3, LocalSame DEF Ready, Sound, ControlIsSound
<1>14. HeapIsSound(heap)'
  <2>1. \A o \in DOMAIN heap : \A f \in Fields[heap[o].type] :
           heap'[o].refs[f] = heap[o].refs[f] \/ FieldIsSound(heap, heap[o].type, f, heap'[o].refs[f])
    BY <1>10, <1>12
  <2>2. HeapIsSound(heap') BY <1>8, <1>10, <1>11, <2>1, HeapChanged
  <2> QED BY <1>13, <2>2, SoundNext
<1>15. HandIsSound'
  <2>1. InHand' = InHand BY <1>3 DEF InHand, Held
  <2> QED BY <1>3, <1>8, <1>10, <1>11, <2>1, HandKept DEF HandIsSound, Ready, Sound, Typed
<1>16. Sound' BY <1>3, <1>13, <1>14, <1>15, StackSame DEF Ready, Sound
<1>17. ASSUME todo' # <<>> PROVE Holds(B, B.ok)'
  <2>1. RegsHold(B, B.ok)'
    <3>1. B.ok \subseteq Alive(A, Step) BY <1>2 DEF GoesPut
    <3>2. \A r \in B.ok : local[r] \subseteq DOMAIN heap' BY <1>8, <1>10, <3>1 DEF RegsHold
    <3>3. ASSUME NEW r \in B.ok, NEW kind, <<r, kind>> \in B.kinds
          PROVE  IsA(heap', local[r], kind)
      <4>1. CASE <<r, kind>> \in A.kinds
        <5>1. IsA(heap, local[r], kind) /\ local[r] \subseteq DOMAIN heap
          BY <1>8, <3>1, <4>1 DEF RegsHold
        <5> QED BY <1>8, <1>11, <5>1, IsAKept
      <4>2. CASE <<r, kind>> \notin A.kinds
        <5>1. /\ r = to /\ kind = "complete" /\ field = "constants"
              /\ <<to, "function">> \in A.kinds /\ <<to, "one">> \in A.kinds
              /\ \E q \in Step.arg.from : <<q, "module">> \in A.kinds
          BY <1>2, <3>3, <4>2 DEF GoesPut, to, field
        <5>2. PICK q \in Step.arg.from : <<q, "module">> \in A.kinds BY <5>1
        <5>3. to \in Alive(A, Step) BY <3>1, <5>1
        <5>4. IsA(heap, local[to], "one") /\ IsA(heap, local[to], "function")
              /\ IsA(heap, local[q], "module")
          BY <1>5, <1>8, <5>1, <5>2, <5>3 DEF RegsHold
        <5>5. local[to] = {obj} /\ heap[obj].type = "function" BY <1>6, <5>4 DEF IsA
        <5>6. PICK s \in local[q] : heap[s].type = "string" /\ heap[s].text = {ModuleText}
          BY <5>4 DEF IsA
        <5>7. s \in v /\ s \in DOMAIN heap BY <1>5, <5>6
        <5>8. field \in Fields[heap[obj].type] BY <5>1, <5>5 DEF Fields
        <5>9. s \in heap'[obj].refs["constants"] BY <1>10, <5>1, <5>7, <5>8 DEF new
        <5>10. heap'[s].type = "string" /\ heap'[s].text = {ModuleText}
          BY <1>11, <5>6, <5>7 DEF Preserves
        <5>11. NamesModule(heap', obj) /\ heap'[obj].type = "function"
          BY <1>10, <5>5, <5>9, <5>10 DEF NamesModule
        <5>12. IsA(heap', {obj}, "complete") BY <5>11 DEF IsA
        <5> QED BY <5>1, <5>5, <5>12
      <4> QED BY <4>1, <4>2
    <3> QED BY <1>13, <1>17, <3>2, <3>3 DEF RegsHold
  <2>2. RootsHold(B)' BY <1>2, NoneHeldHolds DEF GoesPut
  <2>3. PlaceHolds(B)'
    BY <1>2, <1>3, <1>13, PlaceSame DEF GoesPut, Ready, Holds, Sound, Typed
  <2> QED BY <1>2, <2>1, <2>2, <2>3, NoTexts DEF Holds
<1> QED BY <1>16, <1>17 DEF Done

\* Nothing is claimed.
Nothing == [ok |-> {}, held |-> {}, base |-> {}, kinds |-> {}, off |-> FALSE, room |-> FALSE,
            depth |-> 0, low |-> 0, texts |-> {}, free |-> FALSE]

LEMMA NothingHolds ==
    ASSUME StackIsSound', IsSeq(stack')
    PROVE  Holds(Nothing, {})'
<1>1. /\ Nothing.ok = {} /\ Nothing.held = {} /\ Nothing.base = {} /\ Nothing.kinds = {}
      /\ Nothing.off = FALSE /\ Nothing.room = FALSE /\ Nothing.depth = 0 /\ Nothing.low = 0
      /\ Nothing.texts = {} /\ Nothing.free = FALSE
  BY DEF Nothing
<1>2. Len(stack') \in Nat
  <2>1. PICK S : stack' \in Seq(S) BY DEF IsSeq
  <2> QED BY <2>1
<1>3. /\ \A i \in DOMAIN frames' : frames'[i].base \in Nat /\ frames'[i].base < Len(stack')
      /\ \A u \in open' : u.slot \in Nat /\ u.slot < Len(stack')
  BY DEF StackIsSound
<1>4. \A x \in Nat : x < Len(stack') => x + 0 < Len(stack') BY <1>2
<1>5. 0 <= Len(stack') BY <1>2
<1>6. PlaceHolds(Nothing)' BY <1>1, <1>3, <1>4, <1>5 DEF PlaceHolds
<1>7. RegsHold(Nothing, {})' BY DEF RegsHold
<1>8. RootsHold(Nothing)' BY <1>1 DEF RootsHold
<1>9. TextsHold(Nothing)' BY <1>1 DEF TextsHold
<1> QED BY <1>6, <1>7, <1>8, <1>9 DEF Holds

LEMMA ThrowHeap ==
    ASSUME NEW A, NEW B, Ready(A, B), DoThrow
    PROVE  /\ HeapIsSound(heap') /\ Preserves(heap, heap') /\ DOMAIN heap' = DOMAIN heap
           /\ exception' \subseteq DOMAIN heap
<1>1. HeapIsSound(heap) /\ exception \subseteq DOMAIN heap
  <2>1. exception \subseteq InHand BY InHandIs DEF Held
  <2> QED BY <2>1 DEF Ready, Sound, HandIsSound
<1>2. PICK obj \in Values(Step.from) :
         /\ heap' = IF {obj} = exception THEN heap ELSE [heap EXCEPT ![obj].refs.next = exception]
         /\ exception' = {obj}
  BY DEF DoThrow
<1>3. obj \in DOMAIN heap BY <1>2, ReadsAreKept
<1>4. CASE heap' = heap BY <1>1, <1>2, <1>3, <1>4, PreservesSame
<1>5. CASE heap' = [heap EXCEPT ![obj].refs.next = exception]
  <2>1. DOMAIN heap[obj] = {"type", "text", "refs"} /\ DOMAIN heap[obj].refs = Fields[heap[obj].type]
    BY <1>1, <1>3 DEF HeapIsSound
  <2>2. /\ DOMAIN heap' = DOMAIN heap
        /\ \A o \in DOMAIN heap : o # obj => heap'[o] = heap[o]
        /\ heap'[obj].type = heap[obj].type /\ heap'[obj].text = heap[obj].text
        /\ DOMAIN heap'[obj] = DOMAIN heap[obj] /\ DOMAIN heap'[obj].refs = DOMAIN heap[obj].refs
        /\ "next" \in Fields[heap[obj].type] => heap'[obj].refs["next"] = exception
        /\ \A f \in Fields[heap[obj].type] : f # "next" => heap'[obj].refs[f] = heap[obj].refs[f]
    BY <1>3, <1>5, <2>1
  <2>3. Preserves(heap, heap') BY <2>2 DEF Preserves
  <2>4. FieldIsSound(heap, heap[obj].type, "next", exception)
    <3>1. Kind(heap[obj].type, "next") = "any" BY DEF Kind
    <3> QED BY <1>1, <3>1 DEF FieldIsSound, IsA
  <2>5. \A o \in DOMAIN heap : \A f \in Fields[heap[o].type] :
           heap'[o].refs[f] = heap[o].refs[f] \/ FieldIsSound(heap, heap[o].type, f, heap'[o].refs[f])
    BY <2>2, <2>4
  <2> QED BY <1>1, <1>2, <1>3, <2>2, <2>3, <2>5, HeapChanged
<1> QED BY <1>2, <1>4, <1>5

\* The stack is cut back to a height, the frames to the first of them.
LEMMA CutUnder ==
    ASSUME IsSeq(stack), NEW h \in Nat, h <= Len(stack), stack' = SubSeq(stack, 1, h)
    PROVE  /\ Held'["stack"] \subseteq Held["stack"] /\ Len(stack') = h /\ IsSeq(stack')
           /\ \A i \in 1 .. h : stack'[i] = stack[i]
<1>1. PICK S : stack \in Seq(S) BY DEF IsSeq
<1>2. /\ stack' \in Seq(S) /\ Len(stack') = h /\ \A i \in 1 .. h : stack'[i] = stack[i]
  <2>1. Len(stack) \in Nat BY <1>1
  <2>2. 1 .. h \subseteq 1 .. Len(stack) BY <2>1
  <2>3. \A i \in 1 .. h : stack[i] \in S BY <1>1, <2>2
  <2> QED BY <1>1, <2>1, <2>3, SubSeqProperties
<1>3. ToSet(stack') \subseteq ToSet(stack)
  <2>1. DOMAIN stack' = 1 .. h /\ DOMAIN stack = 1 .. Len(stack) /\ Len(stack) \in Nat BY <1>1, <1>2
  <2>2. 1 .. h \subseteq 1 .. Len(stack) BY <2>1
  <2> QED BY <1>2, <2>1, <2>2 DEF ToSet
<1> QED BY <1>2, <1>3 DEF Held, IsSeq

\* What a claim leads to that asks no more of the state than what is so after a step.
LEMMA PlannedBy ==
    ASSUME NEW A, NEW E, Leads(A, todo', E), Holds(A, Alive(A, Head(todo)))'
    PROVE  Planned'
  BY DEF Planned

\* An exception is thrown and taken by a handler, whose code pushes it and goes on.
LEMMA CaughtGoes ==
    ASSUME NEW A, NEW B, NEW E, Ready(A, B), DoThrow, Leads(B, Tail(todo), E),
           NEW k \in DOMAIN frames, NEW height \in frames[k].base + 1 .. Len(stack),
           Above(height - 1) = {}, frames' = SubSeq(frames, 1, k),
           stack' = SubSeq(stack, 1, height), open' = open,
           GoOn(<<Push("r")>> \o Tail(todo), [local EXCEPT !["r"] = exception'])
    PROVE  Sound' /\ Planned'
<1>1. Step.op = "throw" BY DEF DoThrow, Doing, Step
<1>2. GoesThrow(A, Step, B) /\ Sane(A) /\ Sane(B) /\ B.texts = {} /\ (B.free => A.free)
  BY <1>1, GoesIs DEF Ready
<1>3. UNCHANGED <<allowed, capacity, globals, named>> BY DEF DoThrow
<1>4. /\ HeapIsSound(heap') /\ Preserves(heap, heap') /\ DOMAIN heap' = DOMAIN heap
      /\ exception' \subseteq DOMAIN heap
  BY ThrowHeap
<1>5. IsSeq(Tail(todo)) BY DEF Leads
<1>6. todo' = <<Push("r")>> \o Tail(todo) /\ local' = [local EXCEPT !["r"] = exception']
      /\ program' = program /\ phase' = "idle" /\ todo' # <<>> /\ Head(todo') = Push("r")
  BY <1>5, ConsIs DEF GoOn
<1>7. ControlIsSound'
  <2>1. exception' \subseteq Obj BY <1>4 DEF Ready, Kept
  <2> QED BY <1>3, <1>6, <2>1 DEF ControlIsSound, Ready, Sound
<1>8. HeapIsSound(heap)' BY <1>4, <1>6, SoundNext
<1>9. IsSeq(stack) /\ Len(stack) \in Nat BY SeqIs DEF Ready, Typed
<1>10. /\ \A i \in DOMAIN frames : frames[i].base \in Nat /\ frames[i].base < Len(stack)
       /\ \A i, j \in DOMAIN frames : i < j => frames[i].base < frames[j].base
       /\ \A u \in open : u.slot \in Nat
       /\ capacity \in Nat \ {0} /\ Len(stack) <= capacity
  BY DEF Ready, Sound, StackIsSound
<1>11. height \in Nat /\ height <= Len(stack) /\ frames[k].base < height
  <2>1. frames[k].base \in Nat BY <1>10
  <2> QED BY <1>9, <2>1
<1>12. /\ Held'["stack"] \subseteq Held["stack"] /\ Len(stack') = height /\ IsSeq(stack')
  BY <1>9, <1>11, CutUnder
<1>13. /\ DOMAIN frames' = 1 .. k /\ 1 .. k \subseteq DOMAIN frames
       /\ \A i \in 1 .. k : frames'[i] = frames[i]
  <2>1. PICK S : frames \in Seq(S) BY DEF IsSeq, Ready, Typed
  <2>2. k \in 1 .. Len(frames) /\ Len(frames) \in Nat /\ DOMAIN frames = 1 .. Len(frames) BY <2>1
  <2>3. 1 .. k \subseteq 1 .. Len(frames) BY <2>2
  <2>4. \A i \in 1 .. k : frames[i] \in S BY <2>1, <2>2, <2>3
  <2> QED BY <2>1, <2>2, <2>3, <2>4, SubSeqProperties
<1>14. \A i \in 1 .. k : frames'[i].base \in Nat /\ frames'[i].base < height
  <2>1. ASSUME NEW i \in 1 .. k PROVE frames[i].base \in Nat /\ frames[i].base < height
    <3>1. k \in Nat
      <4>1. PICK S : frames \in Seq(S) BY DEF IsSeq, Ready, Typed
      <4> QED BY <4>1
    <3>2. i = k \/ i < k BY <3>1
    <3>3. frames[i].base \in Nat /\ frames[k].base \in Nat BY <1>10, <1>13
    <3>4. i < k => frames[i].base < frames[k].base BY <1>10, <1>13
    <3> QED BY <1>11, <3>2, <3>3, <3>4
  <2> QED BY <1>13, <2>1
<1>15. \A u \in open : u.slot \in Nat /\ u.slot < height
  <2>1. \A u \in open : u.slot \in Nat /\ ~ (u.slot > height - 1) BY <1>10 DEF Above
  <2> QED BY <1>11, <2>1
<1>16. StackIsSound'
  <2>1. Len(stack') <= capacity BY <1>9, <1>10, <1>11, <1>12
  <2> QED BY <1>3, <1>10, <1>12, <1>13, <1>14, <1>15, <2>1 DEF StackIsSound
<1>17. HandIsSound'
  <2>1. Held'["frames"] \subseteq Held["frames"]
    <3>1. UNION {frames'[i].closure : i \in 1 .. k} \subseteq UNION {frames[i].closure : i \in DOMAIN frames}
      BY <1>13
    <3> QED BY <1>13, <3>1 DEF Held
  <2>2. /\ Held'["globals"] = Held["globals"] /\ Held'["upvalues"] = Held["upvalues"]
        /\ Held'["names"] = Held["names"] /\ Held'["exception"] = exception'
    BY <1>3 DEF Held
  <2>3. InHand' \subseteq DOMAIN heap'
    BY <1>4, <1>12, <2>1, <2>2, InHandIs, InHandNext DEF Ready, Sound, HandIsSound
  <2>4. /\ \A i \in DOMAIN frames : frames[i].closure \subseteq DOMAIN heap
        /\ \A u \in open : u.upvalue \subseteq DOMAIN heap
    BY HandOf DEF Ready, Sound, HandIsSound
  <2>5. /\ \A i \in DOMAIN frames : IsA(heap', frames[i].closure, "closure")
        /\ \A u \in open : IsA(heap', u.upvalue, "upvalue")
    BY <1>4, <2>4, IsAKept DEF Ready, Sound, HandIsSound
  <2> QED BY <1>13, <2>3, <2>5 DEF HandIsSound
<1>18. Sound' BY <1>7, <1>8, <1>16, <1>17 DEF Sound
<1>0. PICK ok, kinds : /\ ok = Alive(A, Step) \cup {"r"}
                       /\ kinds = {kind \in A.kinds : kind[1] # "r"}
  OBVIOUS
<1> DEFINE C == [ok |-> ok, held |-> {}, base |-> {}, kinds |-> kinds, off |-> A.off,
                 room |-> A.room, depth |-> 0, low |-> 0, texts |-> {}, free |-> A.free]
<1>19. ok \subseteq Registers BY <1>0, <1>2, AliveIsOk DEF Registers
<1>20. /\ C.ok = ok /\ C.held = {} /\ C.base = {} /\ C.kinds = kinds /\ C.off = A.off
       /\ C.room = A.room /\ C.depth = 0 /\ C.low = 0 /\ C.texts = {} /\ C.free = A.free
  OBVIOUS
<1> HIDE DEF C
<1>21. Sane(C) BY <1>2, <1>19, <1>20 DEF Sane
<1>22. Goes(C, Push("r"), B)
  <2>1. /\ Push("r").op = "push" /\ Push("r").to = "r" /\ Push("r").from = {"r"}
    BY DEF Push, Do
  <2>2. Alive(C, Push("r")) = ok BY <1>20, <2>1 DEF Alive, Allocates
  <2>3. B.ok \subseteq ok /\ B.kinds \subseteq kinds BY <1>0, <1>2 DEF GoesThrow
  <2>4. SameVariables(C, Push("r"), B) BY <1>20, <2>2, <2>3 DEF SameVariables
  <2>5. B.depth <= 0 + 1 /\ B.low <= 0 + 1 BY <1>2 DEF GoesThrow
  <2>6. GoesPush(C, Push("r"), B) BY <1>2, <1>20, <2>1, <2>4, <2>5 DEF GoesPush, GoesThrow, NoneHeld
  <2>7. "r" \in Registers /\ "r" \in ok BY <1>0 DEF Registers
  <2> QED BY <1>2, <1>20, <1>21, <2>1, <2>2, <2>6, <2>7 DEF Goes
<1>23. Leads(C, todo', E) BY <1>6, <1>22, LeadsOne, LeadsThen
<1>24. Holds(C, Alive(C, Push("r")))'
  <2>1. Alive(C, Push("r")) = ok BY <1>20 DEF Alive, Allocates, Push, Do
  <2>2. RegsHold(C, ok)'
    <3>1. RegsHold(A, Alive(A, Step)) /\ HeapIsSound(heap) BY DEF Ready, Holds, Sound
    <3>2. \A r \in Registers : local'[r] = IF r = "r" THEN exception' ELSE local[r]
      BY <1>6 DEF Ready, Sound, ControlIsSound
    <3>3. \A r \in ok : local'[r] \subseteq DOMAIN heap'
      BY <1>0, <1>4, <1>19, <3>1, <3>2 DEF RegsHold
    <3>4. ASSUME NEW r \in ok, NEW kind, <<r, kind>> \in C.kinds PROVE IsA(heap', local'[r], kind)
      <4>1. <<r, kind>> \in A.kinds /\ r # "r" BY <1>0, <1>20, <3>4
      <4>2. r \in Alive(A, Step) /\ local'[r] = local[r] BY <1>0, <1>19, <3>2, <4>1
      <4>3. IsA(heap, local[r], kind) /\ local[r] \subseteq DOMAIN heap
        BY <3>1, <4>1, <4>2 DEF RegsHold
      <4> QED BY <1>4, <3>1, <4>2, <4>3, IsAKept
    <3> QED BY <3>3, <3>4 DEF RegsHold
  <2>3. RootsHold(C)' BY <1>20 DEF RootsHold
  <2>4. TextsHold(C)' BY <1>20 DEF TextsHold
  <2>5. PlaceHolds(C)'
    <3>1. /\ A.off => ~ allowed
          /\ A.room => Len(stack) < capacity
          /\ A.free => ModuleText \notin program.texts
      BY DEF Ready, Holds, PlaceHolds
    <3>2. Len(stack) < capacity => height < capacity BY <1>9, <1>10, <1>11
    <3>3. \A x \in Nat : x < height => x + 0 < height BY <1>11
    <3>4. 0 <= height BY <1>11
    <3> QED BY <1>3, <1>6, <1>12, <1>13, <1>14, <1>15, <1>20, <3>1, <3>2, <3>3, <3>4 DEF PlaceHolds
  <2> QED BY <2>1, <2>2, <2>3, <2>4, <2>5 DEF Holds
<1>25. Holds(C, Alive(C, Head(todo)))' BY <1>6, <1>24
<1> QED BY <1>18, <1>23, <1>25, PlannedBy

\* An exception that no handler takes resets the stack.
LEMMA UncaughtGoes ==
    ASSUME NEW A, NEW B, NEW E, Ready(A, B), DoThrow, Leads(B, Tail(todo), E),
           frames' = <<>>, stack' = <<>>, open' = {}, GoOn(CleanUp(Tail(todo)), local)
    PROVE  Sound' /\ Planned'
<1>1. UNCHANGED <<allowed, capacity, globals, named>> BY DEF DoThrow
<1>2. /\ HeapIsSound(heap') /\ Preserves(heap, heap') /\ DOMAIN heap' = DOMAIN heap
      /\ exception' \subseteq DOMAIN heap
  BY ThrowHeap
<1>3. todo' = CleanUp(Tail(todo)) /\ (local' = local \/ local' = NoLocals)
      /\ program' = program /\ phase' = "idle"
  BY DEF GoOn
<1>4. ControlIsSound'
  <2>1. NoLocals \in [Registers -> SUBSET Obj] BY DEF NoLocals
  <2> QED BY <1>1, <1>3, <2>1 DEF ControlIsSound, Ready, Sound
<1>5. HeapIsSound(heap)' BY <1>2, <1>3, SoundNext
<1>6. IsSeq(stack') /\ Len(stack') = 0 /\ DOMAIN frames' = {}
  BY CodeOf, CodeIsSeq
<1>7. StackIsSound'
  <2>1. capacity \in Nat \ {0} BY DEF Ready, Sound, StackIsSound
  <2> QED BY <1>1, <1>6, <2>1 DEF StackIsSound
<1>8. HandIsSound'
  <2>1. Held'["stack"] = {}
    <3>1. DOMAIN stack' = {} OBVIOUS
    <3>2. ToSet(stack') = {} BY <3>1 DEF ToSet
    <3> QED BY <3>2 DEF Held
  <2>2. Held'["frames"] = {} /\ Held'["upvalues"] = {} BY <1>6 DEF Held
  <2>3. /\ Held'["globals"] = Held["globals"] /\ Held'["names"] = Held["names"]
        /\ Held'["exception"] = exception'
    BY <1>1 DEF Held
  <2>4. InHand' \subseteq DOMAIN heap'
    BY <1>2, <2>1, <2>2, <2>3, InHandIs, InHandNext DEF Ready, Sound, HandIsSound
  <2> QED BY <1>6, <2>4 DEF HandIsSound
<1>9. Sound' BY <1>4, <1>5, <1>7, <1>8 DEF Sound
<1>10. Planned'
  <2>1. CASE todo' = <<>> BY <2>1 DEF Planned
  <2>2. CASE todo' # <<>>
    <3>1. todo' = <<Allow(TRUE)>> BY <1>3, <2>2 DEF CleanUp
    <3>2. /\ Allow(TRUE).op = "allow" /\ Allow(TRUE).to = "r" /\ Allow(TRUE).from = {}
          /\ Allow(TRUE).arg = TRUE
      BY DEF Allow, Do
    <3>3. Head(todo') = Allow(TRUE) BY <3>1
    <3>4. Nothing = Nothing /\ Sane(Nothing) BY DEF Sane, Nothing
    <3>5. Alive(Nothing, Allow(TRUE)) = {} BY <3>2 DEF Alive, Nothing, Allocates
    <3>6. GoesAllow(Nothing, Allow(TRUE), Nothing)
      <4>1. /\ Nothing.ok = {} /\ Nothing.kinds = {} /\ Nothing.held = {} /\ Nothing.base = {}
            /\ Nothing.off = FALSE /\ Nothing.room = FALSE /\ Nothing.depth = 0 /\ Nothing.low = 0
        BY DEF Nothing
      <4>2. SameStack(Nothing, Nothing) BY <4>1 DEF SameStack
      <4>3. SameVariables(Nothing, Allow(TRUE), Nothing) /\ SameHeld(Nothing, Nothing)
        BY <4>1 DEF SameVariables, SameHeld
      <4> QED BY <3>2, <4>1, <4>2, <4>3 DEF GoesAllow
    <3>7. Goes(Nothing, Allow(TRUE), Nothing)
      <4>1. Nothing.texts = {} BY DEF Nothing
      <4> QED BY <3>2, <3>4, <3>6, <4>1, Names DEF Goes
    <3>8. Leads(Nothing, todo', Nothing) BY <3>1, <3>7, LeadsOne
    <3>9. Holds(Nothing, {})' BY <1>6, <1>7, NothingHolds
    <3>10. Holds(Nothing, Alive(Nothing, Head(todo)))' BY <3>3, <3>5, <3>9
    <3> QED BY <3>8, <3>10, PlannedBy
  <2> QED BY <2>1, <2>2
<1> QED BY <1>9, <1>10

LEMMA ThrowGoes ==
    ASSUME NEW A, NEW B, NEW E, Ready(A, B), DoThrow, Leads(B, Tail(todo), E)
    PROVE  Sound' /\ Planned'
<1>1. \/ \E k \in DOMAIN frames : \E height \in frames[k].base + 1 .. Len(stack) :
             /\ Above(height - 1) = {}
             /\ frames' = SubSeq(frames, 1, k)
             /\ stack' = SubSeq(stack, 1, height)
             /\ open' = open
             /\ GoOn(<<Push("r")>> \o Tail(todo), [local EXCEPT !["r"] = exception'])
      \/ /\ frames' = <<>> /\ stack' = <<>> /\ open' = {}
         /\ GoOn(CleanUp(Tail(todo)), local)
  BY DEF DoThrow
<1> QED BY <1>1, CaughtGoes, UncaughtGoes

LEMMA KindIs ==
    ASSUME NEW type, NEW f
    PROVE  Kind(type, f) \in {"any", "function", "upvalue", "class", "closure", "array"}
  BY DEF Kind

\* Variables that fit a field fill it soundly.
LEMMA FitsIs ==
    ASSUME NEW A, NEW B, Ready(A, B), NEW type, NEW f, NEW from, from \subseteq Step.from,
           \A r \in from : FitsField(A, r, type, f)
    PROVE  FieldIsSound(heap, type, f, Values(from))
<1> DEFINE v == Values(from)
           kind == Kind(type, f)
<1>1. /\ v \subseteq DOMAIN heap
      /\ \A r \in from : r \in Alive(A, Step)
      /\ \A o \in v : \E r \in from : o \in local[r]
  BY ReadsAreKept DEF Values
<1>2. RegsHold(A, Alive(A, Step)) BY DEF Ready, Holds
<1>3. kind \in {"any", "function", "upvalue", "class", "closure", "array"} BY KindIs
<1> HIDE DEF v, kind
<1>4. IsA(heap, v, kind)
  <2>1. CASE kind = "any" BY <2>1 DEF IsA
  <2>2. CASE kind # "any"
    <3>1. \A r \in from : <<r, kind>> \in A.kinds BY <2>2 DEF FitsField, kind
    <3>2. \A r \in from : IsA(heap, local[r], kind) BY <1>1, <1>2, <3>1 DEF RegsHold
    <3>3. kind \notin {"any", "one", "module", "complete"} BY <1>3, <2>2
    <3>4. \A o \in v : heap[o].type = kind BY <1>1, <3>2, <3>3 DEF IsA
    <3> QED BY <3>3, <3>4 DEF IsA
  <2> QED BY <2>1, <2>2
<1>5. ASSUME NEW r \in from, IsNamed(A, r) PROVE Complete(heap, local[r])
  <2>1. CASE A.free BY <2>1 DEF Ready, Holds, PlaceHolds, Complete
  <2>2. CASE <<r, "complete">> \in A.kinds
    <3>1. IsA(heap, local[r], "complete") BY <1>1, <1>2, <2>2 DEF RegsHold
    <3> QED BY <3>1 DEF Complete
  <2> QED BY <1>5, <2>1, <2>2 DEF IsNamed
<1>6. ASSUME f = "function" PROVE Complete(heap, v)
  <2>1. \A r \in from : Complete(heap, local[r]) BY <1>5, <1>6 DEF FitsField
  <2> QED BY <1>1, <2>1 DEF Complete, IsA
<1>7. ASSUME f = "constants", NEW o \in v, heap[o].type = "function" PROVE Complete(heap, {o})
  <2>1. PICK r \in from : o \in local[r] BY <1>1
  <2>2. CASE <<r, "string">> \in A.kinds
    <3>1. IsA(heap, local[r], "string") BY <1>1, <1>2, <2>2 DEF RegsHold
    <3> QED BY <1>7, <2>1, <3>1 DEF IsA
  <2>3. CASE IsNamed(A, r)
    <3>1. Complete(heap, local[r]) BY <1>5, <2>3
    <3> QED BY <2>1, <3>1 DEF Complete, IsA
  <2> QED BY <1>7, <2>2, <2>3 DEF FitsField
<1>8. FieldIsSound(heap, type, f, v) BY <1>1, <1>4, <1>6, <1>7 DEF FieldIsSound, kind
<1> QED BY <1>8 DEF v

\* An object is made: it is on the heap, and no one but its variable has it.
LEMMA NewGoes ==
    ASSUME NEW A, NEW B, Ready(A, B), DoNew
    PROVE  Done(B)'
<1> DEFINE to == Step.to
           type == Step.arg.type
           text == Step.arg.text
           parts == Step.arg.parts
<1>1. Step.op = "new" BY DEF DoNew, Doing, Step
<1>2. GoesNew(A, Step, B) /\ Sane(A) /\ Sane(B) /\ B.texts = {} /\ (B.free => A.free)
      /\ to \in Registers
  BY <1>1, GoesIs DEF Ready
<1>3. PICK obj : /\ obj = Min(Obj \ DOMAIN heap)
                 /\ heap' = [o \in DOMAIN heap \cup {obj} |->
                       IF o # obj THEN heap[o]
                       ELSE [type |-> type, text |-> text,
                             refs |-> [f \in Fields[type] |->
                                 IF f \in DOMAIN parts THEN Values(parts[f]) ELSE {}]]]
                 /\ GoOn(Tail(todo), [local EXCEPT ![to] = {obj}])
  BY DEF DoNew
<1>4. UNCHANGED <<allowed, stack, capacity, frames, globals, open, exception, named>>
  BY DEF DoNew, program_vars
<1>5. obj \in Obj /\ obj \notin DOMAIN heap
  <2>1. Cardinality(DOMAIN heap) < program.objects BY DEF DoNew
  <2> QED BY <1>3, <2>1, FreshIs DEF Ready
<1>6. HeapIsSound(heap) /\ RegsHold(A, Alive(A, Step)) /\ Sane(A)
  BY <1>2 DEF Ready, Sound, Holds
<1> HIDE DEF to, type, text, parts
<1>7. /\ DOMAIN heap' = DOMAIN heap \cup {obj}
      /\ \A o \in DOMAIN heap : heap'[o] = heap[o]
      /\ heap'[obj].type = type /\ heap'[obj].text = text
      /\ DOMAIN heap'[obj] = {"type", "text", "refs"} /\ DOMAIN heap'[obj].refs = Fields[type]
      /\ \A f \in Fields[type] : heap'[obj].refs[f] = IF f \in DOMAIN parts THEN Values(parts[f]) ELSE {}
  BY <1>3, <1>5
<1>8. Preserves(heap, heap') BY <1>7 DEF Preserves
<1>9. HeapIsSound(heap')
  <2>1. ASSUME NEW o \in DOMAIN heap
        PROVE  /\ heap'[o].type \in DOMAIN Fields /\ heap'[o].text \subseteq Texts
               /\ DOMAIN heap'[o] = {"type", "text", "refs"}
               /\ DOMAIN heap'[o].refs = Fields[heap'[o].type]
               /\ \A f \in Fields[heap'[o].type] : FieldIsSound(heap', heap'[o].type, f, heap'[o].refs[f])
    <3>1. heap'[o] = heap[o] BY <1>7
    <3>2. /\ heap[o].type \in DOMAIN Fields /\ heap[o].text \subseteq Texts
          /\ DOMAIN heap[o] = {"type", "text", "refs"} /\ DOMAIN heap[o].refs = Fields[heap[o].type]
          /\ \A f \in Fields[heap[o].type] : FieldIsSound(heap, heap[o].type, f, heap[o].refs[f])
      BY <1>6 DEF HeapIsSound
    <3>3. \A f \in Fields[heap[o].type] : FieldIsSound(heap', heap[o].type, f, heap[o].refs[f])
      BY <1>6, <1>8, <3>2, FieldKept
    <3> QED BY <3>1, <3>2, <3>3
  <2>2. ASSUME NEW f \in Fields[type] PROVE FieldIsSound(heap', type, f, heap'[obj].refs[f])
    <3>1. CASE f \in DOMAIN parts
      <4>1. parts[f] \subseteq Step.from /\ \A r \in parts[f] : FitsField(A, r, type, f)
        BY <1>2, <3>1 DEF GoesNew, parts, type
      <4>2. FieldIsSound(heap, type, f, Values(parts[f])) BY <4>1, FitsIs
      <4>3. FieldIsSound(heap', type, f, Values(parts[f])) BY <1>6, <1>8, <4>2, FieldKept
      <4> QED BY <1>7, <3>1, <4>3
    <3>2. CASE f \notin DOMAIN parts
      <4>1. heap'[obj].refs[f] = {} BY <1>7, <3>2
      <4>2. IsA(heap', {}, Kind(type, f))
        <5>1. Kind(type, f) \notin {"one", "module"} BY KindIs
        <5> QED BY <5>1 DEF IsA
      <4>3. Complete(heap', {}) BY DEF Complete, IsA
      <4>4. FieldIsSound(heap', type, f, {}) BY <4>2, <4>3 DEF FieldIsSound
      <4> QED BY <4>1, <4>4
    <3> QED BY <3>1, <3>2
  <2>3. type \in DOMAIN Fields /\ text \subseteq Texts BY <1>2 DEF GoesNew, type, text
  <2> QED BY <1>7, <2>1, <2>2, <2>3 DEF HeapIsSound
<1>10. allowed' \in BOOLEAN BY <1>4 DEF Ready, Sound, ControlIsSound
<1>11. /\ ControlIsSound' /\ program' = program
       /\ todo' # <<>> => /\ local'[to] = {obj}
                          /\ \A r \in Registers : r # to => local'[r] = local[r]
  <2>1. {obj} \subseteq Obj /\ to \in Registers BY <1>2, <1>5
  <2>2. GoOn(Tail(todo), [local EXCEPT ![to] = {obj}]) BY <1>3
  <2>3. ControlIsSound /\ phase # "mark" BY DEF Ready, Sound
  <2> QED BY <1>10, <2>1, <2>2, <2>3, LocalSet
<1>12. HandIsSound'
  <2>1. InHand' = InHand BY <1>4 DEF InHand, Held
  <2> QED BY <1>4, <1>6, <1>7, <1>8, <2>1, HandKept DEF HandIsSound, Ready, Sound, Typed
<1>13. Sound' BY <1>4, <1>9, <1>11, <1>12, SoundNext, StackSame DEF Ready, Sound
<1>14. ASSUME todo' # <<>> PROVE Holds(B, B.ok)'
  <2>1. RegsHold(B, B.ok)'
    <3>1. PICK kinds : /\ kinds = {"one"} \cup IF type = "string" THEN StringKinds(text) ELSE {type}
                       /\ Assigned(A, Step, B, kinds)
      BY <1>2 DEF GoesNew, type, text
    <3>2. ASSUME NEW kind \in kinds PROVE IsA(heap', {obj}, kind)
      <4>1. CASE kind = "one" BY <4>1 DEF IsA
      <4>2. CASE type = "string" /\ kind \in StringKinds(text)
        <5>1. kind = "string" \/ (kind = "module" /\ text = {ModuleText}) BY <4>2 DEF StringKinds
        <5> QED BY <1>7, <4>2, <5>1 DEF IsA
      <4>3. CASE kind = type
        <5>1. type \in DOMAIN Fields BY <1>2 DEF GoesNew, type
        <5>2. type \notin {"any", "one", "module", "complete"} BY <5>1 DEF Fields
        <5> QED BY <1>7, <4>3, <5>2 DEF IsA
      <4> QED BY <3>1, <4>1, <4>2, <4>3
    <3>3. local'[to] = {obj} /\ \A r \in Registers : r # to => local'[r] = local[r] BY <1>11, <1>14
    <3>4. local'[to] \subseteq DOMAIN heap' BY <1>7, <3>3
    <3>5. \A kind \in kinds : IsA(heap', local'[to], kind) BY <3>2, <3>3
    <3> QED BY <1>6, <1>8, <3>1, <3>3, <3>4, <3>5, RegsAssigned DEF to
  <2>2. RootsHold(B)'
    <3>1. Full' = Full /\ Below' = Below BY <1>4, UnderSame
    <3>2. B.held \subseteq A.held \ {to} /\ B.base \subseteq A.base \ {to}
          /\ A.held \subseteq Registers /\ A.base \subseteq Registers
      BY <1>2 DEF GoesNew, to, Sane
    <3>3. \A r \in A.held : HeldBy(heap', Full, local[r])
      BY <1>7, HeldGrows DEF Ready, Holds, RootsHold
    <3>4. \A r \in A.base : HeldBy(heap', Below, local[r])
      BY <1>7, HeldGrows DEF Ready, Holds, RootsHold
    <3>5. \A r \in Registers : r # to => local'[r] = local[r] BY <1>11, <1>14
    <3> QED BY <3>1, <3>2, <3>3, <3>4, <3>5 DEF RootsHold
  <2>3. PlaceHolds(B)'
    BY <1>2, <1>4, <1>11, PlaceSame DEF GoesNew, Ready, Holds, Sound, Typed
  <2> QED BY <1>2, <2>1, <2>2, <2>3, NoTexts DEF Holds
<1> QED BY <1>13, <1>14 DEF Done

\* The claim on a string that has to be made.
Unmade(A, s) == [ok |-> Alive(A, s), held |-> A.held, base |-> {}, kinds |-> A.kinds,
                 off |-> A.off /\ A.room, room |-> A.off /\ A.room,
                 depth |-> A.depth, low |-> A.low, texts |-> {}, free |-> A.free]

LEMMA UnmadeIs ==
    ASSUME NEW A, NEW s
    PROVE  /\ Unmade(A, s).ok = Alive(A, s) /\ Unmade(A, s).held = A.held
           /\ Unmade(A, s).base = {} /\ Unmade(A, s).kinds = A.kinds
           /\ Unmade(A, s).off = (A.off /\ A.room) /\ Unmade(A, s).room = (A.off /\ A.room)
           /\ Unmade(A, s).depth = A.depth /\ Unmade(A, s).low = A.low
           /\ Unmade(A, s).texts = {} /\ Unmade(A, s).free = A.free
  BY DEF Unmade

\* allocate_string, from a claim on what it must not lose to a claim that it has the string.
LEMMA AllocateLeads ==
    ASSUME NEW A, NEW B, NEW s, Goes(A, s, B), s.op \in {"intern", "copy"}, s.arg \notin A.texts
    PROVE  /\ Leads(Unmade(A, s), AllocateString(s.to, s.arg), B)
           /\ Leads(Unmade(A, s), <<Block>>, Unmade(A, s))
<1> DEFINE to == s.to
           text == s.arg
           good == Alive(A, s)
           off == A.off /\ A.room
           kinds == {k \in A.kinds : k[1] # to} \cup {<<to, kind>> : kind \in {"one"} \cup StringKinds({text})}
           C == Unmade(A, s)
           D == [ok |-> good \cup {to}, held |-> A.held \ {to}, base |-> {}, kinds |-> kinds,
                 off |-> off, room |-> off, depth |-> A.depth, low |-> A.low, texts |-> {},
                 free |-> A.free]
           F == [ok |-> good \cup {to}, held |-> (A.held \ {to}) \cup {to}, base |-> A.held \ {to},
                 kinds |-> kinds, off |-> off, room |-> FALSE, depth |-> A.depth + 1,
                 low |-> A.low + 1, texts |-> {}, free |-> A.free]
<1>1. GoesIntern(A, s, B) /\ Sane(A) /\ Sane(B) /\ B.texts = {} /\ (B.free => A.free)
      /\ to \in Registers
  BY GoesIs
<1>2. /\ A.held \subseteq A.ok /\ A.ok \subseteq Registers
      /\ A.depth \in Nat /\ A.low \in Nat /\ A.off \in BOOLEAN /\ A.room \in BOOLEAN
      /\ A.free \in BOOLEAN
  BY <1>1 DEF Sane
<1>3. good = IF off THEN A.ok ELSE A.held BY DEF Alive, Allocates
<1>4. A.held \subseteq good /\ good \subseteq Registers /\ off \in BOOLEAN BY <1>2, <1>3
<1>5. /\ C.ok = good /\ C.held = A.held /\ C.base = {} /\ C.kinds = A.kinds
      /\ C.off = off /\ C.room = off /\ C.depth = A.depth /\ C.low = A.low
      /\ C.texts = {} /\ C.free = A.free
  BY UnmadeIs
<1>6. /\ D.ok = good \cup {to} /\ D.held = A.held \ {to} /\ D.base = {} /\ D.kinds = kinds
      /\ D.off = off /\ D.room = off /\ D.depth = A.depth /\ D.low = A.low
      /\ D.texts = {} /\ D.free = A.free
  OBVIOUS
<1>7. /\ F.ok = good \cup {to} /\ F.held = (A.held \ {to}) \cup {to} /\ F.base = A.held \ {to}
      /\ F.kinds = kinds /\ F.off = off /\ F.room = FALSE /\ F.depth = A.depth + 1
      /\ F.low = A.low + 1 /\ F.texts = {} /\ F.free = A.free
  OBVIOUS
<1> HIDE DEF C, D, F
<1>8. /\ B.ok \subseteq good \cup {to}
      /\ B.kinds \subseteq {k \in A.kinds : k[1] # to} \cup {<<to, kind>> : kind \in StringKinds({text})}
      /\ B.held \subseteq A.held \ {to} /\ B.base = {}
      /\ (B.off => off) /\ B.depth <= A.depth /\ B.low <= A.low /\ text \in Texts
  BY <1>1 DEF GoesIntern, Assigned, SameStack
<1>9. B.kinds \subseteq kinds BY <1>8
<1> DEFINE made == NewOf(to, "string", {text}, <<>>)
<1>10. /\ made.op = "new" /\ made.to = to /\ made.from = {}
       /\ made.arg.type = "string" /\ made.arg.text = {text} /\ made.arg.parts = <<>>
  <2>1. UNION Range(<<>>) = {} BY DEF Range
  <2> QED BY <2>1 DEF NewOf, Do
<1>11. /\ Block.op = "block" /\ Block.to = "r" /\ Block.from = {}
       /\ Push(to).op = "push" /\ Push(to).to = "r" /\ Push(to).from = {to}
       /\ Remember(to).op = "remember" /\ Remember(to).to = "r" /\ Remember(to).from = {to}
       /\ Drop(1).op = "drop" /\ Drop(1).to = "r" /\ Drop(1).from = {} /\ Drop(1).arg = 1
  BY DEF Block, Push, Remember, Drop, Do
<1> HIDE DEF good, off, kinds, made
<1>12. Sane(C) /\ Sane(D) /\ Sane(F)
  <2>1. A.depth + 1 \in Nat /\ A.low + 1 \in Nat BY <1>2
  <2>2. Sane(C) BY <1>2, <1>4, <1>5 DEF Sane
  <2>3. Sane(D) BY <1>1, <1>2, <1>4, <1>6 DEF Sane
  <2>4. /\ F.base \subseteq F.held /\ F.held \subseteq F.ok /\ F.ok \subseteq Registers
    BY <1>1, <1>4, <1>7
  <2>5. F.depth \in Nat /\ F.low \in Nat BY <1>7, <2>1
  <2>6. F.off \in BOOLEAN /\ F.room \in BOOLEAN /\ F.free \in BOOLEAN BY <1>2, <1>4, <1>7
  <2> QED BY <2>2, <2>3, <2>4, <2>5, <2>6 DEF Sane
<1>13. Goes(C, Block, C)
  <2>1. Alive(C, Block) = good
    <3>1. off => good = good OBVIOUS
    <3>2. ~ off => good = A.held BY <1>3 DEF off, good
    <3> QED BY <1>4, <1>5, <1>11, <3>2 DEF Alive, Allocates
  <2>2. GoesQuiet(C, Block, C)
    BY <1>2, <1>5, <1>11, <2>1 DEF GoesQuiet, SameVariables, SameHeld, SameGc, SameStack
  <2> QED BY <1>5, <1>11, <1>12, <2>2, Names DEF Goes
<1>14. Goes(C, made, D)
  <2>1. Alive(C, made) = good
    <3>1. ~ off => good = A.held BY <1>3 DEF off, good
    <3> QED BY <1>4, <1>5, <1>10, <3>1 DEF Alive, Allocates
  <2>2. Fields["string"] = {} /\ "string" \in DOMAIN Fields BY DEF Fields
  <2>3. Assigned(C, made, D, {"one"} \cup StringKinds({text}))
    BY <1>5, <1>6, <1>10, <2>1 DEF Assigned, kinds
  <2>4. GoesNew(C, made, D)
    <3>1. SameGc(C, D) /\ SameStack(C, D) BY <1>2, <1>5, <1>6 DEF SameGc, SameStack
    <3>2. {text} \subseteq Texts BY <1>8
    <3> QED BY <1>5, <1>6, <1>10, <2>2, <2>3, <3>1, <3>2 DEF GoesNew
  <2> QED BY <1>1, <1>5, <1>6, <1>10, <1>12, <2>4 DEF Goes
<1>15. Goes(D, Push(to), F)
  <2>1. Alive(D, Push(to)) = good \cup {to} BY <1>6, <1>11 DEF Alive, Allocates
  <2>2. GoesPush(D, Push(to), F)
    <3>1. SameVariables(D, Push(to), F) BY <1>6, <1>7, <2>1 DEF SameVariables
    <3>2. F.depth <= D.depth + 1 /\ F.low <= D.low + 1 BY <1>2, <1>6, <1>7
    <3> QED BY <1>6, <1>7, <1>11, <3>1, <3>2 DEF GoesPush
  <2> QED BY <1>6, <1>7, <1>11, <1>12, <2>1, <2>2, Names DEF Goes
<1>16. Goes(F, Block, F)
  <2>1. Alive(F, Block) = good \cup {to}
    <3>1. ~ off => good = A.held BY <1>3 DEF off, good
    <3>2. ~ off => F.held = good \cup {to} BY <1>7, <3>1
    <3> QED BY <1>7, <1>11, <3>2 DEF Alive, Allocates
  <2>2. GoesQuiet(F, Block, F)
    <3>1. SameStack(F, F) BY <1>2, <1>7 DEF SameStack
    <3> QED BY <1>7, <1>11, <2>1, <3>1 DEF GoesQuiet, SameVariables, SameHeld, SameGc
  <2> QED BY <1>7, <1>11, <1>12, <2>2, Names DEF Goes
<1>17. Goes(F, Remember(to), F)
  <2>1. Alive(F, Remember(to)) = good \cup {to} BY <1>7, <1>11 DEF Alive, Allocates
  <2>2. GoesQuiet(F, Remember(to), F)
    <3>1. SameStack(F, F) BY <1>2, <1>7 DEF SameStack
    <3> QED BY <1>7, <1>11, <2>1, <3>1 DEF GoesQuiet, SameVariables, SameHeld, SameGc
  <2> QED BY <1>7, <1>11, <1>12, <2>1, <2>2, Names DEF Goes
<1>18. Goes(F, Drop(1), B)
  <2>1. Alive(F, Drop(1)) = good \cup {to} BY <1>7, <1>11 DEF Alive, Allocates
  <2>2. SameVariables(F, Drop(1), B) BY <1>7, <1>8, <1>9, <2>1 DEF SameVariables, good, kinds
  <2>3. 1 <= F.depth /\ B.depth <= F.depth - 1 /\ B.low <= F.low - 1
    <3>1. B.depth \in Nat /\ B.low \in Nat BY <1>1 DEF Sane
    <3> QED BY <1>2, <1>7, <1>8, <3>1
  <2>4. B.held \subseteq F.base /\ B.base = {} /\ (B.off => F.off) BY <1>7, <1>8
  <2>5. GoesDrop(F, Drop(1), B)
    <3>1. 1 \in Nat OBVIOUS
    <3> QED BY <1>11, <2>2, <2>3, <2>4, <3>1 DEF GoesDrop
  <2> QED BY <1>1, <1>7, <1>11, <1>12, <2>5, Names DEF Goes
<1>19. Leads(C, <<made, Push(to), Block, Remember(to), Drop(1)>>, B)
  BY <1>14, <1>15, <1>16, <1>17, <1>18, LeadsFive
<1>20. Leads(C, <<Block>>, C) BY <1>13, LeadsOne
<1> QED BY <1>19, <1>20 DEF AllocateString, made, C

\* The strings of vm->strings are strings, while one is made too.
LEMMA StringsAreAll ==
    ASSUME Strung
    PROVE  strings \subseteq All
  BY DEF Strung, Settled, Promised, Fresh

\* After a step the claim it leaves goes on to the end of the code.
LEMMA DonePlanned ==
    ASSUME NEW A, NEW B, NEW E, Goes(A, Step, B), Done(B)', Leads(B, Tail(todo), E),
           todo' = Tail(todo)
    PROVE  Sound' /\ Planned'
<1>1. Sane(B) BY GoesIs
<1>2. ASSUME todo' # <<>> PROVE Planned'
  <2>1. Holds(B, B.ok)' BY <1>2 DEF Done
  <2>2. Alive(B, Head(todo')) \subseteq B.ok BY <1>1, AliveIsOk
  <2>3. Holds(B, Alive(B, Head(todo)))' BY <2>1, <2>2 DEF Holds, RegsHold
  <2> QED BY <2>3, PlannedBy
<1>3. todo' = <<>> => Planned' BY DEF Planned
<1> QED BY <1>2, <1>3 DEF Done

\* A string that vm->strings has is taken from there.
LEMMA FoundGoes ==
    ASSUME NEW A, NEW B, Ready(A, B), Step.op \in {"intern", "copy"},
           Interned(Step.arg) # {},
           GoOn(Tail(todo), [local EXCEPT ![Step.to] = Interned(Step.arg)]),
           UNCHANGED <<heap_vars, allowed, program_vars>>
    PROVE  Done(B)'
<1> DEFINE to == Step.to
           text == Step.arg
           v == Interned(text)
<1>1. GoesIntern(A, Step, B) /\ Sane(A) /\ Sane(B) /\ B.texts = {} /\ (B.free => A.free)
      /\ to \in Registers
  BY GoesIs DEF Ready
<1>2. GoOn(Tail(todo), [local EXCEPT ![to] = v]) /\ UNCHANGED <<heap, allowed>>
      /\ UNCHANGED <<stack, capacity, frames, globals, open, exception, named>>
  BY DEF heap_vars, program_vars
<1>3. /\ v \subseteq DOMAIN heap /\ v \subseteq Obj /\ v # {}
      /\ \A s \in v : heap[s].type = "string" /\ heap[s].text = {text}
  BY StringsAreAll DEF Interned, All, Ready, Kept
<1>4. text \in A.texts => HeldBy(heap, Full, v) BY DEF Ready, Holds, TextsHold
<1> HIDE DEF v, to, text
<1>5. allowed' \in BOOLEAN BY <1>2 DEF Ready, Sound, ControlIsSound
<1>6. /\ ControlIsSound' /\ program' = program
      /\ todo' # <<>> => /\ local'[to] = v
                         /\ \A r \in Registers : r # to => local'[r] = local[r]
  <2>1. v \subseteq Obj /\ to \in Registers BY <1>1, <1>3
  <2>2. GoOn(Tail(todo), [local EXCEPT ![to] = v]) BY <1>2
  <2>3. ControlIsSound /\ phase # "mark" BY DEF Ready, Sound
  <2> QED BY <1>5, <2>1, <2>2, <2>3, LocalSet
<1>7. Sound' BY <1>2, <1>6, HeapSame, HandSame, StackSame DEF Ready, Sound
<1>8. ASSUME todo' # <<>> PROVE Holds(B, B.ok)'
  <2>1. RegsHold(B, B.ok)'
    <3>1. PICK kinds : kinds = StringKinds({text}) /\ Assigned(A, Step, B, kinds)
      BY <1>1 DEF GoesIntern, text
    <3>2. Preserves(heap, heap') /\ HeapIsSound(heap) BY <1>2, PreservesSame DEF Ready, Sound
    <3>3. RegsHold(A, Alive(A, Step)) /\ Sane(A) BY <1>1 DEF Ready, Holds
    <3>4. local'[to] \subseteq DOMAIN heap' BY <1>2, <1>3, <1>6, <1>8
    <3>5. ASSUME NEW kind \in kinds PROVE IsA(heap, v, kind)
      <4>1. kind = "string" \/ (kind = "module" /\ {text} = {ModuleText}) BY <3>1 DEF StringKinds
      <4> QED BY <1>3, <4>1 DEF IsA
    <3>6. \A kind \in kinds : IsA(heap', local'[to], kind) BY <1>2, <1>6, <1>8, <3>5
    <3> QED BY <1>6, <1>8, <3>1, <3>2, <3>3, <3>4, <3>6, RegsAssigned DEF to
  <2>2. RootsHold(B)'
    <3>1. Full' = Full /\ Below' = Below BY <1>2, UnderSame
    <3>2. \A r \in A.held : HeldBy(heap, Full, local[r]) BY DEF Ready, Holds, RootsHold
    <3>3. B.held \subseteq (A.held \ {to}) \cup (IF text \in A.texts THEN {to} ELSE {})
          /\ A.held \subseteq Registers /\ B.base = {}
      BY <1>1 DEF GoesIntern, to, text, Sane
    <3>4. ASSUME NEW r \in B.held PROVE HeldBy(heap, Full, local'[r])
      BY <1>4, <1>6, <1>8, <3>2, <3>3
    <3> QED BY <1>2, <3>1, <3>3, <3>4 DEF RootsHold
  <2>3. PlaceHolds(B)'
    <3>1. SameGc(A, B) /\ SameStack(A, B) BY <1>1 DEF GoesIntern, SameGc
    <3> QED BY <1>1, <1>2, <1>6, <3>1, PlaceSame DEF Ready, Holds, Sound, Typed
  <2> QED BY <1>1, <2>1, <2>2, <2>3, NoTexts DEF Holds
<1> QED BY <1>7, <1>8 DEF Done

\* take_string and copy_string.
LEMMA InternGoes ==
    ASSUME NEW A, NEW B, NEW E, Ready(A, B), DoIntern, Leads(B, Tail(todo), E)
    PROVE  Sound' /\ Planned'
<1>1. Step.op \in {"intern", "copy"} BY DEF DoIntern, Doing, Step
<1>2. UNCHANGED <<heap_vars, allowed, program_vars>> BY DEF DoIntern
<1>3. Goes(A, Step, B) /\ IsSeq(Tail(todo)) BY DEF Ready, Leads
<1>4. CASE Interned(Step.arg) # {}
  <2>1. GoOn(Tail(todo), [local EXCEPT ![Step.to] = Interned(Step.arg)]) BY <1>4 DEF DoIntern
  <2>2. Done(B)' BY <1>1, <1>2, <1>4, <2>1, FoundGoes
  <2>3. todo' = Tail(todo) BY <2>1 DEF GoOn
  <2> QED BY <1>3, <2>2, <2>3, DonePlanned
<1>5. CASE Interned(Step.arg) = {}
  <2>1. PICK s : s = Step OBVIOUS
  <2>2. PICK copied : /\ copied = IF s.op = "copy" THEN <<Block>> ELSE <<>>
                      /\ GoOn(copied \o AllocateString(s.to, s.arg) \o Tail(todo), local)
    BY <1>5, <2>1 DEF DoIntern
  <2> DEFINE C == Unmade(A, s)
  <2>3. Sane(A) BY <1>3, GoesIs
  <2>4. s.arg \notin A.texts BY <1>5, <2>1 DEF Ready, Holds, TextsHold
  <2>5. Leads(C, AllocateString(s.to, s.arg), B) /\ Leads(C, <<Block>>, C)
    BY <1>1, <1>3, <2>1, <2>4, AllocateLeads
  <2>6. Leads(C, copied, C) BY <2>2, <2>5, LeadsNone
  <2>7. Leads(C, copied \o AllocateString(s.to, s.arg), B) BY <2>5, <2>6, LeadsThen
  <2>8. PICK code : code = copied \o AllocateString(s.to, s.arg) \o Tail(todo) OBVIOUS
  <2>9. Leads(C, code, E) BY <2>7, <2>8, LeadsThen
  <2>10. /\ todo' = code /\ program' = program /\ phase' = "idle"
         /\ local' = IF code = <<>> THEN NoLocals ELSE local
    BY <2>2, <2>8 DEF GoOn
  <2>11. /\ C.ok = Alive(A, s) /\ C.held = A.held /\ C.base = {} /\ C.kinds = A.kinds
         /\ C.off = (A.off /\ A.room) /\ C.room = (A.off /\ A.room)
         /\ C.depth = A.depth /\ C.low = A.low /\ C.texts = {} /\ C.free = A.free
    BY UnmadeIs
  <2> HIDE DEF C
  <2>12. UNCHANGED <<heap, allowed, stack, capacity, frames, globals, open, exception, named>>
    BY <1>2 DEF heap_vars, program_vars
  <2>13. ControlIsSound'
    <3>1. NoLocals \in [Registers -> SUBSET Obj] BY DEF NoLocals
    <3> QED BY <2>10, <2>12, <3>1 DEF ControlIsSound, Ready, Sound
  <2>14. Sound' BY <2>10, <2>12, <2>13, HeapSame, HandSame, StackSame DEF Ready, Sound
  <2>15. ASSUME todo' # <<>> PROVE Planned'
    <3>1. local' = local BY <2>10, <2>15
    <3>0. Sane(C) BY <2>9, <2>10, <2>15, GoesIs, LeadsHead
    <3>2. Alive(C, Head(todo')) \subseteq C.ok BY <3>0, AliveIsOk
    <3>3. RegsHold(C, C.ok)'
      <4>1. RegsHold(A, Alive(A, s)) BY <2>1 DEF Ready, Holds
      <4> QED BY <2>11, <2>12, <3>1, <4>1, RegsSame
    <3>4. RootsHold(C)'
      <4>1. SameHeld(A, C) BY <2>11 DEF SameHeld
      <4> QED BY <2>12, <3>1, <4>1, RootsSame, UnderSame DEF Ready, Holds
    <3>5. PlaceHolds(C)'
      <4>1. SameGc(A, C) /\ (C.free => A.free) BY <2>11 DEF SameGc
      <4>3. SameStack(A, C) BY <2>3, <2>11 DEF SameStack, Sane
      <4> QED BY <2>3, <2>10, <2>12, <3>0, <4>1, <4>3, PlaceSame DEF Ready, Holds, Sound, Typed
    <3>6. TextsHold(C)' BY <2>11, NoTexts
    <3>7. Holds(C, Alive(C, Head(todo)))' BY <2>11, <3>2, <3>3, <3>4, <3>5, <3>6 DEF Holds, RegsHold
    <3> QED BY <2>9, <2>10, <3>7, PlannedBy
  <2>16. todo' = <<>> => Planned' BY DEF Planned
  <2> QED BY <2>14, <2>15, <2>16
<1> QED BY <1>4, <1>5

\* The steps of C code keep the state sound and the code planned.
LEMMA CodePlanned ==
    ASSUME Kept, Typed, Strung, Sound, Planned, CodeStep
    PROVE  Sound' /\ Planned'
<1>1. todo # <<>> /\ phase # "mark" BY CodeOp, CodeStepIs
<1>2. PICK A, E : Leads(A, todo, E) /\ Holds(A, Alive(A, Step)) BY <1>1 DEF Planned, Step
<1>3. PICK B : Goes(A, Step, B) /\ Leads(B, Tail(todo), E)
  <2>1. PICK s : s = todo OBVIOUS
  <2>2. \E B : Goes(A, Head(s), B) /\ Leads(B, Tail(s), E) BY <1>1, <1>2, <2>1, LeadsHead
  <2> QED BY <2>1, <2>2 DEF Step
<1>4. Ready(A, B) BY <1>1, <1>2, <1>3 DEF Ready
<1>5. CASE DoBlock \/ DoUse \/ DoRemember
  <2>1. Done(B)' BY <1>4, <1>5, QuietGoes
  <2>2. todo' = Tail(todo) BY <1>5 DEF DoBlock, DoUse, DoRemember, Proceed, GoOn
  <2> QED BY <1>3, <2>1, <2>2, DonePlanned
<1>6. CASE DoPush \/ DoDrop \/ DoReplace \/ DoPut \/ DoAllow \/ DoDefine \/ DoEnter \/ DoLink
  <2>1. Done(B)'
    BY <1>4, <1>6, PushGoes, DropGoes, ReplaceGoes, PutGoes, AllowGoes, DefineGoes, EnterGoes, LinkGoes
  <2>2. todo' = Tail(todo)
    BY <1>6 DEF DoPush, DoDrop, DoReplace, DoPut, DoAllow, DoDefine, DoEnter, DoLink, Proceed, GoOn
  <2> QED BY <1>3, <2>1, <2>2, DonePlanned
<1>7. CASE DoNew \/ DoFetch
  <2>1. Done(B)' BY <1>4, <1>7, NewGoes, FetchGoes
  <2>2. todo' = Tail(todo) BY <1>7 DEF DoNew, DoFetch, GoOn
  <2> QED BY <1>3, <2>1, <2>2, DonePlanned
<1>8. CASE DoIntern BY <1>3, <1>4, <1>8, InternGoes
<1>9. CASE DoThrow BY <1>3, <1>4, <1>9, ThrowGoes
<1> QED BY <1>5, <1>6, <1>7, <1>8, <1>9 DEF CodeStep

\* What is claimed of objects stays so when others are freed.
LEMMA IsAShrinks ==
    ASSUME NEW h, NEW g, NEW m, HeapIsSound(h), Closes(h, m), DOMAIN g = m \cap DOMAIN h,
           \A o \in DOMAIN g : g[o] = h[o], NEW v, NEW kind, v \subseteq DOMAIN g, IsA(h, v, kind)
    PROVE  IsA(g, v, kind)
<1>1. \A o \in v : g[o] = h[o] OBVIOUS
<1>2. ASSUME NEW o \in v, h[o].type = "function", NamesModule(h, o) PROVE NamesModule(g, o)
  <2>1. "constants" \in Fields["function"] BY DEF Fields
  <2>2. PICK s \in h[o].refs["constants"] : h[s].type = "string" /\ h[s].text = {ModuleText}
    BY <1>2 DEF NamesModule
  <2>3. s \in DOMAIN h BY <1>2, <2>1, <2>2 DEF HeapIsSound, FieldIsSound
  <2>4. o \in m \cap DOMAIN h OBVIOUS
  <2>5. s \in m BY <1>2, <2>1, <2>2, <2>4 DEF Closes
  <2>6. g[s] = h[s] BY <2>3, <2>5
  <2> QED BY <1>1, <2>2, <2>6 DEF NamesModule
<1>3. CASE kind = "complete" BY <1>1, <1>2, <1>3 DEF IsA
<1>4. CASE kind # "complete" BY <1>1, <1>4 DEF IsA
<1> QED BY <1>3, <1>4

LEMMA HeapShrinks ==
    ASSUME NEW h, NEW g, NEW m, HeapIsSound(h), Closes(h, m), DOMAIN g = m \cap DOMAIN h,
           \A o \in DOMAIN g : g[o] = h[o]
    PROVE  HeapIsSound(g)
<1> SUFFICES ASSUME NEW o \in DOMAIN g, NEW f \in Fields[h[o].type]
             PROVE  FieldIsSound(g, h[o].type, f, h[o].refs[f])
  BY DEF HeapIsSound
<1> DEFINE type == h[o].type
           v == h[o].refs[f]
<1>1. FieldIsSound(h, type, f, v) BY DEF HeapIsSound
<1>2. v \subseteq DOMAIN g
  <2>1. v \subseteq DOMAIN h BY <1>1 DEF FieldIsSound
  <2>2. v \subseteq m BY DEF Closes
  <2> QED BY <2>1, <2>2
<1> HIDE DEF type, v
<1>3. IsA(g, v, Kind(type, f)) BY <1>1, <1>2, IsAShrinks DEF FieldIsSound
<1>4. f = "function" => Complete(g, v) BY <1>1, <1>2, IsAShrinks DEF FieldIsSound, Complete
<1>5. ASSUME f = "constants", NEW p \in v, g[p].type = "function" PROVE Complete(g, {p})
  <2>1. h[p].type = "function" /\ {p} \subseteq DOMAIN g BY <1>2, <1>5
  <2>2. Complete(h, {p}) BY <1>1, <1>5, <2>1 DEF FieldIsSound
  <2> QED BY <2>1, <2>2, IsAShrinks DEF Complete
<1>6. FieldIsSound(g, type, f, v) BY <1>2, <1>3, <1>4, <1>5 DEF FieldIsSound
<1> QED BY <1>6 DEF type, v

LEMMA HalvedIs ==
    ASSUME NEW c \in Nat \ {0}, NEW n \in Nat, NEW i \in Nat \ {0}, c >= 2 * i, 4 * n < c
    PROVE  c \div 2 \in Nat \ {0} /\ n < c \div 2
<1>1. c >= 2 OBVIOUS
<1>2. c \div 2 >= 1 /\ 2 * (c \div 2) >= c - 1 /\ c \div 2 \in Int BY <1>1
<1> QED BY <1>2

\* A collection frees nothing that code goes on to read.
LEMMA SweepPlanned ==
    ASSUME Kept, Marking, Typed, AtAllocation, Strung, Sound, Planned, Sweep
    PROVE  Sound' /\ Planned'
<1>1. /\ phase = "mark" /\ grey = {} /\ strings' = strings \cap marked
      /\ DOMAIN heap' = marked \cap DOMAIN heap
      /\ \A o \in DOMAIN heap' : heap'[o] = heap[o]
      /\ allowed' = TRUE /\ phase' = "done"
      /\ capacity' = (IF Oversized THEN capacity \div 2 ELSE capacity)
      /\ UNCHANGED <<program, stack, frames, globals, open, exception, named, todo, local>>
  BY DEF Sweep, Restrict, code_vars
<1>2. /\ InHand \subseteq marked /\ todo # <<>> /\ Head(todo).op \in Allocates /\ allowed
      /\ \A o \in marked : Referred(o) \subseteq marked
  BY <1>1 DEF Marking, AtAllocation, Sound, ControlIsSound
<1>3. HeapIsSound(heap) /\ InHand \subseteq DOMAIN heap BY DEF Sound, HandIsSound
<1>4. Closes(heap, marked)
  <2>1. \A o \in marked : \A f \in Fields[heap[o].type] : heap[o].refs[f] \subseteq Referred(o)
    BY DEF Referred
  <2> QED BY <1>2, <2>1 DEF Closes
<1>5. IsSeq(stack) /\ Len(stack) \in Nat BY SeqIs DEF Typed
<1>6. Full = InHand /\ Below \subseteq Full BY <1>5, FullIs
<1>7. HeapIsSound(heap') BY <1>1, <1>3, <1>4, HeapShrinks
<1>8. ControlIsSound' BY <1>1 DEF ControlIsSound, Sound
<1>9. /\ capacity' \in Nat \ {0} /\ Len(stack) <= capacity'
      /\ Len(stack) < capacity => Len(stack) < capacity'
  <2>1. capacity \in Nat \ {0} /\ Len(stack) <= capacity BY DEF Sound, StackIsSound
  <2>2. CASE Oversized
    <3>1. StackInitial \in Nat \ {0} BY CollectorConstants
    <3>2. capacity >= 2 * StackInitial /\ 4 * Len(stack) < capacity BY <2>2 DEF Oversized
    <3>3. capacity \div 2 \in Nat \ {0} /\ Len(stack) < capacity \div 2
      BY <1>5, <2>1, <3>1, <3>2, HalvedIs
    <3> QED BY <1>1, <1>5, <2>2, <3>3
  <2>3. CASE ~ Oversized BY <1>1, <2>1, <2>3
  <2> QED BY <2>2, <2>3
<1>10. StackIsSound' BY <1>1, <1>9 DEF StackIsSound, Sound
<1>11. HandIsSound'
  <2>1. InHand' = InHand BY <1>1 DEF InHand, Held
  <2>2. InHand \subseteq DOMAIN heap' BY <1>1, <1>2, <1>3
  <2>3. /\ \A i \in DOMAIN frames : IsA(heap', frames[i].closure, "closure")
        /\ \A u \in open : IsA(heap', u.upvalue, "upvalue")
    <3>1. /\ \A i \in DOMAIN frames : frames[i].closure \subseteq DOMAIN heap'
          /\ \A u \in open : u.upvalue \subseteq DOMAIN heap'
      BY <2>2, HandOf
    <3> QED BY <1>1, <1>3, <1>4, <3>1, IsAShrinks DEF Sound, HandIsSound
  <2> QED BY <1>1, <2>1, <2>2, <2>3 DEF HandIsSound
<1>12. Sound' BY <1>1, <1>7, <1>8, <1>10, <1>11, SoundNext DEF Sound
<1>13. PICK A, E : Leads(A, todo, E) /\ Holds(A, Alive(A, Head(todo))) BY <1>2 DEF Planned
<1>14. ~ A.off BY <1>2, <1>13 DEF Holds, PlaceHolds
<1>15. PICK good : good = Alive(A, Head(todo)) OBVIOUS
<1>16. good = A.held BY <1>2, <1>14, <1>15 DEF Alive
<1>17. Full \subseteq marked BY <1>2, <1>6
<1>18. /\ \A r \in A.held : HeldBy(heap', Full, local[r])
       /\ \A r \in A.base : HeldBy(heap', Below, local[r])
  <2>1. /\ \A r \in A.held : HeldBy(heap, Full, local[r])
        /\ \A r \in A.base : HeldBy(heap, Below, local[r])
    BY <1>13 DEF Holds, RootsHold
  <2>2. Below \subseteq marked BY <1>6, <1>17
  <2> QED BY <1>1, <1>4, <1>17, <2>1, <2>2, HeldSurvives
<1>19. \A r \in A.held : local[r] \subseteq DOMAIN heap'
  BY <1>2, <1>3, <1>6, <1>7, <1>18, <1>1, HeldIsKept
<1>20. RegsHold(A, good)'
  <2>1. RegsHold(A, good) BY <1>13, <1>15 DEF Holds
  <2>2. ASSUME NEW r \in good, NEW kind, <<r, kind>> \in A.kinds PROVE IsA(heap', local[r], kind)
    <3>1. IsA(heap, local[r], kind) /\ local[r] \subseteq DOMAIN heap'
      BY <1>16, <1>19, <2>1, <2>2 DEF RegsHold
    <3> QED BY <1>1, <1>3, <1>4, <3>1, IsAShrinks
  <2> QED BY <1>1, <1>16, <1>19, <2>2 DEF RegsHold
<1>21. RootsHold(A)'
  <2>1. Full' = Full /\ Below' = Below BY <1>1, UnderSame
  <2> QED BY <1>1, <1>18, <2>1 DEF RootsHold
<1>22. PlaceHolds(A)' BY <1>1, <1>9, <1>13, <1>14 DEF PlaceHolds, Holds
<1>23. TextsHold(A)'
  <2>1. Full' = Full BY <1>1, UnderSame
  <2>2. ASSUME NEW t \in A.texts PROVE Interned(t)' # {} /\ HeldBy(heap', Full, Interned(t)')
    <3>1. Interned(t) # {} /\ HeldBy(heap, Full, Interned(t)) BY <1>13 DEF Holds, TextsHold
    <3>2. HeldBy(heap', Full, Interned(t)) BY <1>1, <1>4, <1>17, <3>1, HeldSurvives
    <3>3. Interned(t) \subseteq marked BY <1>4, <1>17, <3>1 DEF HeldBy
    <3>4. strings \subseteq DOMAIN heap BY StringsAreAll DEF All
    <3>5. Interned(t)' = Interned(t)
      <4>1. \A s \in strings \cap marked : heap'[s] = heap[s] BY <1>1, <3>4
      <4> QED BY <1>1, <3>3, <4>1 DEF Interned
    <3> QED BY <3>1, <3>2, <3>5
  <2> QED BY <2>1, <2>2 DEF TextsHold
<1>24. Holds(A, good)' BY <1>20, <1>21, <1>22, <1>23 DEF Holds
<1>25. Holds(A, Alive(A, Head(todo)))' BY <1>1, <1>15, <1>24
<1>26. Leads(A, todo', E) BY <1>1, <1>13
<1>27. Planned' BY <1>25, <1>26, PlannedBy
<1> QED BY <1>12, <1>27

\* A collection that starts or marks changes nothing that code reads.
LEMMA StillPlanned ==
    ASSUME Sound, Planned, IsSeq(stack), UNCHANGED <<program, heap_vars, allowed, program_vars, code_vars>>,
           phase' \in {"idle", "mark", "done"}, phase' = "mark" => allowed
    PROVE  Sound' /\ Planned'
<1>1. UNCHANGED <<program, heap, strings, allowed, stack, capacity, frames, globals, open, exception,
                  named, todo, local>>
  BY DEF heap_vars, program_vars, code_vars
<1>2. Sound'
  <2>1. ControlIsSound' BY <1>1 DEF ControlIsSound, Sound
  <2> QED BY <1>1, <2>1, HeapSame, HandSame, StackSame DEF Sound
<1>3. Planned'
  <2>1. CASE todo = <<>> BY <1>1, <2>1 DEF Planned
  <2>2. CASE todo # <<>>
    <3>1. PICK A, E : Leads(A, todo, E) /\ Holds(A, Alive(A, Head(todo))) BY <2>2 DEF Planned
    <3>2. PICK good : good = Alive(A, Head(todo)) OBVIOUS
    <3>3. RegsHold(A, good)' BY <1>1, <3>1, <3>2 DEF Holds, RegsHold
    <3>4. Full' = Full /\ Below' = Below BY <1>1, UnderSame
    <3>5. RootsHold(A)' BY <1>1, <3>1, <3>4 DEF Holds, RootsHold
    <3>6. PlaceHolds(A)' BY <1>1, <3>1 DEF Holds, PlaceHolds
    <3>7. TextsHold(A)'
      <4>1. \A t : Interned(t)' = Interned(t) BY <1>1 DEF Interned
      <4> QED BY <1>1, <3>1, <3>4, <4>1 DEF Holds, TextsHold
    <3>8. Holds(A, good)' BY <3>3, <3>5, <3>6, <3>7 DEF Holds
    <3>9. Holds(A, Alive(A, Head(todo)))' BY <1>1, <3>2, <3>8
    <3>10. Leads(A, todo', E) BY <1>1, <3>1
    <3> QED BY <3>9, <3>10, PlannedBy
  <2> QED BY <2>1, <2>2
<1> QED BY <1>2, <1>3

LEMMA CollectionPlanned ==
    ASSUME Kept, Marking, Typed, AtAllocation, Strung, Sound, Planned, Collection
    PROVE  Sound' /\ Planned'
<1>1. CASE BeginCollection
  <2>1. allowed /\ phase' = "mark" BY <1>1 DEF BeginCollection, MayCollect
  <2>2. UNCHANGED <<program, heap_vars, allowed, program_vars, code_vars>>
    BY <1>1 DEF BeginCollection
  <2> QED BY <2>1, <2>2, StillPlanned DEF Typed
<1>2. CASE Blacken
  <2>1. phase' = "mark" /\ allowed BY <1>2 DEF Blacken, Sound, ControlIsSound
  <2>2. UNCHANGED <<program, heap_vars, allowed, program_vars, code_vars>> BY <1>2 DEF Blacken
  <2> QED BY <2>1, <2>2, StillPlanned DEF Typed
<1>3. CASE Sweep BY <1>3, SweepPlanned
<1> QED BY <1>1, <1>2, <1>3 DEF Collection

-----------------------------------------------------------------------------
(***************************************************************************)
(* Instructions. What the variables of an instruction's code begin with is *)
(* held by the roots.                                                      *)
(***************************************************************************)
Claim(ok, held, kinds, off, room, depth, low, texts, free) ==
    [ok |-> ok, held |-> held, base |-> {}, kinds |-> kinds, off |-> off, room |-> room,
     depth |-> depth, low |-> low, texts |-> texts, free |-> free]

LEMMA PerformPlanned ==
    ASSUME Kept, Typed, Sound, NEW vs, NEW code, Perform(vs, code),
           NEW A, A.ok \subseteq Registers, A.held \subseteq Registers, A.base = {},
           NEW E, Leads(A, code, E),
           \A r \in DOMAIN vs : HeldBy(heap, Full, vs[r]),
           \A r, kind : <<r, kind>> \in A.kinds => r \in DOMAIN vs /\ IsA(heap, vs[r], kind),
           PlaceHolds(A), TextsHold(A)
    PROVE  Sound' /\ Planned'
<1>1. /\ todo' = code
      /\ local' = [r \in Registers |-> IF r \in DOMAIN vs THEN vs[r] ELSE {}]
      /\ UNCHANGED <<program, heap, strings, allowed, phase, stack, capacity, frames, globals, open,
                     exception, named>>
  BY DEF Perform, heap_vars, gc_vars, program_vars
<1>2. Full \subseteq DOMAIN heap
  BY FullIs DEF Typed, Sound, HandIsSound
<1>3. \A r \in DOMAIN vs : vs[r] \subseteq DOMAIN heap
  BY <1>2, HeldIsKept DEF Sound
<1>4. \A r \in Registers : local'[r] \subseteq DOMAIN heap
  <2>1. {} \subseteq DOMAIN heap OBVIOUS
  <2> QED BY <1>1, <1>3, <2>1
<1>5. local' \in [Registers -> SUBSET Obj]
  <2>1. \A r \in Registers : local'[r] \in SUBSET Obj BY <1>4 DEF Kept
  <2> QED BY <1>1, <2>1
<1>6. Sound'
  <2>1. ControlIsSound' BY <1>1, <1>5 DEF ControlIsSound, Sound
  <2> QED BY <1>1, <2>1, HeapSame, HandSame, StackSame DEF Sound
<1>7. Full' = Full BY <1>1, UnderSame
<1>8. ASSUME todo' # <<>> PROVE Planned'
  <2>1. PICK good : good = Alive(A, Head(code)) OBVIOUS
  <2>2. good \subseteq Registers
    <3>1. \E B : Goes(A, Head(code), B) BY <1>1, <1>8, LeadsHead
    <3>2. Sane(A) BY <3>1, GoesIs
    <3> QED BY <2>1, <3>2, AliveIsOk
  <2>3. RegsHold(A, good)'
    <3>1. \A r, kind : <<r, kind>> \in A.kinds /\ r \in Registers => IsA(heap, local'[r], kind)
      BY <1>1
    <3> QED BY <1>1, <1>4, <2>2, <3>1 DEF RegsHold
  <2>4. RootsHold(A)'
    <3>1. HeldBy(heap, Full, {}) BY HeldRoots
    <3>2. \A r \in A.held : HeldBy(heap, Full, local'[r]) BY <1>1, <3>1
    <3> QED BY <1>1, <1>7, <3>2 DEF RootsHold
  <2>5. PlaceHolds(A)' BY <1>1 DEF PlaceHolds
  <2>6. TextsHold(A)'
    <3>1. \A t : Interned(t)' = Interned(t) BY <1>1 DEF Interned
    <3> QED BY <1>1, <1>7, <3>1 DEF TextsHold
  <2>7. Holds(A, good)' BY <2>3, <2>4, <2>5, <2>6 DEF Holds
  <2>8. Holds(A, Alive(A, Head(todo)))' BY <1>1, <2>1, <2>7
  <2>9. Leads(A, todo', E) BY <1>1
  <2> QED BY <2>8, <2>9, PlannedBy
<1>9. ASSUME todo' = <<>> PROVE Planned' BY <1>9 DEF Planned
<1> QED BY <1>6, <1>8, <1>9

\* The operands of a frame lie above the bases of the frames and the captured variables.
LEMMA OperandsAre ==
    ASSUME Sound, Typed, frames # <<>>, NEW d \in Nat, d <= Operands
    PROVE  /\ d < Len(stack)
           /\ \A i \in DOMAIN frames : frames[i].base + d < Len(stack)
           /\ \A u \in open : u.slot + d < Len(stack)
<1> DEFINE S == {Active.base} \cup {u.slot : u \in open}
           n == Len(frames)
<1>1. IsSeq(stack) /\ IsSeq(frames) BY DEF Typed
<1>2. Len(stack) \in Nat /\ n \in Nat /\ DOMAIN frames = 1 .. n /\ n # 0 BY <1>1, SeqIs
<1>3. n \in DOMAIN frames /\ Active = frames[n] BY <1>2 DEF Active, Last
<1>4. /\ \A u \in open : u.slot \in Nat /\ u.slot < Len(stack)
      /\ \A i \in DOMAIN frames : frames[i].base \in Nat /\ frames[i].base < Len(stack)
      /\ \A i, j \in DOMAIN frames : i < j => frames[i].base < frames[j].base
  BY DEF Sound, StackIsSound
<1>5. S \subseteq 0 .. Len(stack) /\ S # {} BY <1>2, <1>3, <1>4
<1>6. Max(S) \in S /\ \A x \in S : x <= Max(S) BY <1>2, <1>5, MaxIs
<1>7. \A i \in DOMAIN frames : frames[i].base <= frames[n].base
  <2> TAKE i \in DOMAIN frames
  <2>1. CASE i = n BY <1>3, <1>4, <2>1
  <2>2. CASE i # n
    <3>1. i < n BY <1>2, <2>2
    <3> QED BY <1>3, <1>4, <3>1
  <2> QED BY <2>1, <2>2
<1>8. Operands = Len(stack) - 1 - Max(S) BY DEF Operands
<1>9. Max(S) \in Nat BY <1>2, <1>5, <1>6
<1>10. \A x \in S : x + d < Len(stack)
  <2> TAKE x \in S
  <2>1. x \in Nat /\ x <= Max(S) BY <1>2, <1>5, <1>6
  <2> HIDE DEF S
  <2> QED BY <1>2, <1>8, <1>9, <2>1
<1>11. Active.base \in S /\ \A u \in open : u.slot \in S OBVIOUS
<1> HIDE DEF S, n
<1>12. frames[n].base + d < Len(stack) BY <1>3, <1>10, <1>11
<1> QED BY <1>2, <1>3, <1>4, <1>7, <1>10, <1>11, <1>12

\* The place where an instruction with operands begins.
LEMMA PlaceStarts ==
    ASSUME Sound, Typed, frames # <<>>, NEW A, A.depth \in Nat, A.depth <= Operands, A.low <= Len(stack),
           ~ A.off, A.room => Len(stack) < capacity, A.free => ModuleText \notin program.texts
    PROVE  PlaceHolds(A)
<1>1. Len(stack) \in Nat BY SeqIs DEF Typed
<1>2. A.depth < Len(stack) BY OperandsAre
<1> QED BY <1>1, <1>2, OperandsAre DEF PlaceHolds

\* A value on the stack is held by the roots.
LEMMA SlotHeld ==
    ASSUME Typed, NEW i \in 1 .. Len(stack)
    PROVE  HeldBy(heap, Full, stack[i])
<1>1. stack[i] \subseteq Full BY DEF Full, Under
<1> QED BY <1>1, HeldRoots

LEMMA PeekHeld ==
    ASSUME Typed, NEW d \in Nat, d < Len(stack)
    PROVE  HeldBy(heap, Full, Peek(d))
<1>1. Len(stack) - d \in 1 .. Len(stack) BY SeqIs DEF Typed
<1> QED BY <1>1, SlotHeld DEF Peek

LEMMA HeldIsThere ==
    ASSUME Typed, Sound, NEW v, HeldBy(heap, Full, v)
    PROVE  v \subseteq DOMAIN heap
<1>1. Full \subseteq DOMAIN heap BY FullIs DEF Typed, Sound, HandIsSound
<1> QED BY <1>1, HeldIsKept DEF Sound

\* What a field of objects of one type refers to.
LEMMA GetHeld ==
    ASSUME Typed, Sound, NEW v, HeldBy(heap, Full, v), NEW type \in DOMAIN Fields, NEW f \in Fields[type],
           \A o \in v : heap[o].type = type
    PROVE  HeldBy(heap, Full, Get(v, f)) /\ \A o \in v : FieldIsSound(heap, type, f, heap[o].refs[f])
<1>1. v \subseteq DOMAIN heap BY HeldIsThere
<1>2. HeldBy(heap, Full, Get(v, f)) BY <1>1, HeldField DEF Get
<1> QED BY <1>1, <1>2 DEF Sound, HeapIsSound

\* The closure and the function of the active frame, and its constants.
LEMMA ActiveHeld ==
    ASSUME Typed, Sound, frames # <<>>
    PROVE  /\ HeldBy(heap, Full, Active.closure) /\ \A o \in Active.closure : heap[o].type = "closure"
           /\ HeldBy(heap, Full, Function) /\ \A o \in Function : heap[o].type = "function"
           /\ Complete(heap, Function)
           /\ HeldBy(heap, Full, Get(Function, "constants"))
           /\ \A o \in Get(Function, "constants") : heap[o].type = "function" => Complete(heap, {o})
           /\ HeldBy(heap, Full, Get(Active.closure, "upvalues"))
           /\ \A o \in Get(Active.closure, "upvalues") : heap[o].type = "upvalue"
           /\ Active.base \in Nat /\ Active.base < Len(stack)
<1>1. IsSeq(frames) BY DEF Typed
<1>2. Active \in {frames[i] : i \in DOMAIN frames}
  <2>1. Len(frames) \in DOMAIN frames BY <1>1, SeqIs
  <2> QED BY <2>1 DEF Active, Last
<1>3. PICK i \in DOMAIN frames : Active = frames[i] BY <1>2
<1>4. Active.closure \subseteq InHand BY <1>3, HandOf
<1>5. HeldBy(heap, Full, Active.closure) BY <1>4, FullIs, HeldRoots DEF Typed
<1>6. IsA(heap, Active.closure, "closure") BY <1>3 DEF Sound, HandIsSound
<1>7. \A o \in Active.closure : heap[o].type = "closure" BY <1>6 DEF IsA
<1>8. /\ "closure" \in DOMAIN Fields /\ "function" \in Fields["closure"] /\ "upvalues" \in Fields["closure"]
      /\ "function" \in DOMAIN Fields /\ "constants" \in Fields["function"]
  BY DEF Fields
<1>9. /\ HeldBy(heap, Full, Function)
      /\ \A o \in Active.closure : FieldIsSound(heap, "closure", "function", heap[o].refs["function"])
  BY <1>5, <1>7, <1>8, GetHeld DEF Function
<1>10. \A o \in Function : heap[o].type = "function"
  <2>1. \A o \in Active.closure : IsA(heap, heap[o].refs["function"], "function")
    BY <1>9 DEF FieldIsSound, Kind
  <2>2. \A o \in Active.closure : \A p \in heap[o].refs["function"] : heap[p].type = "function"
    BY <2>1 DEF IsA
  <2> QED BY <2>2 DEF Function, Get
<1>11. Complete(heap, Function)
  <2>1. \A o \in Active.closure : Complete(heap, heap[o].refs["function"])
    BY <1>9 DEF FieldIsSound
  <2>2. SUFFICES ASSUME ModuleText \in program.texts PROVE IsA(heap, Function, "complete")
    BY DEF Complete
  <2>3. \A o \in Active.closure : \A p \in heap[o].refs["function"] : heap[p].type = "function" /\ NamesModule(heap, p)
    BY <2>1, <2>2 DEF Complete, IsA
  <2> QED BY <2>3 DEF Function, Get, IsA
<1>12. /\ HeldBy(heap, Full, Get(Function, "constants"))
       /\ \A o \in Function : FieldIsSound(heap, "function", "constants", heap[o].refs["constants"])
  BY <1>8, <1>9, <1>10, GetHeld
<1>13. \A o \in Get(Function, "constants") : heap[o].type = "function" => Complete(heap, {o})
  <2>1. \A o \in Function : \A p \in heap[o].refs["constants"] : heap[p].type = "function" => Complete(heap, {p})
    BY <1>12 DEF FieldIsSound
  <2> QED BY <2>1 DEF Get
<1>14. /\ HeldBy(heap, Full, Get(Active.closure, "upvalues"))
       /\ \A o \in Active.closure : FieldIsSound(heap, "closure", "upvalues", heap[o].refs["upvalues"])
  BY <1>5, <1>7, <1>8, GetHeld
<1>15. \A o \in Get(Active.closure, "upvalues") : heap[o].type = "upvalue"
  <2>1. \A o \in Active.closure : IsA(heap, heap[o].refs["upvalues"], "upvalue")
    BY <1>14 DEF FieldIsSound, Kind
  <2>2. \A o \in Active.closure : \A p \in heap[o].refs["upvalues"] : heap[p].type = "upvalue"
    BY <2>1 DEF IsA
  <2> QED BY <2>2 DEF Get
<1>16. Active.base \in Nat /\ Active.base < Len(stack) BY <1>3 DEF Sound, StackIsSound
<1> QED BY <1>5, <1>7, <1>9, <1>10, <1>11, <1>12, <1>13, <1>14, <1>15, <1>16

LEMMA ConstantHeld ==
    ASSUME Typed, Sound, frames # <<>>, NEW type, NEW o \in Constants(type)
    PROVE  HeldBy(heap, Full, {o}) /\ heap[o].type = type
<1>1. o \in Get(Function, "constants") /\ heap[o].type = type BY DEF Constants
<1>2. {o} \subseteq Get(Function, "constants") BY <1>1
<1> QED BY <1>1, <1>2, ActiveHeld, HeldMore

\* A global is held, and so is what a closure finds in its upvalues.
LEMMA LoadedHeld ==
    ASSUME Typed, Sound, frames # <<>>, NEW v \in Loaded
    PROVE  HeldBy(heap, Full, v)
<1>1. CASE v = {} BY <1>1, HeldRoots
<1>2. ASSUME NEW s \in Constants("string"), v = {s} PROVE HeldBy(heap, Full, v)
  BY <1>2, ConstantHeld
<1>3. CASE v \in Range(globals)
  <2>1. v \subseteq Held["globals"] BY <1>3 DEF Held
  <2>2. v \subseteq Full BY <2>1, InHandIs, FullIs DEF Typed
  <2> QED BY <2>2, HeldRoots
<1>4. ASSUME NEW i \in Active.base + 1 .. Len(stack), v = stack[i] PROVE HeldBy(heap, Full, v)
  <2>1. Active.base \in Nat /\ Len(stack) \in Nat BY ActiveHeld, SeqIs DEF Typed
  <2>2. i \in 1 .. Len(stack) BY <2>1
  <2> QED BY <1>4, <2>2, SlotHeld
<1>5. ASSUME NEW u \in Get(Active.closure, "upvalues"), v = UpvalueValue(u) PROVE HeldBy(heap, Full, v)
  <2> DEFINE of == {w \in open : w.upvalue = {u}}
  <2>1. CASE of = {}
    <3>1. v = heap[u].refs.closed BY <1>5, <2>1 DEF UpvalueValue
    <3>2. {u} \subseteq Get(Active.closure, "upvalues") BY <1>5
    <3>3. HeldBy(heap, Full, {u}) /\ heap[u].type = "upvalue" BY <3>2, <1>5, ActiveHeld, HeldMore
    <3>4. "upvalue" \in DOMAIN Fields /\ "closed" \in Fields["upvalue"] BY DEF Fields
    <3>5. HeldBy(heap, Full, Get({u}, "closed")) BY <3>3, <3>4, GetHeld
    <3>6. Get({u}, "closed") = heap[u].refs["closed"] BY DEF Get
    <3> QED BY <3>1, <3>5, <3>6
  <2>2. CASE of # {}
    <3>1. v = UNION {stack[w.slot + 1] : w \in of} BY <1>5, <2>2 DEF UpvalueValue
    <3>2. ASSUME NEW w \in of PROVE stack[w.slot + 1] \subseteq Full
      <4>1. w.slot \in Nat /\ w.slot < Len(stack) BY DEF Sound, StackIsSound
      <4>2. w.slot + 1 \in 1 .. Len(stack) BY <4>1, SeqIs DEF Typed
      <4> QED BY <4>2 DEF Full, Under
    <3>3. v \subseteq Full BY <3>1, <3>2
    <3> QED BY <3>3, HeldRoots
  <2> QED BY <2>1, <2>2
<1>6. \/ v = {} \/ (\E s \in Constants("string") : v = {s}) \/ v \in Range(globals)
      \/ (\E i \in Active.base + 1 .. Len(stack) : v = stack[i])
      \/ (\E u \in Get(Active.closure, "upvalues") : v = UpvalueValue(u))
  BY DEF Loaded
<1> QED BY <1>1, <1>2, <1>3, <1>4, <1>5, <1>6

-----------------------------------------------------------------------------
(* The claims that the code of each instruction is followed with. *)

At(ok, held, kinds, depth) == Claim(ok, held, kinds, FALSE, FALSE, depth, depth, {}, FALSE)

LEMMA AtIs ==
    ASSUME NEW ok, NEW held, NEW kinds, NEW depth
    PROVE  /\ At(ok, held, kinds, depth).ok = ok /\ At(ok, held, kinds, depth).held = held
           /\ At(ok, held, kinds, depth).base = {} /\ At(ok, held, kinds, depth).kinds = kinds
           /\ ~ At(ok, held, kinds, depth).off /\ ~ At(ok, held, kinds, depth).room
           /\ At(ok, held, kinds, depth).depth = depth /\ At(ok, held, kinds, depth).low = depth
           /\ At(ok, held, kinds, depth).texts = {} /\ ~ At(ok, held, kinds, depth).free
  BY DEF At, Claim

\* Steps that any code without guards can take.
LEMMA BlockStep ==
    ASSUME NEW held, held \subseteq Registers, NEW kinds, NEW depth \in Nat
    PROVE  Goes(At(held, held, kinds, depth), Block, At(held, held, kinds, depth))
  BY DEF Goes, GoesQuiet, Sane, Alive, Allocates, Block, Do, Registers, Claim, At, SameVariables, SameHeld, SameGc, SameStack

LEMMA PushStep ==
    ASSUME NEW ok, NEW held, ok \subseteq Registers, held \subseteq ok, NEW kinds, NEW depth \in Nat, NEW r \in ok,
           NEW e \in Nat, e <= depth + 1
    PROVE  Goes(At(ok, held, kinds, depth), Push(r), At(ok, held \cup {r}, kinds, e))
  BY DEF Goes, GoesPush, Sane, Alive, Allocates, Push, Do, Registers, Claim, At, SameVariables

LEMMA DropStep ==
    ASSUME NEW ok, NEW held, ok \subseteq Registers, held \subseteq ok, NEW kinds, NEW depth \in Nat, NEW n \in Nat,
           NEW e \in Nat, e + n <= depth
    PROVE  Goes(At(ok, held, kinds, depth), Drop(n), At(ok, {}, kinds, e))
  BY DEF Goes, GoesDrop, Sane, Alive, Allocates, Drop, Do, Registers, Claim, At, SameVariables, NoneHeld, SameGc

LEMMA PutStep ==
    ASSUME NEW ok, NEW held, ok \subseteq Registers, held \subseteq ok, NEW kinds, NEW depth \in Nat, NEW r \in ok,
           NEW from, from \subseteq ok, NEW f \in {"methods", "fields", "values", "message"}
    PROVE  Goes(At(ok, held, kinds, depth), Put(r, f, from), At(ok, {}, kinds, depth))
  BY DEF Goes, GoesPut, Sane, Alive, Allocates, Put, Do, Registers, Claim, At, FitsField, Kind, NoneHeld, SameGc, SameStack

LEMMA ReplaceStep ==
    ASSUME NEW ok, NEW held, ok \subseteq Registers, held \subseteq ok, NEW kinds, NEW depth \in Nat, NEW r \in ok,
           NEW d \in Nat, d < depth
    PROVE  Goes(At(ok, held, kinds, depth), Replace(d, r), At(ok, {}, kinds, depth))
  BY DEF Goes, GoesReplace, Sane, Alive, Allocates, Replace, Do, Registers, Claim, At, SameVariables, SameGc, SameStack

LEMMA EnterStep ==
    ASSUME NEW ok, NEW held, ok \subseteq Registers, held \subseteq ok, NEW kinds, NEW depth \in Nat, NEW r \in ok,
           NEW argc \in Nat, argc < depth, <<r, "closure">> \in kinds
    PROVE  Goes(At(ok, held, kinds, depth), Enter(r, argc), At(ok, {}, kinds, 0))
  BY DEF Goes, GoesEnter, Sane, Alive, Allocates, Enter, Do, Registers, Claim, At, SameVariables, NoneHeld, SameGc, SameStack

LEMMA NewStep ==
    ASSUME NEW held, held \subseteq Registers, NEW kinds, NEW depth \in Nat, NEW type \in DOMAIN Fields \ {"string"},
           NEW r \in Registers \ held, \A k \in kinds : k[1] # r,
           NEW parts, \A f \in DOMAIN parts : parts[f] \subseteq held,
           \A f \in Fields[type] \cap DOMAIN parts : \A x \in parts[f] :
              FitsField(At(held, held, kinds, depth), x, type, f)
    PROVE  Goes(At(held, held, kinds, depth), New(r, type, parts),
                At(held \cup {r}, held, kinds \cup {<<r, type>>, <<r, "one">>}, depth))
<1> DEFINE A == At(held, held, kinds, depth)
           B == At(held \cup {r}, held, kinds \cup {<<r, type>>, <<r, "one">>}, depth)
           s == New(r, type, parts)
<1>1. /\ s.op = "new" /\ s.to = r /\ s.from = UNION Range(parts)
      /\ s.arg.type = type /\ s.arg.text = {} /\ s.arg.parts = parts
  BY DEF New, NewOf, Do
<1>2. Alive(A, s) = held BY <1>1 DEF Alive, Allocates, At, Claim
<1>3. /\ s.from \subseteq held /\ \A f \in Fields[type] \cap DOMAIN parts : parts[f] \subseteq s.from
  <2>1. s.from \subseteq held BY <1>1 DEF Range
  <2>2. \A f \in DOMAIN parts : parts[f] \subseteq s.from BY <1>1 DEF Range
  <2> QED BY <2>1, <2>2
<1>4. Sane(A) /\ Sane(B) BY DEF Sane, At, Claim
<1> DEFINE ks == {"one"} \cup IF s.arg.type = "string" THEN StringKinds(s.arg.text) ELSE {s.arg.type}
<1>5. Assigned(A, s, B, ks)
  <2>1. ks = {"one", type} BY <1>1
  <2>2. B.ok = held \cup {r} /\ B.kinds = kinds \cup {<<r, type>>, <<r, "one">>} /\ A.kinds = kinds
    BY DEF At, Claim
  <2>3. kinds \subseteq {k \in kinds : k[1] # r} OBVIOUS
  <2>4. {<<r, type>>, <<r, "one">>} \subseteq {<<r, kind>> : kind \in {"one", type}} OBVIOUS
  <2> HIDE DEF A, B, s, ks
  <2> QED BY <1>1, <1>2, <2>1, <2>2, <2>3, <2>4 DEF Assigned
<1>6. GoesNew(A, s, B)
  <2>1. /\ SameGc(A, B) /\ SameStack(A, B) /\ B.held \subseteq A.held \ {s.to} /\ B.base \subseteq A.base \ {s.to}
    BY <1>1 DEF SameGc, SameStack, At, Claim
  <2>2. \A f \in Fields[type] \cap DOMAIN parts : \A x \in parts[f] : FitsField(A, x, type, f) OBVIOUS
  <2> HIDE DEF A, B, s
  <2> QED BY <1>1, <1>3, <1>5, <2>1, <2>2 DEF GoesNew
<1>7. B.texts = {} /\ ~ B.free BY DEF At, Claim
<1> HIDE DEF A, B, s
<1>8. Goes(A, s, B) BY <1>1, <1>2, <1>3, <1>4, <1>6, <1>7 DEF Goes
<1> QED BY <1>8 DEF A, B, s

LEMMA UseStep ==
    ASSUME NEW ok, NEW held, ok \subseteq Registers, held \subseteq ok, NEW kinds, NEW depth \in Nat,
           NEW from, from \subseteq ok
    PROVE  Goes(At(ok, held, kinds, depth), Use(from), At(ok, held, kinds, depth))
  BY DEF Goes, GoesQuiet, Sane, Alive, Allocates, Use, Do, Registers, Claim, At, SameVariables, SameHeld, SameGc, SameStack

LEMMA InternStep ==
    ASSUME NEW held, held \subseteq Registers, NEW kinds, NEW depth \in Nat,
           NEW r \in Registers \ held, \A k \in kinds : k[1] # r, NEW text \in Texts
    PROVE  /\ Goes(At(held, held, kinds, depth), Intern(r, text), At(held \cup {r}, held, kinds, depth))
           /\ Goes(At(held, held, kinds, depth), Copy(r, text), At(held \cup {r}, held, kinds, depth))
<1> DEFINE A == At(held, held, kinds, depth)
           B == At(held \cup {r}, held, kinds, depth)
<1> SUFFICES ASSUME NEW s \in {Intern(r, text), Copy(r, text)} PROVE Goes(A, s, B)
  OBVIOUS
<1>1. s.op \in {"intern", "copy"} /\ s.to = r /\ s.from = {} /\ s.arg = text BY DEF Intern, Copy, Do
<1>2. A.ok = held /\ A.held = held /\ A.kinds = kinds /\ A.base = {} /\ ~ A.off /\ ~ A.room
      /\ A.texts = {} /\ ~ A.free /\ A.depth = depth /\ A.low = depth
  BY AtIs
<1>3. B.ok = held \cup {r} /\ B.held = held /\ B.kinds = kinds /\ B.base = {} /\ ~ B.off /\ ~ B.room
      /\ B.texts = {} /\ ~ B.free /\ B.depth = depth /\ B.low = depth
      /\ A.off \in BOOLEAN /\ A.room \in BOOLEAN /\ A.free \in BOOLEAN
      /\ B.off \in BOOLEAN /\ B.room \in BOOLEAN /\ B.free \in BOOLEAN
  BY DEF At, Claim
<1> HIDE DEF A, B
<1>4. Alive(A, s) = held BY <1>1, <1>2 DEF Alive, Allocates
<1>5. Sane(A) /\ Sane(B) BY <1>2, <1>3 DEF Sane
<1>6. Assigned(A, s, B, StringKinds({s.arg}))
  <2>1. kinds \subseteq {k \in kinds : k[1] # r} OBVIOUS
  <2> QED BY <1>1, <1>2, <1>3, <1>4, <2>1 DEF Assigned
<1>7. GoesIntern(A, s, B) BY <1>1, <1>2, <1>3, <1>4, <1>6 DEF GoesIntern, SameStack
<1> QED BY <1>1, <1>3, <1>4, <1>5, <1>7 DEF Goes

LEMMA ThrowStep ==
    ASSUME NEW ok, NEW held, ok \subseteq Registers, held \subseteq ok, NEW kinds, NEW depth \in Nat, NEW r \in ok
    PROVE  Goes(At(ok, held, kinds, depth), Throw(r), At(ok, {}, {}, 0))
  BY DEF Goes, GoesThrow, Sane, Alive, Allocates, Throw, Do, Registers, Claim, At, NoneHeld

LEMMA OperandsNat ==
    ASSUME Sound, Typed, frames # <<>>
    PROVE  Operands \in Nat /\ Len(stack) \in Nat
<1> DEFINE S == {Active.base} \cup {u.slot : u \in open}
<1>1. Len(stack) \in Nat BY SeqIs DEF Typed
<1>2. Active.base \in Nat /\ Active.base < Len(stack) BY ActiveHeld
<1>3. \A u \in open : u.slot \in Nat /\ u.slot < Len(stack) BY DEF Sound, StackIsSound
<1>4. \A x \in S : x \in Nat /\ x < Len(stack) BY <1>2, <1>3
<1>5. S # {} OBVIOUS
<1>6. Operands = Len(stack) - 1 - Max(S) BY DEF Operands
<1> HIDE DEF S
<1>7. S \subseteq 0 .. Len(stack) BY <1>1, <1>4
<1>8. Max(S) \in S BY <1>1, <1>5, <1>7, MaxIs
<1> QED BY <1>1, <1>4, <1>6, <1>8

\* An instruction whose code is not guarded, and that asks nothing of the program's texts.
LEMMA PerformBegun ==
    ASSUME Kept, Typed, Sound, frames # <<>>, NEW vs, NEW code, Perform(vs, code),
           NEW kinds, NEW depth \in Nat, depth <= Operands,
           NEW held, held \subseteq Registers, NEW E, Leads(At(held, held, kinds, depth), code, E),
           \A r \in DOMAIN vs : HeldBy(heap, Full, vs[r]),
           \A r, kind : <<r, kind>> \in kinds => r \in DOMAIN vs /\ IsA(heap, vs[r], kind)
    PROVE  Sound' /\ Planned'
<1>1. PICK A : A = At(held, held, kinds, depth) OBVIOUS
<1>2. /\ A.ok = held /\ A.held = held /\ A.base = {} /\ A.kinds = kinds
      /\ ~ A.off /\ ~ A.room /\ A.depth = depth /\ A.low = depth /\ A.texts = {} /\ ~ A.free
  BY <1>1, AtIs
<1>3. depth <= Len(stack) BY OperandsAre, OperandsNat
<1>4. PlaceHolds(A) BY <1>2, <1>3, PlaceStarts
<1>5. TextsHold(A) BY <1>2 DEF TextsHold
<1>6. Leads(A, code, E) BY <1>1
<1> QED BY <1>2, <1>4, <1>5, <1>6, PerformPlanned

\* The variables that it begins with, by name.
LEMMA PerformOne ==
    ASSUME Kept, Typed, Sound, frames # <<>>, NEW a, NEW code, Perform([a |-> a], code),
           NEW kinds, NEW depth \in Nat, depth <= Operands, \A k \in kinds : k[1] = "a",
           NEW held, held \subseteq Registers, NEW E, Leads(At(held, held, kinds, depth), code, E),
           HeldBy(heap, Full, a), \A kind : <<"a", kind>> \in kinds => IsA(heap, a, kind)
    PROVE  Sound' /\ Planned'
<1>1. PICK vs : vs = [a |-> a] OBVIOUS
<1>2. DOMAIN vs = {"a"} /\ vs["a"] = a BY <1>1
<1>3. Perform(vs, code) BY <1>1
<1>4. \A r, kind : <<r, kind>> \in kinds => r \in DOMAIN vs /\ IsA(heap, vs[r], kind)
  <2>1. \A r, kind : <<r, kind>> \in kinds => r = "a" OBVIOUS
  <2> QED BY <1>2, <2>1
<1> QED BY <1>2, <1>3, <1>4, PerformBegun

LEMMA PerformTwo ==
    ASSUME Kept, Typed, Sound, frames # <<>>, NEW a, NEW b, NEW code, Perform([a |-> a, b |-> b], code),
           NEW kinds, NEW depth \in Nat, depth <= Operands, \A k \in kinds : k[1] \in {"a", "b"},
           NEW held, held \subseteq Registers, NEW E, Leads(At(held, held, kinds, depth), code, E),
           HeldBy(heap, Full, a), HeldBy(heap, Full, b),
           \A kind : <<"a", kind>> \in kinds => IsA(heap, a, kind),
           \A kind : <<"b", kind>> \in kinds => IsA(heap, b, kind)
    PROVE  Sound' /\ Planned'
<1>1. PICK vs : vs = [a |-> a, b |-> b] OBVIOUS
<1>2. DOMAIN vs = {"a", "b"} /\ vs["a"] = a /\ vs["b"] = b BY <1>1
<1>3. Perform(vs, code) BY <1>1
<1>4. \A r, kind : <<r, kind>> \in kinds => r \in DOMAIN vs /\ IsA(heap, vs[r], kind)
  <2>1. \A r, kind : <<r, kind>> \in kinds => r \in {"a", "b"} OBVIOUS
  <2> QED BY <1>2, <2>1
<1> QED BY <1>2, <1>3, <1>4, PerformBegun

LEMMA PerformThree ==
    ASSUME Kept, Typed, Sound, frames # <<>>, NEW a, NEW b, NEW n, NEW code,
           Perform([a |-> a, b |-> b, n |-> n], code),
           NEW depth \in Nat, depth <= Operands,
           NEW held, held \subseteq Registers, NEW E, Leads(At(held, held, {}, depth), code, E),
           HeldBy(heap, Full, a), HeldBy(heap, Full, b), HeldBy(heap, Full, n)
    PROVE  Sound' /\ Planned'
<1>1. PICK vs : vs = [a |-> a, b |-> b, n |-> n] OBVIOUS
<1>2. DOMAIN vs = {"a", "b", "n"} /\ vs["a"] = a /\ vs["b"] = b /\ vs["n"] = n BY <1>1
<1>3. Perform(vs, code) BY <1>1
<1>4. \A r, kind : <<r, kind>> \in {} => r \in DOMAIN vs /\ IsA(heap, vs[r], kind) OBVIOUS
<1> QED BY <1>2, <1>3, <1>4, PerformBegun

LEMMA NamesIs == Registers = {"a", "b", "c", "r", "n"} BY DEF Registers

LEMMA LoadPlanned ==
    ASSUME Kept, Typed, Sound, Load
    PROVE  Sound' /\ Planned'
<1>1. frames # <<>> BY DEF Load
<1>2. PICK v \in Loaded : Perform([a |-> v], <<Push("a")>>) BY DEF Load
<1>3. Leads(At(Registers, Registers, {}, 0), <<Push("a")>>, At(Registers, Registers \cup {"a"}, {}, 1))
  BY PushStep, LeadsOne, NamesIs
<1>4. HeldBy(heap, Full, v) BY <1>1, LoadedHeld
<1>5. 0 <= Operands BY <1>1, OperandsNat
<1> QED BY <1>1, <1>2, <1>3, <1>4, <1>5, PerformOne

LEMMA DefineGlobalPlanned ==
    ASSUME Kept, Typed, Sound, DefineGlobal
    PROVE  Sound' /\ Planned'
<1>1. frames # <<>> /\ Operands > 0 BY DEF DefineGlobal, Runs
<1>2. PICK name \in Constants("string") :
         Perform([a |-> {name}, b |-> Peek(0)], <<Block, Define("a", "b"), Drop(1)>>)
  BY DEF DefineGlobal
<1> DEFINE A == At(Registers, Registers, {}, 1)
           B == At(Registers, {}, {}, 1)
<1>3. Goes(A, Block, A) BY BlockStep
<1>4. Goes(A, Define("a", "b"), B)
  BY DEF Goes, GoesDefine, Sane, Alive, Allocates, Define, Do, Registers, Claim, At, SameVariables, NoneHeld,
         SameGc, SameStack
<1>5. Goes(B, Drop(1), At(Registers, {}, {}, 0)) BY DropStep
<1>6. Leads(A, <<Block, Define("a", "b"), Drop(1)>>, At(Registers, {}, {}, 0))
  BY <1>3, <1>4, <1>5, LeadsThree
<1>7. HeldBy(heap, Full, {name}) BY <1>1, ConstantHeld
<1>8. 1 <= Operands /\ 0 < Len(stack) BY <1>1, OperandsNat, OperandsAre
<1>9. HeldBy(heap, Full, Peek(0)) BY <1>8, PeekHeld
<1>10. PICK v, w, code : /\ v = {name} /\ w = Peek(0)
                         /\ code = <<Block, Define("a", "b"), Drop(1)>>
  OBVIOUS
<1>11. Perform([a |-> v, b |-> w], code) BY <1>2, <1>10
<1>12. HeldBy(heap, Full, v) /\ HeldBy(heap, Full, w) BY <1>7, <1>9, <1>10
<1>13. Leads(At(Registers, Registers, {}, 1), code, At(Registers, {}, {}, 0)) BY <1>6, <1>10
<1> HIDE DEF A, B
<1> QED BY <1>1, <1>8, <1>11, <1>12, <1>13, PerformTwo

LEMMA CallLeads ==
    ASSUME NEW argc \in Nat
    PROVE  \E E : Leads(At(Registers, Registers, {<<"a", "closure">>}, argc + 1), <<Enter("a", argc)>>, E)
<1> DEFINE k == {<<"a", "closure">>}
<1>1. Goes(At(Registers, Registers, k, argc + 1), Enter("a", argc), At(Registers, {}, k, 0))
  BY EnterStep, NamesIs, argc + 1 \in Nat, argc < argc + 1, <<"a", "closure">> \in k
<1> QED BY <1>1, LeadsOne

\* The operands an instruction finds on the stack are held, those that lie below one too.
LEMMA OperandHeld ==
    ASSUME Typed, Sound, frames # <<>>, NEW d \in Nat, Operands > d
    PROVE  HeldBy(heap, Full, Peek(d)) /\ d + 1 <= Operands
<1>1. d + 1 <= Operands /\ d <= Operands BY OperandsNat
<1>2. d < Len(stack) BY <1>1, OperandsAre
<1> QED BY <1>1, <1>2, PeekHeld

LEMMA IsTyped == ASSUME NEW v, NEW type \in DOMAIN Fields, Is(v, type)
                 PROVE IsA(heap, v, type) /\ \A o \in v : heap[o].type = type
  BY DEF Is, IsA, Fields

LEMMA CallClosurePlanned ==
    ASSUME Kept, Typed, Sound, CallClosure
    PROVE  Sound' /\ Planned'
<1>1. PICK argc \in 0 .. 1 : Callee(argc, "closure") /\ Perform([a |-> Peek(argc)], <<Enter("a", argc)>>)
  BY DEF CallClosure
<1>2. frames # <<>> /\ Operands > argc /\ Is(Peek(argc), "closure") /\ argc \in Nat
  BY <1>1 DEF Callee, Runs
<1>3. HeldBy(heap, Full, Peek(argc)) /\ argc + 1 <= Operands BY <1>2, OperandHeld
<1>4. IsA(heap, Peek(argc), "closure") BY <1>2, IsTyped DEF Fields
<1>5. PICK E : Leads(At(Registers, Registers, {<<"a", "closure">>}, argc + 1), <<Enter("a", argc)>>, E) BY <1>2, CallLeads
<1>6. argc + 1 \in Nat BY <1>2
<1> QED BY <1>1, <1>2, <1>3, <1>4, <1>5, <1>6, PerformOne

\* A method of a class that the roots reach.
LEMMA MethodHeld ==
    ASSUME Typed, Sound, NEW v, HeldBy(heap, Full, v), Is(v, "instance"),
           NEW method \in Get(Get(v, "class_"), "methods"), heap[method].type = "closure"
    PROVE  HeldBy(heap, Full, {method}) /\ IsA(heap, {method}, "closure")
<1>1. /\ "instance" \in DOMAIN Fields /\ "class_" \in Fields["instance"]
      /\ "class" \in DOMAIN Fields /\ "methods" \in Fields["class"]
  BY DEF Fields
<1>2. \A o \in v : heap[o].type = "instance" BY DEF Is
<1>3. /\ HeldBy(heap, Full, Get(v, "class_"))
      /\ \A o \in v : FieldIsSound(heap, "instance", "class_", heap[o].refs["class_"])
  BY <1>1, <1>2, GetHeld
<1>4. \A o \in Get(v, "class_") : heap[o].type = "class"
  <2>1. \A o \in v : IsA(heap, heap[o].refs["class_"], "class")
    BY <1>3 DEF FieldIsSound, Kind
  <2>2. \A o \in v : \A p \in heap[o].refs["class_"] : heap[p].type = "class" BY <2>1 DEF IsA
  <2> QED BY <2>2 DEF Get
<1>5. HeldBy(heap, Full, Get(Get(v, "class_"), "methods")) BY <1>1, <1>3, <1>4, GetHeld
<1>6. HeldBy(heap, Full, {method}) BY <1>5, HeldMore
<1>7. IsA(heap, {method}, "closure") BY DEF IsA
<1> QED BY <1>6, <1>7

LEMMA InvokeMethodPlanned ==
    ASSUME Kept, Typed, Sound, InvokeMethod
    PROVE  Sound' /\ Planned'
<1>1. PICK argc \in 0 .. 1 :
         /\ Operands > argc /\ Is(Peek(argc), "instance")
         /\ \E method \in Get(Get(Peek(argc), "class_"), "methods") :
               heap[method].type = "closure" /\ Perform([a |-> {method}], <<Enter("a", argc)>>)
  BY DEF InvokeMethod
<1>2. frames # <<>> /\ argc \in Nat BY <1>1 DEF InvokeMethod, Runs
<1>3. PICK method \in Get(Get(Peek(argc), "class_"), "methods") :
         heap[method].type = "closure" /\ Perform([a |-> {method}], <<Enter("a", argc)>>)
  BY <1>1
<1>4. HeldBy(heap, Full, Peek(argc)) /\ argc + 1 <= Operands BY <1>1, <1>2, OperandHeld
<1>5. HeldBy(heap, Full, {method}) /\ IsA(heap, {method}, "closure") BY <1>1, <1>3, <1>4, MethodHeld
<1>6. PICK E : Leads(At(Registers, Registers, {<<"a", "closure">>}, argc + 1), <<Enter("a", argc)>>, E) BY <1>2, CallLeads
<1>7. argc + 1 \in Nat BY <1>2
<1>8. PICK v : v = {method} OBVIOUS
<1>9. Perform([a |-> v], <<Enter("a", argc)>>) BY <1>3, <1>8
<1>10. HeldBy(heap, Full, v) /\ IsA(heap, v, "closure") BY <1>5, <1>8
<1> QED BY <1>2, <1>4, <1>6, <1>7, <1>9, <1>10, PerformOne

LEMMA CallBoundPlanned ==
    ASSUME Kept, Typed, Sound, CallBound
    PROVE  Sound' /\ Planned'
<1>1. PICK argc \in 0 .. 1 :
         /\ Callee(argc, "bound_method")
         /\ Perform([a |-> Get(Peek(argc), "receiver"), b |-> Get(Peek(argc), "method")],
                    <<Replace(argc, "a"), Enter("b", argc)>>)
  BY DEF CallBound
<1>2. frames # <<>> /\ Operands > argc /\ Is(Peek(argc), "bound_method") /\ argc \in Nat
  BY <1>1 DEF Callee, Runs
<1>3. HeldBy(heap, Full, Peek(argc)) /\ argc + 1 <= Operands BY <1>2, OperandHeld
<1>4. /\ "bound_method" \in DOMAIN Fields /\ "receiver" \in Fields["bound_method"]
      /\ "method" \in Fields["bound_method"]
  BY DEF Fields
<1>5. \A o \in Peek(argc) : heap[o].type = "bound_method" BY <1>2 DEF Is
<1>6. PICK v : v = Get(Peek(argc), "receiver") OBVIOUS
<1>7. PICK w : w = Get(Peek(argc), "method") OBVIOUS
<1>8. HeldBy(heap, Full, v) BY <1>3, <1>4, <1>5, <1>6, GetHeld
<1>9. /\ HeldBy(heap, Full, w)
      /\ \A o \in Peek(argc) : FieldIsSound(heap, "bound_method", "method", heap[o].refs["method"])
  BY <1>3, <1>4, <1>5, <1>7, GetHeld
<1>10. IsA(heap, w, "closure")
  <2>1. \A o \in Peek(argc) : IsA(heap, heap[o].refs["method"], "closure")
    BY <1>9 DEF FieldIsSound, Kind
  <2>2. \A o \in Peek(argc) : \A p \in heap[o].refs["method"] : heap[p].type = "closure" BY <2>1 DEF IsA
  <2> QED BY <1>7, <2>2 DEF Get, IsA
<1> DEFINE k == {<<"b", "closure">>}
<1>11. argc + 1 \in Nat /\ argc < argc + 1 /\ <<"b", "closure">> \in k BY <1>2
<1>12. Goes(At(Registers, Registers, k, argc + 1), Replace(argc, "a"), At(Registers, {}, k, argc + 1))
  BY <1>2, <1>11, ReplaceStep, NamesIs
<1>13. Goes(At(Registers, {}, k, argc + 1), Enter("b", argc), At(Registers, {}, k, 0))
  BY <1>2, <1>11, EnterStep, NamesIs
<1>14. Leads(At(Registers, Registers, k, argc + 1), <<Replace(argc, "a"), Enter("b", argc)>>, At(Registers, {}, k, 0))
  BY <1>12, <1>13, LeadsTwo
<1>15. Perform([a |-> v, b |-> w], <<Replace(argc, "a"), Enter("b", argc)>>) BY <1>1, <1>6, <1>7
<1>16. /\ \A x \in k : x[1] \in {"a", "b"}
       /\ \A kind : <<"a", kind>> \notin k
       /\ \A kind : <<"b", kind>> \in k => kind = "closure"
  OBVIOUS
<1> HIDE DEF k
<1> QED BY <1>2, <1>3, <1>8, <1>9, <1>10, <1>11, <1>14, <1>15, <1>16, PerformTwo

\* The new instance, and the initialiser of its class.
LEMMA CreateLeads ==
    ASSUME NEW argc \in Nat, NEW k, k = {<<"a", "class">>, <<"b", "closure">>}
    PROVE  Leads(At({"a", "b"}, {"a", "b"}, k, argc + 1),
                 <<New("r", "instance", [class_ |-> {"a"}]), Replace(argc, "r")>>,
                 At({"a", "b", "r"}, {}, k \cup {<<"r", "instance">>, <<"r", "one">>}, argc + 1))
<1> DEFINE p == [class_ |-> {"a"}]
           A == At({"a", "b"}, {"a", "b"}, k, argc + 1)
           k2 == k \cup {<<"r", "instance">>, <<"r", "one">>}
           B == At({"a", "b", "r"}, {"a", "b"}, k2, argc + 1)
<1>1. argc + 1 \in Nat /\ argc < argc + 1 OBVIOUS
<1>2. Goes(A, New("r", "instance", p), B)
  <2>1. /\ DOMAIN p = {"class_"} /\ p["class_"] = {"a"}
        /\ \A x \in k : x[1] # "r" /\ <<"a", "class">> \in k
    OBVIOUS
  <2>2. /\ {"a", "b"} \subseteq Registers /\ "r" \in Registers \ {"a", "b"}
        /\ {"a", "b"} \cup {"r"} = {"a", "b", "r"} /\ "instance" \in DOMAIN Fields \ {"string"}
    BY DEF Registers, Fields
  <2>3. FitsField(A, "a", "instance", "class_") BY <2>1 DEF FitsField, Kind, At, Claim
  <2>4. \A f \in DOMAIN p : p[f] \subseteq {"a", "b"} /\ \A x \in p[f] : FitsField(A, x, "instance", f)
    BY <2>1, <2>3
  <2> HIDE DEF p
  <2> QED BY <1>1, <2>1, <2>2, <2>4, NewStep
<1>3. Goes(B, Replace(argc, "r"), At({"a", "b", "r"}, {}, k2, argc + 1))
  <2> HIDE DEF k2
  <2>1. {"a", "b", "r"} \subseteq Registers /\ {"a", "b"} \subseteq {"a", "b", "r"} /\ "r" \in {"a", "b", "r"}
    BY DEF Registers
  <2> QED BY <1>1, <2>1, ReplaceStep
<1> HIDE DEF A, B, k2
<1>4. Leads(A, <<New("r", "instance", p), Replace(argc, "r")>>, At({"a", "b", "r"}, {}, k2, argc + 1))
  BY <1>2, <1>3, LeadsTwo
<1> QED BY <1>4 DEF A, k2

LEMMA CallClassPlanned ==
    ASSUME Kept, Typed, Sound, CallClass
    PROVE  Sound' /\ Planned'
<1> DEFINE create(argc) == <<New("r", "instance", [class_ |-> {"a"}]), Replace(argc, "r")>>
<1>1. PICK argc \in 0 .. 1 :
         /\ Callee(argc, "class")
         /\ \/ \E method \in {m \in Get(Peek(argc), "methods") : heap[m].type = "closure"} :
                  Perform([a |-> Peek(argc), b |-> {method}], create(argc) \o <<Enter("b", argc)>>)
            \/ argc = 0 /\ Perform([a |-> Peek(0)], create(argc))
  BY DEF CallClass
<1>2. frames # <<>> /\ Operands > argc /\ Is(Peek(argc), "class") /\ argc \in Nat
  BY <1>1 DEF Callee, Runs
<1>3. HeldBy(heap, Full, Peek(argc)) /\ argc + 1 <= Operands /\ argc + 1 \in Nat
  BY <1>2, OperandHeld
<1>4. IsA(heap, Peek(argc), "class") /\ \A o \in Peek(argc) : heap[o].type = "class"
  BY <1>2, IsTyped DEF Fields
<1>5. PICK k : k = {<<"a", "class">>, <<"b", "closure">>} OBVIOUS
<1> DEFINE k2 == k \cup {<<"r", "instance">>, <<"r", "one">>}
           A == At({"a", "b"}, {"a", "b"}, k, argc + 1)
           B == At({"a", "b", "r"}, {}, k2, argc + 1)
<1>6. Leads(A, create(argc), B) BY <1>2, <1>5, CreateLeads
<1>7. Goes(B, Enter("b", argc), At({"a", "b", "r"}, {}, k2, 0))
  <2>1. argc < argc + 1 /\ <<"b", "closure">> \in k2 BY <1>2, <1>5
  <2>2. {"a", "b", "r"} \subseteq Registers /\ "b" \in {"a", "b", "r"} BY DEF Registers
  <2> HIDE DEF k2
  <2> QED BY <1>2, <1>3, <2>1, <2>2, EnterStep
<1>8. {"a", "b"} \subseteq Registers BY DEF Registers
<1>9. PICK c : c = create(argc) OBVIOUS
<1>10. PICK v : v = Peek(argc) OBVIOUS
<1>11. Leads(A, c \o <<Enter("b", argc)>>, At({"a", "b", "r"}, {}, k2, 0))
  <2> HIDE DEF A, B, k2
  <2>1. Leads(B, <<Enter("b", argc)>>, At({"a", "b", "r"}, {}, k2, 0)) BY <1>7, LeadsOne
  <2> QED BY <1>6, <1>9, <2>1, LeadsThen
<1>12. /\ \A x \in k : x[1] \in {"a", "b"}
       /\ \A kind : <<"a", kind>> \in k => kind = "class"
       /\ \A kind : <<"b", kind>> \in k => kind = "closure"
  BY <1>5
<1>13. ASSUME NEW w, HeldBy(heap, Full, w), IsA(heap, w, "closure"),
              Perform([a |-> v, b |-> w], c \o <<Enter("b", argc)>>)
       PROVE  Sound' /\ Planned'
  <2> HIDE DEF k2, create
  <2> QED BY <1>2, <1>3, <1>4, <1>8, <1>10, <1>11, <1>12, <1>13, PerformTwo
<1>14. ASSUME NEW method \in {m \in Get(Peek(argc), "methods") : heap[m].type = "closure"},
              Perform([a |-> Peek(argc), b |-> {method}], create(argc) \o <<Enter("b", argc)>>)
       PROVE  Sound' /\ Planned'
  <2>1. "class" \in DOMAIN Fields /\ "methods" \in Fields["class"] BY DEF Fields
  <2>2. HeldBy(heap, Full, Get(Peek(argc), "methods")) BY <1>3, <1>4, <2>1, GetHeld
  <2>3. {method} \subseteq Get(Peek(argc), "methods") /\ heap[method].type = "closure" BY <1>14
  <2>4. PICK w : w = {method} OBVIOUS
  <2>5. HeldBy(heap, Full, w) BY <2>2, <2>3, <2>4, HeldMore
  <2>6. IsA(heap, w, "closure") BY <2>3, <2>4 DEF IsA
  <2>7. Perform([a |-> v, b |-> w], c \o <<Enter("b", argc)>>) BY <1>9, <1>10, <1>14, <2>4
  <2> HIDE DEF create
  <2> QED BY <1>13, <2>5, <2>6, <2>7
<1>15. ASSUME Perform([a |-> Peek(0)], create(argc)), argc = 0 PROVE Sound' /\ Planned'
  <2>1. PICK k1 : k1 = {<<"a", "class">>} OBVIOUS
  <2>2. PICK vs : vs = [a |-> v, b |-> {}] OBVIOUS
  <2>3. DOMAIN vs = {"a", "b"} /\ vs["a"] = v /\ vs["b"] = {} BY <2>2
  <2>4. Perform(vs, c)
    <3>1. Perform([a |-> v], c) BY <1>9, <1>10, <1>15
    <3>2. [r \in Registers |-> IF r \in DOMAIN [a |-> v] THEN [a |-> v][r] ELSE {}]
          = [r \in Registers |-> IF r \in DOMAIN vs THEN vs[r] ELSE {}]
      BY <2>3
    <3> QED BY <3>1, <3>2 DEF Perform
  <2>5. HeldBy(heap, Full, {}) /\ IsA(heap, {}, "closure") BY HeldRoots DEF IsA
  <2>6. \A r \in DOMAIN vs : HeldBy(heap, Full, vs[r]) BY <1>3, <1>10, <2>3, <2>5
  <2>7. \A r, kind : <<r, kind>> \in k => r \in DOMAIN vs /\ IsA(heap, vs[r], kind)
    <3>1. \A r, kind : <<r, kind>> \in k => (r = "a" /\ kind = "class") \/ (r = "b" /\ kind = "closure")
      BY <1>5
    <3> QED BY <1>4, <1>10, <2>3, <2>5, <3>1
  <2> HIDE DEF create, B
  <2> QED BY <1>2, <1>3, <1>6, <1>8, <1>9, <2>4, <2>6, <2>7, PerformBegun
<1> HIDE DEF create
<1> QED BY <1>1, <1>14, <1>15

LEMMA MakeClassPlanned ==
    ASSUME Kept, Typed, Sound, MakeClass
    PROVE  Sound' /\ Planned'
<1> DEFINE p == [name |-> {"a"}]
           A == At({"a"}, {"a"}, {}, 0)
           k == {<<"r", "class">>, <<"r", "one">>}
           B == At({"a", "r"}, {"a"}, k, 0)
           C == At({"a", "r"}, {"a", "r"}, k, 1)
<1>1. frames # <<>> BY DEF MakeClass, Runs
<1>2. PICK name \in Constants("string") : Perform([a |-> {name}], <<New("r", "class", p), Push("r")>>)
  BY DEF MakeClass
<1>3. HeldBy(heap, Full, {name}) BY <1>1, ConstantHeld
<1>4. Goes(A, New("r", "class", p), B)
  <2>1. DOMAIN p = {"name"} /\ p["name"] = {"a"} OBVIOUS
  <2>2. /\ {"a"} \subseteq Registers /\ "r" \in Registers \ {"a"}
        /\ {"a"} \cup {"r"} = {"a", "r"} /\ "class" \in DOMAIN Fields \ {"string"}
    BY DEF Registers, Fields
  <2>3. FitsField(A, "a", "class", "name") BY DEF FitsField, Kind
  <2>4. \A f \in DOMAIN p : p[f] \subseteq {"a"} /\ \A x \in p[f] : FitsField(A, x, "class", f)
    BY <2>1, <2>3
  <2>5. PICK none : none = {} OBVIOUS
  <2>6. none \cup k = k /\ \A x \in none : x[1] # "r" BY <2>5
  <2>7. A = At({"a"}, {"a"}, none, 0) BY <2>5
  <2> HIDE DEF p, k, A
  <2>8. Goes(A, New("r", "class", p), At({"a"} \cup {"r"}, {"a"}, none \cup k, 0))
    BY <2>2, <2>4, <2>6, <2>7, NewStep DEF k
  <2> QED BY <2>2, <2>6, <2>8
<1>5. Goes(B, Push("r"), C)
  <2>1. {"a", "r"} \subseteq Registers /\ {"a"} \subseteq {"a", "r"} /\ "r" \in {"a", "r"}
        /\ {"a"} \cup {"r"} = {"a", "r"}
    BY DEF Registers
  <2> HIDE DEF k
  <2> QED BY <2>1, PushStep
<1>6. PICK v, code : v = {name} /\ code = <<New("r", "class", p), Push("r")>> OBVIOUS
<1> HIDE DEF p, A, B, C
<1>7. Leads(A, code, C) BY <1>4, <1>5, <1>6, LeadsTwo
<1>8. Perform([a |-> v], code) /\ HeldBy(heap, Full, v) BY <1>2, <1>3, <1>6
<1>9. 0 <= Operands BY <1>1, OperandsNat
<1> QED BY <1>1, <1>7, <1>8, <1>9, PerformOne, NamesIs DEF A

LEMMA SetEntryLeads ==
    ASSUME NEW held, held \subseteq Registers, NEW kinds, NEW depth \in Nat, NEW r \in held,
           NEW from, from \subseteq held, NEW f \in {"methods", "fields", "values", "message"}
    PROVE  Leads(At(held, held, kinds, depth), SetEntry(r, f, from), At(held, {}, kinds, depth))
<1>1. Goes(At(held, held, kinds, depth), Block, At(held, held, kinds, depth)) BY BlockStep
<1>2. Goes(At(held, held, kinds, depth), Put(r, f, from), At(held, {}, kinds, depth)) BY PutStep
<1> QED BY <1>1, <1>2, LeadsTwo DEF SetEntry

LEMMA DefineMethodPlanned ==
    ASSUME Kept, Typed, Sound, DefineMethod
    PROVE  Sound' /\ Planned'
<1>1. frames # <<>> /\ Operands > 1 BY DEF DefineMethod, Runs
<1>2. PICK name \in Constants("string") :
         Perform([a |-> Peek(1), b |-> Peek(0), n |-> {name}],
                 SetEntry("a", "methods", {"n", "b"}) \o <<Drop(1)>>)
  BY DEF DefineMethod
<1>3. HeldBy(heap, Full, Peek(0)) /\ HeldBy(heap, Full, Peek(1)) /\ 2 <= Operands
  <2>1. Operands > 0 BY <1>1, OperandsNat
  <2> QED BY <1>1, <2>1, OperandHeld
<1>4. HeldBy(heap, Full, {name}) BY <1>1, ConstantHeld
<1>5. Leads(At(Registers, Registers, {}, 2), SetEntry("a", "methods", {"n", "b"}), At(Registers, {}, {}, 2))
  <2>1. {"n", "b"} \subseteq Registers /\ "a" \in Registers BY DEF Registers
  <2> QED BY <2>1, SetEntryLeads
<1>6. Leads(At(Registers, {}, {}, 2), <<Drop(1)>>, At(Registers, {}, {}, 1))
  <2>1. Goes(At(Registers, {}, {}, 2), Drop(1), At(Registers, {}, {}, 1)) BY DropStep
  <2> QED BY <2>1, LeadsOne
<1>7. PICK v, w, x, code : /\ v = Peek(1) /\ w = Peek(0) /\ x = {name}
                           /\ code = SetEntry("a", "methods", {"n", "b"}) \o <<Drop(1)>>
  OBVIOUS
<1>8. Leads(At(Registers, Registers, {}, 2), code, At(Registers, {}, {}, 1))
  BY <1>5, <1>6, <1>7, LeadsThen
<1>9. Perform([a |-> v, b |-> w, n |-> x], code) BY <1>2, <1>7
<1>10. HeldBy(heap, Full, v) /\ HeldBy(heap, Full, w) /\ HeldBy(heap, Full, x) BY <1>3, <1>4, <1>7
<1> QED BY <1>1, <1>3, <1>8, <1>9, <1>10, PerformThree

LEMMA InheritMethodsPlanned ==
    ASSUME Kept, Typed, Sound, InheritMethods
    PROVE  Sound' /\ Planned'
<1>1. frames # <<>> /\ Operands > 1 /\ Is(Peek(1), "class") BY DEF InheritMethods, Runs
<1>2. Perform([a |-> Peek(0), b |-> Get(Peek(1), "methods")],
              SetEntry("a", "methods", {"b"}) \o <<Drop(1)>>)
  BY DEF InheritMethods
<1>3. HeldBy(heap, Full, Peek(0)) /\ HeldBy(heap, Full, Peek(1)) /\ 2 <= Operands
  <2>1. Operands > 0 BY <1>1, OperandsNat
  <2> QED BY <1>1, <2>1, OperandHeld
<1>4. HeldBy(heap, Full, Get(Peek(1), "methods"))
  <2>1. "class" \in DOMAIN Fields /\ "methods" \in Fields["class"] BY DEF Fields
  <2>2. \A o \in Peek(1) : heap[o].type = "class" BY <1>1 DEF Is
  <2> QED BY <1>3, <2>1, <2>2, GetHeld
<1>5. Leads(At(Registers, Registers, {}, 2), SetEntry("a", "methods", {"b"}), At(Registers, {}, {}, 2))
  <2>1. {"b"} \subseteq Registers /\ "a" \in Registers BY DEF Registers
  <2> QED BY <2>1, SetEntryLeads
<1>6. Leads(At(Registers, {}, {}, 2), <<Drop(1)>>, At(Registers, {}, {}, 1))
  <2>1. Goes(At(Registers, {}, {}, 2), Drop(1), At(Registers, {}, {}, 1)) BY DropStep
  <2> QED BY <2>1, LeadsOne
<1>7. PICK v, w, code : /\ v = Peek(0) /\ w = Get(Peek(1), "methods")
                        /\ code = SetEntry("a", "methods", {"b"}) \o <<Drop(1)>>
  OBVIOUS
<1>8. Leads(At(Registers, Registers, {}, 2), code, At(Registers, {}, {}, 1))
  BY <1>5, <1>6, <1>7, LeadsThen
<1>9. Perform([a |-> v, b |-> w], code) BY <1>2, <1>7
<1>10. HeldBy(heap, Full, v) /\ HeldBy(heap, Full, w) BY <1>3, <1>4, <1>7
<1> QED BY <1>1, <1>3, <1>8, <1>9, <1>10, PerformTwo

\* The code that puts a value in the place of those above it.
LEMMA ReplaceTop ==
    ASSUME NEW ok, ok \subseteq Registers, NEW held, held \subseteq ok, NEW kinds, NEW depth \in Nat,
           NEW n \in Nat, n <= depth, NEW r \in ok
    PROVE  \E E : Leads(At(ok, held, kinds, depth), <<Drop(n), Push(r)>>, E)
<1>1. 0 \in Nat /\ 0 + n <= depth /\ 0 <= 0 + 1 /\ {} \subseteq ok OBVIOUS
<1>2. Goes(At(ok, held, kinds, depth), Drop(n), At(ok, {}, kinds, 0)) BY <1>1, DropStep
<1>3. Goes(At(ok, {}, kinds, 0), Push(r), At(ok, {} \cup {r}, kinds, 0)) BY <1>1, PushStep
<1> QED BY <1>2, <1>3, LeadsTwo

LEMMA GetFieldPlanned ==
    ASSUME Kept, Typed, Sound, GetField
    PROVE  Sound' /\ Planned'
<1>1. frames # <<>> /\ Operands > 0 BY DEF GetField, Runs
<1>2. PICK type \in DOMAIN TableOf :
          /\ Is(Peek(0), type)
          /\ \/ \E v \in {{}} \cup {{o} : o \in Get(Peek(0), TableOf[type])} :
                   Perform([a |-> v], <<Drop(1), Push("a")>>)
             \/ Perform(<<>>, <<Push("a")>>)
  BY DEF GetField
<1>3. HeldBy(heap, Full, Peek(0)) /\ 1 <= Operands BY <1>1, OperandHeld
<1>4. HeldBy(heap, Full, Get(Peek(0), TableOf[type]))
  <2>1. type \in DOMAIN Fields /\ TableOf[type] \in Fields[type] BY DEF Fields, TableOf
  <2>2. \A o \in Peek(0) : heap[o].type = type BY <1>2 DEF Is
  <2> QED BY <1>3, <2>1, <2>2, GetHeld
<1>5. ASSUME NEW v \in {{}} \cup {{o} : o \in Get(Peek(0), TableOf[type])},
             Perform([a |-> v], <<Drop(1), Push("a")>>)
      PROVE  Sound' /\ Planned'
  <2>1. v \subseteq Get(Peek(0), TableOf[type]) OBVIOUS
  <2>2. HeldBy(heap, Full, v) BY <1>4, <2>1, HeldMore
  <2>3. PICK E : Leads(At(Registers, Registers, {}, 1), <<Drop(1), Push("a")>>, E)
    BY ReplaceTop, NamesIs
  <2> QED BY <1>1, <1>3, <1>5, <2>2, <2>3, PerformOne
<1>6. ASSUME Perform(<<>>, <<Push("a")>>) PROVE Sound' /\ Planned'
  <2>1. Goes(At(Registers, Registers, {}, 0), Push("a"), At(Registers, Registers \cup {"a"}, {}, 0))
    BY PushStep, NamesIs
  <2>2. Leads(At(Registers, Registers, {}, 0), <<Push("a")>>, At(Registers, Registers \cup {"a"}, {}, 0))
    BY <2>1, LeadsOne
  <2>3. PICK vs : vs = <<>> OBVIOUS
  <2>4. DOMAIN vs = {} BY <2>3
  <2>5. Perform(vs, <<Push("a")>>) BY <1>6, <2>3
  <2>6. 0 <= Operands BY <1>1, OperandsNat
  <2> QED BY <1>1, <2>2, <2>4, <2>5, <2>6, PerformBegun
<1> QED BY <1>2, <1>5, <1>6

LEMMA BindMethodPlanned ==
    ASSUME Kept, Typed, Sound, BindMethod
    PROVE  Sound' /\ Planned'
<1> DEFINE p == [receiver |-> {"a"}, method |-> {"b"}]
<1>1. frames # <<>> /\ Operands > 0 /\ Is(Peek(0), "instance") BY DEF BindMethod, Runs
<1>2. PICK method \in Get(Get(Peek(0), "class_"), "methods") :
         /\ heap[method].type = "closure"
         /\ Perform([a |-> Peek(0), b |-> {method}], <<New("r", "bound_method", p), Push("r")>>)
  BY DEF BindMethod
<1>3. HeldBy(heap, Full, Peek(0)) /\ 0 <= Operands BY <1>1, OperandHeld, OperandsNat
<1>4. HeldBy(heap, Full, {method}) /\ IsA(heap, {method}, "closure") BY <1>1, <1>2, <1>3, MethodHeld
<1>5. PICK k, ks : k = {<<"b", "closure">>} /\ ks = k \cup {<<"r", "bound_method">>, <<"r", "one">>}
  OBVIOUS
<1> DEFINE A == At({"a", "b"}, {"a", "b"}, k, 0)
           B == At({"a", "b"} \cup {"r"}, {"a", "b"}, ks, 0)
<1>6. Goes(A, New("r", "bound_method", p), B)
  <2>1. DOMAIN p = {"receiver", "method"} /\ p["receiver"] = {"a"} /\ p["method"] = {"b"} OBVIOUS
  <2>2. /\ {"a", "b"} \subseteq Registers /\ "r" \in Registers \ {"a", "b"}
        /\ "bound_method" \in DOMAIN Fields \ {"string"}
    BY DEF Registers, Fields
  <2>3. FitsField(A, "a", "bound_method", "receiver") /\ FitsField(A, "b", "bound_method", "method")
    BY <1>5 DEF FitsField, Kind, At, Claim
  <2>4. \A f \in DOMAIN p : p[f] \subseteq {"a", "b"} /\ \A x \in p[f] : FitsField(A, x, "bound_method", f)
    BY <2>1, <2>3
  <2>5. \A x \in k : x[1] # "r" BY <1>5
  <2> HIDE DEF p
  <2> QED BY <1>5, <2>2, <2>4, <2>5, NewStep
<1>7. Goes(B, Push("r"), At({"a", "b"} \cup {"r"}, {"a", "b"} \cup {"r"}, ks, 0))
  <2>1. {"a", "b"} \cup {"r"} \subseteq Registers /\ "r" \in {"a", "b"} \cup {"r"} BY DEF Registers
  <2> QED BY <2>1, PushStep
<1>8. PICK v, w, code : v = Peek(0) /\ w = {method} /\ code = <<New("r", "bound_method", p), Push("r")>>
  OBVIOUS
<1> HIDE DEF B, p
<1>9. Leads(A, code, At({"a", "b"} \cup {"r"}, {"a", "b"} \cup {"r"}, ks, 0)) BY <1>6, <1>7, <1>8, LeadsTwo
<1>10. /\ Perform([a |-> v, b |-> w], code) /\ HeldBy(heap, Full, v) /\ HeldBy(heap, Full, w)
       /\ IsA(heap, w, "closure")
  BY <1>2, <1>3, <1>4, <1>8
<1>11. /\ \A x \in k : x[1] \in {"a", "b"} /\ \A kind : <<"a", kind>> \notin k
       /\ \A kind : <<"b", kind>> \in k => kind = "closure" /\ {"a", "b"} \subseteq Registers
  BY <1>5 DEF Registers
<1>12. {"a", "b"} \subseteq Registers BY DEF Registers
<1> QED BY <1>1, <1>3, <1>9, <1>10, <1>11, <1>12, PerformTwo

LEMMA BindNativePlanned ==
    ASSUME Kept, Typed, Sound, BindNative
    PROVE  Sound' /\ Planned'
<1> DEFINE p == [receiver |-> {"a"}]
<1>1. frames # <<>> /\ Operands > 0 /\ Is(Peek(0), "array") BY DEF BindNative, Runs
<1>2. Perform([a |-> Peek(0)], <<New("r", "bound_native", p), Drop(1), Push("r")>>) BY DEF BindNative
<1>3. HeldBy(heap, Full, Peek(0)) /\ 1 <= Operands BY <1>1, OperandHeld
<1>4. IsA(heap, Peek(0), "array") BY <1>1, IsTyped DEF Fields
<1>5. PICK k, ks : k = {<<"a", "array">>} /\ ks = k \cup {<<"r", "bound_native">>, <<"r", "one">>}
  OBVIOUS
<1> DEFINE A == At({"a"}, {"a"}, k, 1)
           B == At({"a"} \cup {"r"}, {"a"}, ks, 1)
           C == At({"a"} \cup {"r"}, {}, ks, 0)
           D == At({"a"} \cup {"r"}, {} \cup {"r"}, ks, 0)
<1>6. Goes(A, New("r", "bound_native", p), B)
  <2>1. DOMAIN p = {"receiver"} /\ p["receiver"] = {"a"} OBVIOUS
  <2>2. /\ {"a"} \subseteq Registers /\ "r" \in Registers \ {"a"}
        /\ "bound_native" \in DOMAIN Fields \ {"string"}
    BY DEF Registers, Fields
  <2>3. FitsField(A, "a", "bound_native", "receiver") BY <1>5 DEF FitsField, Kind, At, Claim
  <2>4. \A f \in DOMAIN p : p[f] \subseteq {"a"} /\ \A x \in p[f] : FitsField(A, x, "bound_native", f)
    BY <2>1, <2>3
  <2>5. \A x \in k : x[1] # "r" BY <1>5
  <2> HIDE DEF p
  <2> QED BY <1>5, <2>2, <2>4, <2>5, NewStep
<1>7. {"a"} \cup {"r"} \subseteq Registers /\ "r" \in {"a"} \cup {"r"} /\ {"a"} \subseteq Registers
  BY DEF Registers
<1>8. Goes(B, Drop(1), C) BY <1>7, DropStep
<1>9. Goes(C, Push("r"), D) BY <1>7, PushStep
<1>10. PICK v, code : v = Peek(0) /\ code = <<New("r", "bound_native", p), Drop(1), Push("r")>>
  OBVIOUS
<1> HIDE DEF B, C, D, p
<1>11. Leads(A, code, D) BY <1>6, <1>8, <1>9, <1>10, LeadsThree
<1>12. /\ Perform([a |-> v], code) /\ HeldBy(heap, Full, v) /\ IsA(heap, v, "array")
  BY <1>2, <1>3, <1>4, <1>10
<1>13. /\ \A x \in k : x[1] = "a" /\ \A kind : <<"a", kind>> \in k => kind = "array"
  BY <1>5
<1> QED BY <1>1, <1>3, <1>7, <1>11, <1>12, <1>13, PerformOne

LEMMA SetFieldPlanned ==
    ASSUME Kept, Typed, Sound, SetField
    PROVE  Sound' /\ Planned'
<1>1. frames # <<>> /\ Operands > 1 BY DEF SetField, Runs
<1>2. PICK name \in Constants("string"), field \in {"fields", "values"} :
         Perform([a |-> Peek(1), b |-> Peek(0), n |-> {name}],
                 SetEntry("a", field, {"n", "b"}) \o <<Drop(2), Push("b")>>)
  BY DEF SetField
<1>3. HeldBy(heap, Full, Peek(0)) /\ HeldBy(heap, Full, Peek(1)) /\ 2 <= Operands
  <2>1. Operands > 0 BY <1>1, OperandsNat
  <2> QED BY <1>1, <2>1, OperandHeld
<1>4. HeldBy(heap, Full, {name}) BY <1>1, ConstantHeld
<1>5. Leads(At(Registers, Registers, {}, 2), SetEntry("a", field, {"n", "b"}), At(Registers, {}, {}, 2))
  <2>1. {"n", "b"} \subseteq Registers /\ "a" \in Registers BY DEF Registers
  <2> QED BY <2>1, SetEntryLeads
<1>6. PICK E : Leads(At(Registers, {}, {}, 2), <<Drop(2), Push("b")>>, E) BY ReplaceTop, NamesIs
<1>7. PICK v, w, x, code : /\ v = Peek(1) /\ w = Peek(0) /\ x = {name}
                           /\ code = SetEntry("a", field, {"n", "b"}) \o <<Drop(2), Push("b")>>
  OBVIOUS
<1>8. Leads(At(Registers, Registers, {}, 2), code, E) BY <1>5, <1>6, <1>7, LeadsThen
<1>9. Perform([a |-> v, b |-> w, n |-> x], code) BY <1>2, <1>7
<1>10. HeldBy(heap, Full, v) /\ HeldBy(heap, Full, w) /\ HeldBy(heap, Full, x) BY <1>3, <1>4, <1>7
<1> QED BY <1>1, <1>3, <1>8, <1>9, <1>10, PerformThree

LEMMA AllocateArrayLeads ==
    ASSUME NEW d \in Nat
    PROVE  \E ks : Leads(At({"a"}, {"a"}, {}, d), AllocateArray({"a"}), At({"a", "r"}, {}, ks, d))
<1> DEFINE p == [values |-> {"a"}]
<1>1. PICK none, ks : none = {} /\ ks = none \cup {<<"r", "array">>, <<"r", "one">>} OBVIOUS
<1>2. /\ {"a"} \subseteq Registers /\ "r" \in Registers \ {"a"} /\ {"a"} \cup {"r"} = {"a", "r"}
      /\ {"a", "r"} \subseteq Registers /\ {"a"} \subseteq {"a", "r"} /\ "r" \in {"a", "r"}
      /\ "array" \in DOMAIN Fields \ {"string"} /\ d + 1 \in Nat
  BY DEF Registers, Fields
<1>3. Goes(At({"a"}, {"a"}, none, d), New("r", "array", p), At({"a", "r"}, {"a"}, ks, d))
  <2>1. DOMAIN p = {"values"} /\ p["values"] = {"a"} OBVIOUS
  <2>2. FitsField(At({"a"}, {"a"}, none, d), "a", "array", "values") BY DEF FitsField, Kind
  <2>3. \A f \in DOMAIN p : p[f] \subseteq {"a"} /\ \A x \in p[f] : FitsField(At({"a"}, {"a"}, none, d), x, "array", f)
    BY <2>1, <2>2
  <2>4. \A x \in none : x[1] # "r" BY <1>1
  <2> HIDE DEF p
  <2>5. Goes(At({"a"}, {"a"}, none, d), New("r", "array", p), At({"a"} \cup {"r"}, {"a"}, ks, d))
    BY <1>1, <1>2, <2>3, <2>4, NewStep
  <2> QED BY <1>2, <2>5
<1>4. Goes(At({"a", "r"}, {"a"}, ks, d), Push("r"), At({"a", "r"}, {"a", "r"}, ks, d + 1))
  <2>1. Goes(At({"a", "r"}, {"a"}, ks, d), Push("r"), At({"a", "r"}, {"a"} \cup {"r"}, ks, d + 1))
    BY <1>2, PushStep
  <2> QED BY <1>2, <2>1
<1>5. Goes(At({"a", "r"}, {"a", "r"}, ks, d + 1), Block, At({"a", "r"}, {"a", "r"}, ks, d + 1))
  BY <1>2, BlockStep
<1>6. Goes(At({"a", "r"}, {"a", "r"}, ks, d + 1), Drop(1), At({"a", "r"}, {}, ks, d))
  BY <1>2, DropStep
<1> HIDE DEF p
<1>7. Leads(At({"a"}, {"a"}, none, d), <<New("r", "array", p), Push("r"), Block, Drop(1)>>,
            At({"a", "r"}, {}, ks, d))
  BY <1>3, <1>4, <1>5, <1>6, LeadsFour
<1> QED BY <1>1, <1>7 DEF AllocateArray, p

LEMMA ArrayResultLeads ==
    ASSUME NEW d \in Nat, NEW n \in Nat, n <= d
    PROVE  \E E : Leads(At({"a"}, {"a"}, {}, d), AllocateArray({"a"}) \o <<Drop(n), Push("r")>>, E)
<1>1. PICK ks : Leads(At({"a"}, {"a"}, {}, d), AllocateArray({"a"}), At({"a", "r"}, {}, ks, d))
  BY AllocateArrayLeads
<1>2. {"a", "r"} \subseteq Registers /\ "r" \in {"a", "r"} /\ {} \subseteq {"a", "r"} BY DEF Registers
<1>3. \E E : Leads(At({"a", "r"}, {}, ks, d), <<Drop(n), Push("r")>>, E) BY <1>2, ReplaceTop
<1> QED BY <1>1, <1>3, LeadsThen

LEMMA MakeArrayPlanned ==
    ASSUME Kept, Typed, Sound, MakeArray
    PROVE  Sound' /\ Planned'
<1>1. frames # <<>> BY DEF MakeArray, Runs
<1>2. PICK n \in 0 .. 1 :
         /\ Operands >= n
         /\ Perform([a |-> IF n = 0 THEN {} ELSE Peek(0)], AllocateArray({"a"}) \o <<Drop(n), Push("r")>>)
  BY DEF MakeArray
<1>3. PICK v, code : /\ v = (IF n = 0 THEN {} ELSE Peek(0))
                     /\ code = AllocateArray({"a"}) \o <<Drop(n), Push("r")>>
  OBVIOUS
<1>4. HeldBy(heap, Full, v)
  <2>1. CASE n = 0 BY <1>3, <2>1, HeldRoots
  <2>2. CASE n # 0
    <3>1. Operands > 0 BY <1>1, <1>2, <2>2, OperandsNat
    <3> QED BY <1>1, <1>3, <2>2, <3>1, OperandHeld
  <2> QED BY <2>1, <2>2
<1>5. n \in Nat /\ n <= Operands BY <1>1, <1>2, OperandsNat
<1>6. PICK E : Leads(At({"a"}, {"a"}, {}, n), code, E) BY <1>3, <1>5, ArrayResultLeads
<1>7. Perform([a |-> v], code) BY <1>2, <1>3
<1>8. {"a"} \subseteq Registers BY DEF Registers
<1> QED BY <1>1, <1>4, <1>5, <1>6, <1>7, <1>8, PerformOne

LEMMA SetElementPlanned ==
    ASSUME Kept, Typed, Sound, SetElement
    PROVE  Sound' /\ Planned'
<1>1. frames # <<>> /\ Operands > 1 BY DEF SetElement, Runs
<1>2. Perform([a |-> Peek(1), b |-> Peek(0)], SetEntry("a", "values", {"b"}) \o <<Drop(1)>>)
  BY DEF SetElement
<1>3. HeldBy(heap, Full, Peek(0)) /\ HeldBy(heap, Full, Peek(1)) /\ 2 <= Operands
  <2>1. Operands > 0 BY <1>1, OperandsNat
  <2> QED BY <1>1, <2>1, OperandHeld
<1>5. Leads(At(Registers, Registers, {}, 2), SetEntry("a", "values", {"b"}), At(Registers, {}, {}, 2))
  <2>1. {"b"} \subseteq Registers /\ "a" \in Registers BY DEF Registers
  <2> QED BY <2>1, SetEntryLeads
<1>6. Leads(At(Registers, {}, {}, 2), <<Drop(1)>>, At(Registers, {}, {}, 1))
  <2>1. Goes(At(Registers, {}, {}, 2), Drop(1), At(Registers, {}, {}, 1)) BY DropStep
  <2> QED BY <2>1, LeadsOne
<1>7. PICK v, w, code : /\ v = Peek(1) /\ w = Peek(0)
                        /\ code = SetEntry("a", "values", {"b"}) \o <<Drop(1)>>
  OBVIOUS
<1>8. Leads(At(Registers, Registers, {}, 2), code, At(Registers, {}, {}, 1))
  BY <1>5, <1>6, <1>7, LeadsThen
<1>9. Perform([a |-> v, b |-> w], code) BY <1>2, <1>7
<1>10. HeldBy(heap, Full, v) /\ HeldBy(heap, Full, w) BY <1>3, <1>7
<1> QED BY <1>1, <1>3, <1>8, <1>9, <1>10, PerformTwo

LEMMA TextsAre ==
    ASSUME Kept
    PROVE  /\ program.made \subseteq Texts /\ program.texts \subseteq Texts
           /\ ModuleText \in Texts /\ FunctionText \in Texts
  BY CollectorConstants DEF Kept

LEMMA ConcatenateStringsPlanned ==
    ASSUME Kept, Typed, Sound, ConcatenateStrings
    PROVE  Sound' /\ Planned'
<1>1. frames # <<>> /\ Operands > 1 BY DEF ConcatenateStrings, Runs
<1>2. PICK text \in program.made :
         Perform([a |-> Peek(1), b |-> Peek(0)],
                 <<Block, Use({"a", "b"}), Intern("r", text), Drop(2), Push("r")>>)
  BY DEF ConcatenateStrings
<1>3. HeldBy(heap, Full, Peek(0)) /\ HeldBy(heap, Full, Peek(1)) /\ 2 <= Operands
  <2>1. Operands > 0 BY <1>1, OperandsNat
  <2> QED BY <1>1, <2>1, OperandHeld
<1> DEFINE k == {"a", "b"}
           A == At(k, k, {}, 2)
           B == At(k \cup {"r"}, k, {}, 2)
           C == At(k \cup {"r"}, {}, {}, 0)
           D == At(k \cup {"r"}, {} \cup {"r"}, {}, 0)
<1>4. k \subseteq Registers /\ k \cup {"r"} \subseteq Registers /\ "r" \in Registers \ k /\ "r" \in k \cup {"r"}
  BY DEF Registers
<1>5. Goes(A, Block, A) BY <1>4, BlockStep
<1>6. Goes(A, Use({"a", "b"}), A) BY <1>4, UseStep
<1>7. Goes(A, Intern("r", text), B)
  <2>1. text \in Texts BY TextsAre
  <2>2. PICK none : none = {} OBVIOUS
  <2>3. \A x \in none : x[1] # "r" BY <2>2
  <2> HIDE DEF k
  <2>4. Goes(At(k, k, none, 2), Intern("r", text), At(k \cup {"r"}, k, none, 2))
    BY <1>4, <2>1, <2>3, InternStep
  <2> QED BY <2>2, <2>4
<1>8. Goes(B, Drop(2), C) BY <1>4, DropStep
<1>9. Goes(C, Push("r"), D) BY <1>4, PushStep
<1>10. PICK v, w, code : /\ v = Peek(1) /\ w = Peek(0)
                         /\ code = <<Block, Use({"a", "b"}), Intern("r", text), Drop(2), Push("r")>>
  OBVIOUS
<1> HIDE DEF B, C, D, k
<1>11. Leads(A, code, D)
  <2> HIDE DEF A
  <2> QED BY <1>5, <1>6, <1>7, <1>8, <1>9, <1>10, LeadsFive
<1>12. Perform([a |-> v, b |-> w], code) BY <1>2, <1>10
<1>13. HeldBy(heap, Full, v) /\ HeldBy(heap, Full, w) BY <1>3, <1>10
<1> QED BY <1>1, <1>3, <1>4, <1>11, <1>12, <1>13, PerformTwo

LEMMA ConcatenateArraysPlanned ==
    ASSUME Kept, Typed, Sound, ConcatenateArrays
    PROVE  Sound' /\ Planned'
<1>1. frames # <<>> /\ Operands > 1 /\ Is(Peek(0), "array") /\ Is(Peek(1), "array")
  BY DEF ConcatenateArrays, Runs
<1>2. PICK v, code : /\ v = Get(Peek(0) \cup Peek(1), "values")
                     /\ code = AllocateArray({"a"}) \o <<Drop(2), Push("r")>>
  OBVIOUS
<1>3. Perform([a |-> v], code) BY <1>2 DEF ConcatenateArrays
<1>4. HeldBy(heap, Full, Peek(0)) /\ HeldBy(heap, Full, Peek(1)) /\ 2 <= Operands
  <2>1. Operands > 0 BY <1>1, OperandsNat
  <2> QED BY <1>1, <2>1, OperandHeld
<1>5. HeldBy(heap, Full, v)
  <2>1. HeldBy(heap, Full, Peek(0) \cup Peek(1)) BY <1>4, HeldBoth
  <2>2. \A o \in Peek(0) \cup Peek(1) : heap[o].type = "array" BY <1>1 DEF Is
  <2>3. "array" \in DOMAIN Fields /\ "values" \in Fields["array"] BY DEF Fields
  <2> QED BY <1>2, <2>1, <2>2, <2>3, GetHeld
<1>6. PICK E : Leads(At({"a"}, {"a"}, {}, 2), code, E) BY <1>2, ArrayResultLeads
<1>7. {"a"} \subseteq Registers BY DEF Registers
<1> QED BY <1>1, <1>3, <1>4, <1>5, <1>6, <1>7, PerformOne

LEMMA IndexStringPlanned ==
    ASSUME Kept, Typed, Sound, IndexString
    PROVE  Sound' /\ Planned'
<1>1. frames # <<>> /\ Operands > 1 BY DEF IndexString, Runs
<1>2. PICK text \in program.made :
         Perform([a |-> Peek(0)], <<Copy("r", text), Use({"a"}), Drop(2), Push("r")>>)
  BY DEF IndexString
<1>3. HeldBy(heap, Full, Peek(0)) /\ 2 <= Operands
  <2>1. Operands > 0 BY <1>1, OperandsNat
  <2> QED BY <1>1, <2>1, OperandHeld, OperandsNat
<1> DEFINE k == {"a"}
           A == At(k, k, {}, 2)
           B == At(k \cup {"r"}, k, {}, 2)
           C == At(k \cup {"r"}, {}, {}, 0)
           D == At(k \cup {"r"}, {} \cup {"r"}, {}, 0)
<1>4. k \subseteq Registers /\ k \cup {"r"} \subseteq Registers /\ "r" \in Registers \ k /\ "r" \in k \cup {"r"}
  BY DEF Registers
<1>5. Goes(A, Copy("r", text), B)
  <2>1. text \in Texts BY TextsAre
  <2>2. PICK none : none = {} OBVIOUS
  <2>3. \A x \in none : x[1] # "r" BY <2>2
  <2> HIDE DEF k
  <2>4. Goes(At(k, k, none, 2), Copy("r", text), At(k \cup {"r"}, k, none, 2))
    BY <1>4, <2>1, <2>3, InternStep
  <2> QED BY <2>2, <2>4
<1>6. Goes(B, Use({"a"}), B) BY <1>4, UseStep
<1>7. Goes(B, Drop(2), C) BY <1>4, DropStep
<1>8. Goes(C, Push("r"), D) BY <1>4, PushStep
<1>9. PICK v, code : v = Peek(0) /\ code = <<Copy("r", text), Use({"a"}), Drop(2), Push("r")>>
  OBVIOUS
<1> HIDE DEF B, C, D, k
<1>10. Leads(A, code, D)
  <2> HIDE DEF A
  <2> QED BY <1>5, <1>6, <1>7, <1>8, <1>9, LeadsFour
<1>11. Perform([a |-> v], code) /\ HeldBy(heap, Full, v) BY <1>2, <1>3, <1>9
<1> QED BY <1>1, <1>3, <1>4, <1>10, <1>11, PerformOne

LEMMA ErrorLeads ==
    ASSUME NEW text \in Texts
    PROVE  \E E : Leads(At({}, {}, {}, 0), Error(text), E)
<1> DEFINE m == {"n"}
           h == {"n", "c"}
<1>1. PICK none, ks : none = {} /\ ks = none \cup {<<"c", "exception">>, <<"c", "one">>} OBVIOUS
<1>2. /\ {} \subseteq Registers /\ m \subseteq Registers /\ h \subseteq Registers /\ m \cup {"c"} = h
      /\ "n" \in Registers \ {} /\ "c" \in Registers \ m /\ "n" \in m /\ "n" \in h /\ "c" \in h
      /\ {} \cup m = m /\ {} \cup {"n"} = m /\ m \subseteq h /\ {} \subseteq h /\ {} \subseteq m
      /\ "exception" \in DOMAIN Fields \ {"string"} /\ {"n"} \subseteq h
  BY DEF Registers, Fields
<1>3. Goes(At({}, {}, none, 0), Block, At({}, {}, none, 0)) BY <1>2, BlockStep
<1>4. Goes(At({}, {}, none, 0), Intern("n", text), At(m, {}, none, 0))
  <2>1. \A x \in none : x[1] # "n" BY <1>1
  <2>2. Goes(At({}, {}, none, 0), Intern("n", text), At({} \cup {"n"}, {}, none, 0))
    BY <1>2, <2>1, InternStep
  <2> QED BY <1>2, <2>2
<1>5. Goes(At(m, {}, none, 0), Push("n"), At(m, m, none, 1))
  <2>1. Goes(At(m, {}, none, 0), Push("n"), At(m, {} \cup {"n"}, none, 1)) BY <1>2, PushStep
  <2> QED BY <1>2, <2>1
<1>6. Goes(At(m, m, none, 1), New("c", "exception", <<>>), At(h, m, ks, 1))
  <2>1. PICK p : p = <<>> OBVIOUS
  <2>2. DOMAIN p = {} BY <2>1
  <2>3. \A x \in none : x[1] # "c" BY <1>1
  <2> HIDE DEF m, h
  <2>4. Goes(At(m, m, none, 1), New("c", "exception", p), At(m \cup {"c"}, m, ks, 1))
    BY <1>1, <1>2, <2>2, <2>3, NewStep
  <2> QED BY <1>2, <2>1, <2>4
<1>7. Goes(At(h, m, ks, 1), Drop(1), At(h, {}, ks, 0)) BY <1>2, DropStep
<1>8. Goes(At(h, {}, ks, 0), Put("c", "message", {"n"}), At(h, {}, ks, 0)) BY <1>2, PutStep
<1>9. Goes(At(h, {}, ks, 0), Throw("c"), At(h, {}, {}, 0)) BY <1>2, ThrowStep
<1> HIDE DEF m, h
<1>10. Leads(At({}, {}, none, 0), <<Block, Intern("n", text)>>, At(m, {}, none, 0))
  BY <1>3, <1>4, LeadsTwo
<1>11. Leads(At(m, {}, none, 0), NewException("c", "n"), At(h, {}, ks, 0))
  BY <1>5, <1>6, <1>7, <1>8, LeadsFour DEF NewException
<1>12. Leads(At(h, {}, ks, 0), <<Throw("c")>>, At(h, {}, {}, 0)) BY <1>9, LeadsOne
<1>13. Leads(At({}, {}, none, 0), <<Block, Intern("n", text)>> \o NewException("c", "n"), At(h, {}, ks, 0))
  BY <1>10, <1>11, LeadsThen
<1>14. Leads(At({}, {}, none, 0), Error(text), At(h, {}, {}, 0))
  BY <1>12, <1>13, LeadsThen DEF Error
<1> QED BY <1>1, <1>14

LEMMA FailPlanned ==
    ASSUME Kept, Typed, Sound, Fail
    PROVE  Sound' /\ Planned'
<1>1. frames # <<>> BY DEF Fail, Runs
<1>2. PICK text \in program.made : Perform(<<>>, Error(text)) BY DEF Fail
<1>3. PICK E : Leads(At({}, {}, {}, 0), Error(text), E) BY TextsAre, ErrorLeads
<1>4. PICK vs : vs = <<>> OBVIOUS
<1>5. DOMAIN vs = {} /\ Perform(vs, Error(text)) BY <1>2, <1>4
<1>6. 0 <= Operands BY <1>1, OperandsNat
<1>7. {} \subseteq Registers OBVIOUS
<1> QED BY <1>1, <1>3, <1>5, <1>6, <1>7, PerformBegun

LEMMA RaisePlanned ==
    ASSUME Kept, Typed, Sound, Raise
    PROVE  Sound' /\ Planned'
<1>1. frames # <<>> /\ Operands > 0 BY DEF Raise, Runs
<1>2. Perform([a |-> Peek(0)], <<Drop(1), Throw("a")>>) BY DEF Raise
<1>3. HeldBy(heap, Full, Peek(0)) /\ 1 <= Operands BY <1>1, OperandHeld
<1>4. Goes(At(Registers, Registers, {}, 1), Drop(1), At(Registers, {}, {}, 0)) BY DropStep
<1>5. Goes(At(Registers, {}, {}, 0), Throw("a"), At(Registers, {}, {}, 0)) BY ThrowStep, NamesIs
<1>6. Leads(At(Registers, Registers, {}, 1), <<Drop(1), Throw("a")>>, At(Registers, {}, {}, 0))
  BY <1>4, <1>5, LeadsTwo
<1>7. PICK v : v = Peek(0) OBVIOUS
<1>8. Perform([a |-> v], <<Drop(1), Throw("a")>>) /\ HeldBy(heap, Full, v) BY <1>2, <1>3, <1>7
<1> QED BY <1>1, <1>3, <1>6, <1>8, PerformOne

-----------------------------------------------------------------------------
(* Closures: a claim that says also whether the program names the module. *)

On(ok, held, kinds, depth, low, free) == Claim(ok, held, kinds, FALSE, FALSE, depth, low, {}, free)

LEMMA RangeOfOne ==
    ASSUME NEW p, NEW v, NEW d, DOMAIN p = {d}, p[d] = v
    PROVE  UNION Range(p) = v
<1>1. Range(p) = {p[d]} BY DEF Range
<1> QED BY <1>1

LEMMA NewClosureLeads ==
    ASSUME NEW held, held \subseteq Registers \ {"c"}, "a" \in held, NEW kinds, \A k \in kinds : k[1] # "c",
           <<"a", "function">> \in kinds, NEW free \in BOOLEAN, free \/ <<"a", "complete">> \in kinds,
           NEW depth \in Nat, NEW low \in Nat
    PROVE  Leads(On(held, held, kinds, depth, low, free), NewClosure("c", "a"),
                 On(held \cup {"c"}, held, kinds \cup {<<"c", "closure">>}, depth, low, free))
<1> DEFINE A == On(held, held, kinds, depth, low, free)
           B == On(held \cup {"c"}, held, kinds \cup {<<"c", "closure">>}, depth, low, free)
           p == [function |-> {"a"}]
           s == New("c", "closure", p)
<1>1. Goes(A, Block, A)
  BY DEF Goes, GoesQuiet, Sane, Alive, Allocates, Block, Do, Registers, Claim, On, SameVariables, SameHeld, SameGc, SameStack
<1>2. /\ A.ok = held /\ A.held = held /\ A.base = {} /\ A.kinds = kinds /\ ~ A.off /\ ~ A.room
      /\ A.depth = depth /\ A.low = low /\ A.texts = {} /\ A.free = free
      /\ B.ok = held \cup {"c"} /\ B.held = held /\ B.base = {} /\ B.kinds = kinds \cup {<<"c", "closure">>}
      /\ ~ B.off /\ ~ B.room /\ B.depth = depth /\ B.low = low /\ B.texts = {} /\ B.free = free
      /\ Sane(A) /\ Sane(B)
  BY DEF On, Claim, Sane, Registers
<1>3. /\ s.op = "new" /\ s.to = "c" /\ s.from = {"a"}
      /\ s.arg.type = "closure" /\ s.arg.text = {} /\ s.arg.parts = p
      /\ DOMAIN p = {"function"} /\ p["function"] = {"a"}
  <2>1. DOMAIN p = {"function"} /\ p["function"] = {"a"} OBVIOUS
  <2> HIDE DEF p
  <2>3. UNION Range(p) = {"a"} BY <2>1, RangeOfOne
  <2> QED BY <2>1, <2>3 DEF New, NewOf, Do
<1>4. FitsField(A, "a", "closure", "function") BY <1>2 DEF FitsField, Kind, IsNamed
<1> HIDE DEF A, B, s, p
<1>5. Alive(A, s) = held BY <1>2, <1>3 DEF Alive, Allocates
<1> DEFINE ks == {"one"} \cup IF s.arg.type = "string" THEN StringKinds(s.arg.text) ELSE {s.arg.type}
<1>6. Assigned(A, s, B, ks)
  <2>1. ks = {"one", "closure"} BY <1>3
  <2>2. kinds \subseteq {k \in kinds : k[1] # "c"} OBVIOUS
  <2>3. {<<"c", "closure">>} \subseteq {<<"c", kind>> : kind \in {"one", "closure"}} OBVIOUS
  <2> HIDE DEF ks
  <2> QED BY <1>2, <1>3, <1>5, <2>1, <2>2, <2>3 DEF Assigned
<1>7. GoesNew(A, s, B)
  <2>1. "closure" \in DOMAIN Fields BY DEF Fields
  <2>2. \A f \in Fields[s.arg.type] \cap DOMAIN s.arg.parts :
          /\ s.arg.parts[f] \subseteq s.from
          /\ \A r \in s.arg.parts[f] : FitsField(A, r, s.arg.type, f)
    BY <1>3, <1>4
  <2>3. B.held \subseteq A.held \ {s.to} /\ B.base \subseteq A.base \ {s.to} /\ s.arg.text \subseteq Texts
    BY <1>2, <1>3
  <2> HIDE DEF ks
  <2> QED BY <1>2, <1>3, <1>6, <2>1, <2>2, <2>3 DEF GoesNew, SameGc, SameStack, ks
<1>8. Goes(A, s, B) BY <1>2, <1>3, <1>5, <1>7 DEF Goes, Registers
<1>9. Leads(A, <<Block, s>>, B) BY <1>1, <1>8, LeadsTwo
<1> QED BY <1>9 DEF A, B, s, p, NewClosure

LEMMA CloseLeads ==
    ASSUME NEW kinds, <<"b", "upvalue">> \in kinds, NEW low \in Nat, NEW free \in BOOLEAN
    PROVE  /\ Leads(On({"a", "b", "c"}, {"a", "b"}, kinds, 0, low, free), <<Push("c")>>,
                    On({"a", "b", "c"}, {"a", "b", "c"}, kinds, 0, low, free))
           /\ Leads(On({"a", "b", "c"}, {"a", "b", "c"}, kinds, 0, low, free),
                    <<Put("c", "upvalues", {"b"})>>,
                    On({"a", "b", "c"}, {}, kinds, 0, low, free))
<1> DEFINE A == On({"a", "b", "c"}, {"a", "b"}, kinds, 0, low, free)
           B == On({"a", "b", "c"}, {"a", "b", "c"}, kinds, 0, low, free)
           C == On({"a", "b", "c"}, {}, kinds, 0, low, free)
<1>1. Goes(A, Push("c"), B)
  BY DEF Goes, GoesPush, Sane, Alive, Allocates, Push, Do, Registers, Claim, On, SameVariables
<1>2. Goes(B, Put("c", "upvalues", {"b"}), C)
  BY DEF Goes, GoesPut, Sane, Alive, Allocates, Put, Do, Registers, Claim, On, FitsField, Kind, NoneHeld, SameGc, SameStack
<1> HIDE DEF A, B, C
<1>3. Leads(A, <<Push("c")>>, B) /\ Leads(B, <<Put("c", "upvalues", {"b"})>>, C) BY <1>1, <1>2, LeadsOne
<1> QED BY <1>3 DEF A, B, C

LEMMA LinkLeads ==
    ASSUME NEW kinds, \A k \in kinds : k[1] # "n", NEW slot \in Nat, NEW free \in BOOLEAN
    PROVE  \E E : Leads(On({"a", "b", "c"}, {"a", "b", "c"}, kinds, 0, slot + 1, free),
                        <<New("n", "upvalue", <<>>), Link("n", slot), Put("c", "upvalues", {"n"})>>, E)
<1> DEFINE m == {"a", "b", "c"}
           h == {"a", "b", "c", "n"}
           ks == kinds \cup {<<"n", "upvalue">>}
           A == On(m, m, kinds, 0, slot + 1, free)
           B == On(h, m, ks, 0, slot + 1, free)
           C == On(h, {}, ks, 0, slot + 1, free)
           s == New("n", "upvalue", <<>>)
<1>1. /\ A.ok = m /\ A.held = m /\ A.base = {} /\ A.kinds = kinds /\ ~ A.off /\ ~ A.room
      /\ A.depth = 0 /\ A.low = slot + 1 /\ A.texts = {} /\ A.free = free
      /\ B.ok = h /\ B.held = m /\ B.base = {} /\ B.kinds = ks
      /\ ~ B.off /\ ~ B.room /\ B.depth = 0 /\ B.low = slot + 1 /\ B.texts = {} /\ B.free = free
      /\ Sane(A) /\ Sane(B)
  BY DEF On, Claim, Sane, Registers
<1>2. Goes(A, s, B)
  <2>1. PICK p : p = <<>> OBVIOUS
  <2>2. /\ s.op = "new" /\ s.to = "n" /\ s.from = {} /\ s.arg.type = "upvalue" /\ s.arg.text = {}
        /\ s.arg.parts = p /\ DOMAIN p = {}
    BY <2>1 DEF New, NewOf, Do, Range
  <2> HIDE DEF A, B, s
  <2>3. Alive(A, s) = m BY <1>1, <2>2 DEF Alive, Allocates
  <2> DEFINE kk == {"one"} \cup IF s.arg.type = "string" THEN StringKinds(s.arg.text) ELSE {s.arg.type}
  <2>4. Assigned(A, s, B, kk)
    <3>1. kk = {"one", "upvalue"} BY <2>2
    <3>2. kinds \subseteq {k \in kinds : k[1] # "n"} OBVIOUS
    <3>3. {<<"n", "upvalue">>} \subseteq {<<"n", kind>> : kind \in {"one", "upvalue"}} OBVIOUS
    <3>4. h \subseteq m \cup {"n"} OBVIOUS
    <3> HIDE DEF kk, m, h
    <3> QED BY <1>1, <2>2, <2>3, <3>1, <3>2, <3>3, <3>4 DEF Assigned
  <2>5. "upvalue" \in DOMAIN Fields BY DEF Fields
  <2>6. GoesNew(A, s, B)
    <3>1. m \subseteq m \ {"n"} OBVIOUS
    <3> HIDE DEF kk, m, h
    <3>2. SameGc(A, B) /\ SameStack(A, B) BY <1>1 DEF SameGc, SameStack
    <3>3. s.arg.type \in DOMAIN Fields /\ s.arg.text \subseteq Texts BY <2>2, <2>5
    <3>4. B.held \subseteq A.held \ {s.to} /\ B.base \subseteq A.base \ {s.to} BY <1>1, <2>2, <3>1
    <3>5. \A f \in Fields[s.arg.type] \cap DOMAIN s.arg.parts :
            /\ s.arg.parts[f] \subseteq s.from
            /\ \A r \in s.arg.parts[f] : FitsField(A, r, s.arg.type, f)
      BY <2>2
    <3> QED BY <2>2, <2>4, <3>2, <3>3, <3>4, <3>5 DEF GoesNew, kk
  <2> QED BY <1>1, <2>2, <2>3, <2>6 DEF Goes, Registers
<1>3. Goes(B, Link("n", slot), C)
  BY DEF Goes, GoesLink, Sane, Alive, Allocates, Link, Do, Registers, Claim, On, SameVariables, NoneHeld, SameGc, SameStack
<1>4. Goes(C, Put("c", "upvalues", {"n"}), C)
  BY DEF Goes, GoesPut, Sane, Alive, Allocates, Put, Do, Registers, Claim, On, FitsField, Kind, NoneHeld, SameGc, SameStack
<1> HIDE DEF A, B, C
<1>5. Leads(A, <<s, Link("n", slot), Put("c", "upvalues", {"n"})>>, C) BY <1>2, <1>3, <1>4, LeadsThree
<1> QED BY <1>5 DEF A, s

LEMMA MakeClosurePlanned ==
    ASSUME Kept, Typed, Sound, MakeClosure
    PROVE  Sound' /\ Planned'
<1>1. frames # <<>> BY DEF MakeClosure, Runs
<1>2. PICK function \in Constants("function") :
          \/ Perform([a |-> {function}, b |-> Get(Active.closure, "upvalues")],
                     NewClosure("c", "a") \o <<Push("c"), Put("c", "upvalues", {"b"})>>)
          \/ \E slot \in Active.base + 1 .. Len(stack) - 1 :
                Perform([a |-> {function},
                            b |-> UNION {u.upvalue : u \in {v \in open : v.slot = slot}}],
                           NewClosure("c", "a") \o <<Push("c")>> \o Capture(slot))
  BY DEF MakeClosure
<1>3. PICK free : free = (ModuleText \notin program.texts) OBVIOUS
<1>4. PICK v : v = {function} OBVIOUS
<1>5. HeldBy(heap, Full, v) /\ IsA(heap, v, "function") /\ (~ free => IsA(heap, v, "complete"))
  <2>1. HeldBy(heap, Full, {function}) /\ heap[function].type = "function" BY <1>1, ConstantHeld
  <2>2. function \in Get(Function, "constants") BY DEF Constants
  <2>3. Complete(heap, {function}) BY <1>1, <2>1, <2>2, ActiveHeld
  <2> QED BY <1>3, <1>4, <2>1, <2>3 DEF Complete, IsA
<1> DEFINE k == {<<"a", "function">>, <<"b", "upvalue">>} \cup (IF free THEN {} ELSE {<<"a", "complete">>})
           ks == k \cup {<<"c", "closure">>}
<1>6. /\ {"a", "b"} \subseteq Registers \ {"c"} /\ {"a", "b"} \subseteq Registers
      /\ {"a", "b"} \cup {"c"} = {"a", "b", "c"} /\ \A x \in k : x[1] # "c"
      /\ \A x \in ks : x[1] # "n"
      /\ <<"a", "function">> \in k /\ <<"b", "upvalue">> \in ks /\ free \in BOOLEAN
      /\ free \/ <<"a", "complete">> \in k
      /\ \A r, kind : <<r, kind>> \in k => \/ r = "a" /\ kind = "function"
                                           \/ r = "b" /\ kind = "upvalue"
                                           \/ r = "a" /\ kind = "complete" /\ ~ free
  BY <1>3 DEF Registers
<1> HIDE DEF ks
<1>7. ASSUME NEW w, HeldBy(heap, Full, w), IsA(heap, w, "upvalue"), NEW code, NEW low \in Nat,
             low <= Len(stack), Perform([a |-> v, b |-> w], code), NEW E,
             Leads(On({"a", "b"}, {"a", "b"}, k, 0, low, free), code, E)
      PROVE  Sound' /\ Planned'
  <2>1. PICK vs : vs = [a |-> v, b |-> w] OBVIOUS
  <2>2. DOMAIN vs = {"a", "b"} /\ vs["a"] = v /\ vs["b"] = w /\ Perform(vs, code) BY <1>7, <2>1
  <2>3. PICK A : A = On({"a", "b"}, {"a", "b"}, k, 0, low, free) OBVIOUS
  <2>4. /\ A.ok = {"a", "b"} /\ A.held = {"a", "b"} /\ A.base = {} /\ A.kinds = k
        /\ ~ A.off /\ ~ A.room /\ A.depth = 0 /\ A.low = low /\ A.texts = {} /\ A.free = free
    BY <2>3 DEF On, Claim
  <2> HIDE DEF k
  <2>5. 0 <= Operands BY <1>1, OperandsNat
  <2>6. PlaceHolds(A)
    <3>1. A.depth \in Nat /\ A.depth <= Operands /\ A.low <= Len(stack) BY <1>7, <2>4, <2>5
    <3>2. A.free => ModuleText \notin program.texts BY <1>3, <2>4, Zenon
    <3> QED BY <1>1, <2>4, <3>1, <3>2, PlaceStarts
  <2>7. TextsHold(A) BY <2>4 DEF TextsHold
  <2>8. \A r \in DOMAIN vs : HeldBy(heap, Full, vs[r]) BY <1>5, <1>7, <2>2
  <2>9. \A r, kind : <<r, kind>> \in k => r \in DOMAIN vs /\ IsA(heap, vs[r], kind)
    BY <1>5, <1>6, <1>7, <2>2
  <2>10. Leads(A, code, E) BY <1>7, <2>3
  <2> QED BY <1>6, <2>2, <2>4, <2>6, <2>7, <2>8, <2>9, <2>10, PerformPlanned
<1>8. ASSUME NEW low \in Nat
      PROVE  /\ Leads(On({"a", "b"}, {"a", "b"}, k, 0, low, free), NewClosure("c", "a"),
                      On({"a", "b", "c"}, {"a", "b"}, ks, 0, low, free))
             /\ Leads(On({"a", "b"}, {"a", "b"}, k, 0, low, free), NewClosure("c", "a") \o <<Push("c")>>,
                      On({"a", "b", "c"}, {"a", "b", "c"}, ks, 0, low, free))
             /\ Leads(On({"a", "b", "c"}, {"a", "b", "c"}, ks, 0, low, free),
                      <<Put("c", "upvalues", {"b"})>>, On({"a", "b", "c"}, {}, ks, 0, low, free))
  <2>1. "a" \in {"a", "b"} OBVIOUS
  <2> HIDE DEF k
  <2>2. Leads(On({"a", "b"}, {"a", "b"}, k, 0, low, free), NewClosure("c", "a"),
              On({"a", "b"} \cup {"c"}, {"a", "b"}, ks, 0, low, free))
    BY <1>6, <2>1, NewClosureLeads DEF ks
  <2>3. Leads(On({"a", "b"}, {"a", "b"}, k, 0, low, free), NewClosure("c", "a"),
              On({"a", "b", "c"}, {"a", "b"}, ks, 0, low, free))
    BY <1>6, <2>2
  <2> QED BY <1>6, <2>3, CloseLeads, LeadsThen
<1>9. ASSUME Perform([a |-> {function}, b |-> Get(Active.closure, "upvalues")],
                     NewClosure("c", "a") \o <<Push("c"), Put("c", "upvalues", {"b"})>>)
      PROVE  Sound' /\ Planned'
  <2>1. PICK w : w = Get(Active.closure, "upvalues") OBVIOUS
  <2>2. HeldBy(heap, Full, w) /\ IsA(heap, w, "upvalue")
    <3>1. \A o \in w : heap[o].type = "upvalue" BY <1>1, <2>1, ActiveHeld
    <3> QED BY <1>1, <2>1, <3>1, ActiveHeld DEF IsA
  <2>3. PICK code : code = NewClosure("c", "a") \o <<Push("c"), Put("c", "upvalues", {"b"})>> OBVIOUS
  <2>4. Perform([a |-> v, b |-> w], code) BY <1>4, <1>9, <2>1, <2>3
  <2> DEFINE A == On({"a", "b"}, {"a", "b"}, k, 0, 0, free)
             B == On({"a", "b", "c"}, {"a", "b"}, ks, 0, 0, free)
             C == On({"a", "b", "c"}, {"a", "b", "c"}, ks, 0, 0, free)
             D == On({"a", "b", "c"}, {}, ks, 0, 0, free)
  <2>5. Goes(B, Push("c"), C)
    BY <1>6 DEF Goes, GoesPush, Sane, Alive, Allocates, Push, Do, Registers, Claim, On, SameVariables
  <2>6. Goes(C, Put("c", "upvalues", {"b"}), D)
    BY <1>6 DEF Goes, GoesPut, Sane, Alive, Allocates, Put, Do, Registers, Claim, On, FitsField, Kind, NoneHeld, SameGc, SameStack
  <2>7. Leads(A, NewClosure("c", "a"), B) BY <1>8
  <2> HIDE DEF B, C, D
  <2>8. Leads(B, <<Push("c"), Put("c", "upvalues", {"b"})>>, D) BY <2>5, <2>6, LeadsTwo
  <2>9. Leads(A, code, D) BY <2>3, <2>7, <2>8, LeadsThen
  <2>10. 0 \in Nat /\ 0 <= Len(stack) BY <1>1, OperandsNat
  <2> HIDE DEF k
  <2> QED BY <1>7, <2>2, <2>4, <2>9, <2>10
<1>10. ASSUME NEW slot \in Active.base + 1 .. Len(stack) - 1,
              Perform([a |-> {function},
                       b |-> UNION {u.upvalue : u \in {x \in open : x.slot = slot}}],
                      NewClosure("c", "a") \o <<Push("c")>> \o Capture(slot))
       PROVE  Sound' /\ Planned'
  <2>1. PICK w : w = UNION {u.upvalue : u \in {x \in open : x.slot = slot}} OBVIOUS
  <2>2. HeldBy(heap, Full, w) /\ IsA(heap, w, "upvalue")
    <3>1. w \subseteq InHand BY <2>1, HandOf
    <3>2. HeldBy(heap, Full, w) BY <3>1, FullIs, HeldRoots DEF Typed
    <3>3. \A u \in open : \A o \in u.upvalue : heap[o].type = "upvalue"
      BY DEF Sound, HandIsSound, IsA
    <3>4. \A o \in w : heap[o].type = "upvalue" BY <2>1, <3>3
    <3> QED BY <3>2, <3>4 DEF IsA
  <2>3. PICK code : code = NewClosure("c", "a") \o <<Push("c")>> \o Capture(slot) OBVIOUS
  <2>4. Perform([a |-> v, b |-> w], code) BY <1>4, <1>10, <2>1, <2>3
  <2>5. slot \in Nat /\ slot + 1 \in Nat /\ slot + 1 <= Len(stack)
    <3>1. Active.base \in Nat /\ Len(stack) \in Nat BY <1>1, ActiveHeld, OperandsNat
    <3> QED BY <3>1
  <2> DEFINE A == On({"a", "b"}, {"a", "b"}, k, 0, slot + 1, free)
             C == On({"a", "b", "c"}, {"a", "b", "c"}, ks, 0, slot + 1, free)
  <2>6. Leads(A, NewClosure("c", "a") \o <<Push("c")>>, C) BY <1>8, <2>5
  <2>7. \E E : Leads(C, Capture(slot), E)
    <3>1. \/ Capture(slot) = <<Put("c", "upvalues", {"b"})>>
          \/ Capture(slot) = <<New("n", "upvalue", <<>>), Link("n", slot), Put("c", "upvalues", {"n"})>>
      BY DEF Capture
    <3>2. \E E : Leads(C, <<Put("c", "upvalues", {"b"})>>, E) BY <1>8, <2>5
    <3>3. \E E : Leads(C, <<New("n", "upvalue", <<>>), Link("n", slot), Put("c", "upvalues", {"n"})>>, E)
      BY <1>6, <2>5, LinkLeads
    <3> QED BY <3>1, <3>2, <3>3
  <2>8. PICK E : Leads(C, Capture(slot), E) BY <2>7
  <2> HIDE DEF C
  <2>9. Leads(A, code, E) BY <2>3, <2>6, <2>8, LeadsThen
  <2> HIDE DEF k
  <2> QED BY <1>7, <2>2, <2>4, <2>5, <2>9
<1> HIDE DEF k
<1> QED BY <1>2, <1>9, <1>10

\* A function names the module wherever its constants do: the string is interned, and held.
LEMMA ModuleTextHeld ==
    ASSUME Kept, Typed, Distinct, Strung, Sound, todo = <<>>, frames # <<>>, ModuleText \in program.texts,
           Function # {}
    PROVE  Interned(ModuleText) # {} /\ HeldBy(heap, Full, Interned(ModuleText))
<1>1. strings = All
  <2>1. \A to, text, rest : ~ Promised(to, text, rest)
    BY CodeIsSeq, ConsIs, StagesAre DEF Promised, Making
  <2>2. \A to, o, rest : ~ Fresh(to, o, rest)
    BY CodeIsSeq, ConsIs, StagesAre DEF Fresh, Pushing, Growing, Remembering
  <2> QED BY <2>1, <2>2 DEF Strung, Settled
<1>2. Complete(heap, Function) /\ HeldBy(heap, Full, Get(Function, "constants"))
  BY ActiveHeld
<1>3. PICK o \in Function : NamesModule(heap, o) BY <1>2 DEF Complete, IsA
<1>4. PICK s \in heap[o].refs["constants"] : heap[s].type = "string" /\ heap[s].text = {ModuleText}
  BY <1>3 DEF NamesModule
<1>5. s \in Get(Function, "constants") BY <1>4 DEF Get
<1>6. HeldBy(heap, Full, {s}) BY <1>2, <1>5, HeldMore
<1>7. s \in DOMAIN heap BY <1>6, HeldIsThere
<1>8. s \in All BY <1>4, <1>7 DEF All
<1>9. Interned(ModuleText) = {s} BY <1>1, <1>4, <1>8 DEF Interned, Distinct
<1> QED BY <1>6, <1>9

LEMMA NamespaceLeads ==
    ASSUME NEW slot \in Nat, ModuleText \in Texts
    PROVE  \E E : Leads(Claim({"a"}, {"a"}, {}, FALSE, FALSE, 0, slot + 1, {ModuleText}, FALSE),
                        <<Copy("n", ModuleText), New("r", "namespace", [name |-> {"n"}]), Push("r"),
                          Fetch("c", slot)>> \o SetEntry("r", "values", {"a", "c"}), E)
<1> DEFINE A == Claim({"a"}, {"a"}, {}, FALSE, FALSE, 0, slot + 1, {ModuleText}, FALSE)
           B == On({"a", "n"}, {"a", "n"}, {}, 0, slot + 1, FALSE)
           C == On({"a", "n", "r"}, {"a", "n"}, {}, 0, slot + 1, FALSE)
           D == On({"a", "n", "r"}, {"a", "n", "r"}, {}, 0, slot + 1, FALSE)
           F == On({"a", "c", "n", "r"}, {"a", "c", "n", "r"}, {}, 0, slot + 1, FALSE)
           G == On({"a", "c", "n", "r"}, {}, {}, 0, slot + 1, FALSE)
           p == [name |-> {"n"}]
           s == New("r", "namespace", p)
<1>1. Goes(A, Copy("n", ModuleText), B)
  BY DEF Goes, GoesIntern, Sane, Alive, Allocates, Copy, Do, Registers, Claim, On, Assigned, SameStack
<1>2. Goes(B, s, C)
  <2>1. /\ B.ok = {"a", "n"} /\ B.held = {"a", "n"} /\ B.base = {} /\ B.kinds = {} /\ ~ B.off /\ ~ B.room
        /\ B.depth = 0 /\ B.low = slot + 1 /\ B.texts = {} /\ ~ B.free
        /\ C.ok = {"a", "n", "r"} /\ C.held = {"a", "n"} /\ C.base = {} /\ C.kinds = {}
        /\ ~ C.off /\ ~ C.room /\ C.depth = 0 /\ C.low = slot + 1 /\ C.texts = {} /\ ~ C.free
        /\ Sane(B) /\ Sane(C)
    BY DEF On, Claim, Sane, Registers
  <2>2. DOMAIN p = {"name"} /\ p["name"] = {"n"} OBVIOUS
  <2> HIDE DEF p, B, C
  <2>3. UNION Range(p) = {"n"} BY <2>2, RangeOfOne
  <2>4. /\ s.op = "new" /\ s.to = "r" /\ s.from = {"n"}
        /\ s.arg.type = "namespace" /\ s.arg.text = {} /\ s.arg.parts = p
    BY <2>3 DEF New, NewOf, Do
  <2>5. FitsField(B, "n", "namespace", "name") BY DEF FitsField, Kind
  <2> HIDE DEF s
  <2>6. Alive(B, s) = {"a", "n"} BY <2>1, <2>4 DEF Alive, Allocates
  <2>7. \A kinds : Assigned(B, s, C, kinds) BY <2>1, <2>4, <2>6 DEF Assigned
  <2>8. \A f \in Fields[s.arg.type] \cap DOMAIN s.arg.parts :
          /\ s.arg.parts[f] \subseteq s.from
          /\ \A r \in s.arg.parts[f] : FitsField(B, r, s.arg.type, f)
    BY <2>2, <2>4, <2>5
  <2>9. s.arg.type \in DOMAIN Fields /\ s.arg.text \subseteq Texts BY <2>4 DEF Fields
  <2>10. SameGc(B, C) /\ SameStack(B, C) BY <2>1 DEF SameGc, SameStack
  <2>11. C.held \subseteq B.held \ {s.to} /\ C.base \subseteq B.base \ {s.to} BY <2>1, <2>4
  <2>12. GoesNew(B, s, C) BY <2>4, <2>7, <2>8, <2>9, <2>10, <2>11 DEF GoesNew
  <2> QED BY <2>1, <2>4, <2>6, <2>12 DEF Goes, Registers
<1>3. Goes(C, Push("r"), D)
  BY DEF Goes, GoesPush, Sane, Alive, Allocates, Push, Do, Registers, Claim, On, SameVariables
<1>4. Goes(D, Fetch("c", slot), F)
  BY DEF Goes, GoesFetch, Sane, Alive, Allocates, Fetch, Do, Registers, Claim, On, Assigned, SameGc, SameStack
<1>5. Goes(F, Block, F)
  BY DEF Goes, GoesQuiet, Sane, Alive, Allocates, Block, Do, Registers, Claim, On, SameVariables, SameHeld, SameGc, SameStack
<1>6. Goes(F, Put("r", "values", {"a", "c"}), G)
  BY DEF Goes, GoesPut, Sane, Alive, Allocates, Put, Do, Registers, Claim, On, FitsField, Kind, NoneHeld, SameGc, SameStack
<1> HIDE DEF A, B, C, D, F, G
<1>7. Leads(A, <<Copy("n", ModuleText), s, Push("r"), Fetch("c", slot)>>, F)
  BY <1>1, <1>2, <1>3, <1>4, LeadsFour
<1>8. Leads(F, SetEntry("r", "values", {"a", "c"}), G) BY <1>5, <1>6, LeadsTwo DEF SetEntry
<1>9. Leads(A, <<Copy("n", ModuleText), s, Push("r"), Fetch("c", slot)>> \o SetEntry("r", "values", {"a", "c"}), G)
  BY <1>7, <1>8, LeadsThen
<1> QED BY <1>9 DEF A, s, p

LEMMA BuildNamespacePlanned ==
    ASSUME NamesItself, Kept, Typed, Distinct, Strung, Sound, BuildNamespace
    PROVE  Sound' /\ Planned'
<1>1. frames # <<>> /\ todo = <<>> /\ "namespace" \in program.code BY DEF BuildNamespace, Runs
<1>2. PICK name \in Constants("string"), slot \in Active.base .. Len(stack) - 1 :
          Perform([a |-> {name}],
                  <<Copy("n", ModuleText),
                    New("r", "namespace", [name |-> {"n"}]), Push("r"),
                    Fetch("c", slot)>> \o SetEntry("r", "values", {"a", "c"}))
  BY DEF BuildNamespace
<1>3. PICK code :
          code = <<Copy("n", ModuleText),
                    New("r", "namespace", [name |-> {"n"}]), Push("r"),
                    Fetch("c", slot)>> \o SetEntry("r", "values", {"a", "c"})
  OBVIOUS
<1>4. slot \in Nat /\ slot + 1 \in Nat /\ slot + 1 <= Len(stack)
  <2>1. Active.base \in Nat /\ Len(stack) \in Nat BY <1>1, ActiveHeld, OperandsNat
  <2> QED BY <2>1
<1>5. PICK A : A = Claim({"a"}, {"a"}, {}, FALSE, FALSE, 0, slot + 1, {ModuleText}, FALSE) OBVIOUS
<1>6. /\ A.ok = {"a"} /\ A.held = {"a"} /\ A.base = {} /\ A.kinds = {} /\ ~ A.off /\ ~ A.room
      /\ A.depth = 0 /\ A.low = slot + 1 /\ A.texts = {ModuleText} /\ ~ A.free
  BY <1>5 DEF Claim
<1>7. PICK E : Leads(A, code, E)
  <2>1. ModuleText \in Texts BY TextsAre
  <2>2. \E E : Leads(Claim({"a"}, {"a"}, {}, FALSE, FALSE, 0, slot + 1, {ModuleText}, FALSE), code, E)
    BY <1>3, <1>4, <2>1, NamespaceLeads
  <2> QED BY <1>5, <2>2
<1>8. PlaceHolds(A)
  <2>1. 0 <= Operands BY <1>1, OperandsNat
  <2> QED BY <1>1, <1>4, <1>6, <2>1, PlaceStarts
<1>9. TextsHold(A)
  <2>1. ModuleText \in program.texts BY <1>1 DEF NamesItself, Kept
  <2>2. Function # {} BY <1>2 DEF Constants, Get
  <2>3. Interned(ModuleText) # {} /\ HeldBy(heap, Full, Interned(ModuleText))
    BY <1>1, <2>1, <2>2, ModuleTextHeld
  <2> QED BY <1>6, <2>3 DEF TextsHold
<1>10. PICK v, vs : v = {name} /\ vs = [a |-> v] OBVIOUS
<1>11. DOMAIN vs = {"a"} /\ vs["a"] = v BY <1>10
<1>12. Perform(vs, code) BY <1>2, <1>3, <1>10
<1>13. HeldBy(heap, Full, v) BY <1>1, <1>10, ConstantHeld
<1>14. \A r \in DOMAIN vs : HeldBy(heap, Full, vs[r]) BY <1>11, <1>13
<1>15. \A r, kind : <<r, kind>> \notin A.kinds BY <1>6
<1>16. {"a"} \subseteq Registers BY DEF Registers
<1> QED BY <1>6, <1>7, <1>8, <1>9, <1>12, <1>14, <1>15, <1>16, PerformPlanned

-----------------------------------------------------------------------------
(***************************************************************************)
(* Code that runs with collection disabled: while the stack has room none  *)
(* of its variables can be freed.                                          *)
(***************************************************************************)
Off(ok, kinds, room, depth, free) == Claim(ok, {}, kinds, TRUE, room, depth, depth, {}, free)
Guard(kinds, room, depth, free) == Claim(Registers, Registers, kinds, FALSE, room, depth, depth, {}, free)

LEMMA GuardLeads ==
    ASSUME NEW kinds, NEW room \in BOOLEAN, NEW depth \in Nat, NEW free \in BOOLEAN, NEW s,
           NEW ok, ok \subseteq Registers, NEW ks, NEW room2 \in BOOLEAN, NEW depth2 \in Nat,
           Leads(Off(Registers, kinds, room, depth, free), s, Off(ok, ks, room2, depth2, free))
    PROVE  Leads(Guard(kinds, room, depth, free), Guarded(s), On(ok, {}, ks, depth2, depth2, free))
<1> DEFINE A == Guard(kinds, room, depth, free)
           B == Off(Registers, kinds, room, depth, free)
           C == Off(ok, ks, room2, depth2, free)
           D == On(ok, {}, ks, depth2, depth2, free)
<1>1. Goes(A, Allow(FALSE), B)
  BY DEF Goes, GoesAllow, Sane, Alive, Allocates, Allow, Do, Registers, Claim, Guard, Off, SameVariables, SameHeld, SameStack
<1>2. Goes(C, Allow(TRUE), D)
  BY DEF Goes, GoesAllow, Sane, Alive, Allocates, Allow, Do, Registers, Claim, On, Off, SameVariables, SameHeld, SameStack
<1> HIDE DEF A, B, C, D
<1>3. Leads(A, <<Allow(FALSE)>>, B) /\ Leads(C, <<Allow(TRUE)>>, D) BY <1>1, <1>2, LeadsOne
<1>4. Leads(B, s, C) BY DEF B, C
<1>5. Leads(A, <<Allow(FALSE)>> \o s, C) BY <1>3, <1>4, LeadsThen
<1>6. Leads(A, (<<Allow(FALSE)>> \o s) \o <<Allow(TRUE)>>, D) BY <1>3, <1>5, LeadsThen
<1> QED BY <1>6 DEF A, D, Guarded

\* What a native function leaves, and how it returns it.
InNative(room, depth) == Off(Registers, {}, room, depth, FALSE)

LEMMA NativeLeads ==
    ASSUME NEW argc \in Nat, NEW body, NEW room \in BOOLEAN,
           Leads(InNative(TRUE, argc + 1), body, InNative(room, argc + 1))
    PROVE  \E E : Leads(Guard({}, TRUE, argc + 1, FALSE), Native(argc, body), E)
<1> DEFINE A == On(Registers, {}, {}, argc + 1, argc + 1, FALSE)
           B == At(Registers, {}, {}, 0)
           C == At(Registers, {"r"}, {}, 0)
           D == At({}, {}, {}, 0)
<1>1. argc + 1 \in Nat /\ Registers \subseteq Registers /\ room \in BOOLEAN /\ TRUE \in BOOLEAN /\ FALSE \in BOOLEAN
  OBVIOUS
<1>2. Leads(Guard({}, TRUE, argc + 1, FALSE), Guarded(body), A)
  BY <1>1, GuardLeads DEF InNative
<1>3. Goes(A, Drop(argc + 1), B)
  BY DEF Goes, GoesDrop, Sane, Alive, Allocates, Drop, Do, Registers, Claim, On, At, SameVariables, NoneHeld, SameGc
<1>4. Goes(B, Push("r"), C)
  BY DEF Goes, GoesPush, Sane, Alive, Allocates, Push, Do, Registers, Claim, At, SameVariables
<1>5. Goes(C, Block, D)
  BY DEF Goes, GoesQuiet, Sane, Alive, Allocates, Block, Do, Registers, Claim, At, SameVariables, SameHeld, SameGc, SameStack
<1> HIDE DEF A, B, C, D
<1>6. Leads(A, <<Drop(argc + 1), Push("r"), Block>>, D) BY <1>3, <1>4, <1>5, LeadsThree
<1>7. Leads(Guard({}, TRUE, argc + 1, FALSE), Guarded(body) \o <<Drop(argc + 1), Push("r"), Block>>, D)
  BY <1>2, <1>6, LeadsThen
<1> QED BY <1>7 DEF Native

\* An object without parts, made while collection is disabled.
LEMMA NewOffStep ==
    ASSUME NEW ok, ok \subseteq Registers, NEW kinds, NEW room \in BOOLEAN, NEW depth \in Nat,
           NEW free \in BOOLEAN, NEW r \in Registers, NEW type \in DOMAIN Fields \ {"string"},
           NEW ks, ks \subseteq {k \in kinds : k[1] # r} \cup {<<r, type>>, <<r, "one">>}
    PROVE  Goes(Off(ok, kinds, room, depth, free), New(r, type, <<>>),
                Off(ok \cup {r}, ks, room, depth, free))
<1> DEFINE A == Off(ok, kinds, room, depth, free)
           B == Off(ok \cup {r}, ks, room, depth, free)
           s == New(r, type, <<>>)
<1>1. /\ A.ok = ok /\ A.held = {} /\ A.base = {} /\ A.kinds = kinds /\ A.off /\ A.room = room
      /\ A.depth = depth /\ A.low = depth /\ A.texts = {} /\ A.free = free
      /\ B.ok = ok \cup {r} /\ B.held = {} /\ B.base = {} /\ B.kinds = ks /\ B.off /\ B.room = room
      /\ B.depth = depth /\ B.low = depth /\ B.texts = {} /\ B.free = free
      /\ Sane(A) /\ Sane(B)
  BY DEF Off, Claim, Sane
<1>2. PICK p : p = <<>> OBVIOUS
<1>3. UNION Range(p) = {} /\ DOMAIN p = {}
  <2>1. DOMAIN p = {} BY <1>2
  <2>2. Range(p) = {} BY <2>1 DEF Range
  <2> QED BY <2>1, <2>2
<1>4. /\ s.op = "new" /\ s.to = r /\ s.from = {} /\ s.arg.type = type /\ s.arg.text = {}
      /\ s.arg.parts = p
  BY <1>2, <1>3 DEF New, NewOf, Do
<1> HIDE DEF A, B, s
<1>5. Alive(A, s) = ok BY <1>1, <1>4 DEF Alive
<1> DEFINE kk == {"one"} \cup IF s.arg.type = "string" THEN StringKinds(s.arg.text) ELSE {s.arg.type}
<1>6. Assigned(A, s, B, kk)
  <2>1. kk = {"one", type} BY <1>4
  <2>2. {<<r, type>>, <<r, "one">>} = {<<r, kind>> : kind \in {"one", type}} OBVIOUS
  <2> HIDE DEF kk
  <2> QED BY <1>1, <1>4, <1>5, <2>1, <2>2 DEF Assigned
<1>7. GoesNew(A, s, B)
  <2>1. SameGc(A, B) /\ SameStack(A, B) BY <1>1 DEF SameGc, SameStack
  <2>2. s.arg.type \in DOMAIN Fields /\ s.arg.text \subseteq Texts BY <1>4
  <2>3. B.held \subseteq A.held \ {s.to} /\ B.base \subseteq A.base \ {s.to} BY <1>1
  <2>4. \A f \in Fields[s.arg.type] \cap DOMAIN s.arg.parts :
          /\ s.arg.parts[f] \subseteq s.from
          /\ \A x \in s.arg.parts[f] : FitsField(A, x, s.arg.type, f)
    BY <1>3, <1>4
  <2> HIDE DEF kk
  <2> QED BY <1>4, <1>6, <2>1, <2>2, <2>3, <2>4 DEF GoesNew, kk
<1>8. Goes(A, s, B) BY <1>1, <1>4, <1>5, <1>7 DEF Goes
<1> QED BY <1>8 DEF A, B, s

LEMMA BodyLeads ==
    ASSUME NEW d \in Nat, NEW text \in Texts
    PROVE  /\ Leads(InNative(TRUE, d), NewException("r", "a"), InNative(TRUE, d))
           /\ Leads(InNative(TRUE, d), <<Block, Intern("r", text)>>, InNative(TRUE, d))
           /\ Leads(InNative(TRUE, d), <<Block, Put("a", "values", {"b"})>>, InNative(TRUE, d))
           /\ Leads(InNative(TRUE, d), <<Put("a", "values", {})>>, InNative(TRUE, d))
<1> DEFINE A == InNative(TRUE, d)
           B == InNative(FALSE, d + 1)
<1>1. /\ Goes(A, Block, A) /\ Goes(A, Put("a", "values", {"b"}), A) /\ Goes(A, Put("a", "values", {}), A)
      /\ Goes(A, Put("r", "message", {"a"}), A)
  BY DEF Goes, GoesQuiet, GoesPut, Sane, Alive, Allocates, Block, Put, Do, Registers, Claim, Off, InNative, FitsField, Kind, NoneHeld,
         SameVariables, SameHeld, SameGc, SameStack
<1>2. Goes(A, Intern("r", text), A)
  BY DEF Goes, GoesIntern, Sane, Alive, Allocates, Intern, Do, Registers, Claim, Off, InNative, Assigned, SameStack
<1>3. Goes(A, Push("a"), B) /\ Goes(B, Drop(1), A)
  BY DEF Goes, GoesPush, GoesDrop, Sane, Alive, Allocates, Push, Drop, Do, Registers, Claim, Off, InNative, SameVariables, NoneHeld, SameGc
<1>4. Goes(B, New("r", "exception", <<>>), B)
  <2>1. "exception" \in DOMAIN Fields \ {"string"} /\ "r" \in Registers /\ Registers \cup {"r"} = Registers
    BY DEF Fields, Registers
  <2>3. PICK none : none = {} OBVIOUS
  <2>4. Goes(Off(Registers, none, FALSE, d + 1, FALSE), New("r", "exception", <<>>),
             Off(Registers \cup {"r"}, none, FALSE, d + 1, FALSE))
    <3>1. none \subseteq {k \in none : k[1] # "r"} \cup {<<"r", "exception">>, <<"r", "one">>}
      BY <2>3
    <3>2. d + 1 \in Nat /\ FALSE \in BOOLEAN OBVIOUS
    <3> QED BY <2>1, <3>1, <3>2, NewOffStep
  <2> QED BY <2>1, <2>3, <2>4 DEF InNative
<1> HIDE DEF A, B
<1>5. Leads(A, NewException("r", "a"), A) BY <1>1, <1>3, <1>4, LeadsFour DEF NewException
<1>6. Leads(A, <<Block, Intern("r", text)>>, A) BY <1>1, <1>2, LeadsTwo
<1>7. Leads(A, <<Block, Put("a", "values", {"b"})>>, A) BY <1>1, LeadsTwo
<1>8. Leads(A, <<Put("a", "values", {})>>, A) BY <1>1, LeadsOne
<1> QED BY <1>5, <1>6, <1>7, <1>8 DEF A

\* An error raised while collection is disabled.
LEMMA ErrorOffLeads ==
    ASSUME NEW d \in Nat, NEW text \in Texts
    PROVE  \E ok \in SUBSET Registers :
              "a" \in ok /\ Leads(InNative(TRUE, d), Error(text), Off(ok, {}, FALSE, 1, FALSE))
<1> DEFINE A == InNative(TRUE, d)
           B == InNative(FALSE, d + 1)
           C == Off(Registers, {}, FALSE, 1, FALSE)
<1>1. Goes(A, Block, A) /\ Goes(A, Put("c", "message", {"n"}), A)
  BY DEF Goes, GoesQuiet, GoesPut, Sane, Alive, Allocates, Block, Put, Do, Registers, Claim, Off, InNative, FitsField, Kind, NoneHeld,
         SameVariables, SameHeld, SameGc, SameStack
<1>2. Goes(A, Intern("n", text), A)
  BY DEF Goes, GoesIntern, Sane, Alive, Allocates, Intern, Do, Registers, Claim, Off, InNative, Assigned, SameStack
<1>3. Goes(A, Push("n"), B) /\ Goes(B, Drop(1), A)
  BY DEF Goes, GoesPush, GoesDrop, Sane, Alive, Allocates, Push, Drop, Do, Registers, Claim, Off, InNative, SameVariables, NoneHeld, SameGc
<1>4. Goes(B, New("c", "exception", <<>>), B)
  <2>1. "exception" \in DOMAIN Fields \ {"string"} /\ "c" \in Registers /\ Registers \cup {"c"} = Registers
    BY DEF Fields, Registers
  <2>3. PICK none : none = {} OBVIOUS
  <2>4. Goes(Off(Registers, none, FALSE, d + 1, FALSE), New("c", "exception", <<>>),
             Off(Registers \cup {"c"}, none, FALSE, d + 1, FALSE))
    <3>1. none \subseteq {k \in none : k[1] # "c"} \cup {<<"c", "exception">>, <<"c", "one">>}
      BY <2>3
    <3>2. d + 1 \in Nat /\ FALSE \in BOOLEAN OBVIOUS
    <3> QED BY <2>1, <3>1, <3>2, NewOffStep
  <2> QED BY <2>1, <2>3, <2>4 DEF InNative
<1>5. Goes(A, Throw("c"), C)
  BY DEF Goes, GoesThrow, Sane, Alive, Allocates, Throw, Do, Registers, Claim, Off, InNative, NoneHeld
<1> HIDE DEF A, B, C
<1>6. Leads(A, <<Block, Intern("n", text)>>, A) BY <1>1, <1>2, LeadsTwo
<1>7. Leads(A, NewException("c", "n"), A) BY <1>1, <1>3, <1>4, LeadsFour DEF NewException
<1>8. Leads(A, <<Throw("c")>>, C) BY <1>5, LeadsOne
<1>9. Leads(A, <<Block, Intern("n", text)>> \o NewException("c", "n"), A) BY <1>6, <1>7, LeadsThen
<1>10. Leads(A, Error(text), C) BY <1>8, <1>9, LeadsThen DEF Error
<1> QED BY <1>10, NamesIs DEF A, C

LEMMA PerformGuarded ==
    ASSUME Kept, Typed, Sound, frames # <<>>, NEW vs, NEW code, Perform(vs, code),
           NEW room \in BOOLEAN, room => Len(stack) < capacity,
           NEW kinds, NEW depth \in Nat, depth <= Operands,
           NEW E, Leads(Guard(kinds, room, depth, FALSE), code, E),
           \A r \in DOMAIN vs : HeldBy(heap, Full, vs[r]),
           \A r, kind : <<r, kind>> \in kinds => r \in DOMAIN vs /\ IsA(heap, vs[r], kind)
    PROVE  Sound' /\ Planned'
<1>1. PICK A : A = Guard(kinds, room, depth, FALSE) OBVIOUS
<1>2. /\ A.ok = Registers /\ A.held = Registers /\ A.base = {} /\ A.kinds = kinds
      /\ ~ A.off /\ A.room = room /\ A.depth = depth /\ A.low = depth /\ A.texts = {} /\ ~ A.free
  BY <1>1 DEF Guard, Claim
<1>3. PlaceHolds(A)
  <2>1. A.depth \in Nat /\ A.depth <= Operands /\ A.low <= Len(stack) BY <1>2, OperandsAre, OperandsNat
  <2>2. A.room => Len(stack) < capacity BY <1>2
  <2>3. ~ A.off /\ (A.free => ModuleText \notin program.texts) BY <1>2
  <2> QED BY <2>1, <2>2, <2>3, PlaceStarts
<1>4. TextsHold(A) BY <1>2 DEF TextsHold
<1>5. Leads(A, code, E) BY <1>1
<1> QED BY <1>2, <1>3, <1>4, <1>5, PerformPlanned

\* Code that begins with nothing in its variables.
LEMMA GuardedNone ==
    ASSUME Kept, Typed, Sound, frames # <<>>, NEW code, Perform(<<>>, code),
           NEW room \in BOOLEAN, room => Len(stack) < capacity, NEW depth \in Nat, depth <= Operands,
           NEW E, Leads(Guard({}, room, depth, FALSE), code, E)
    PROVE  Sound' /\ Planned'
<1>1. PICK vs : vs = <<>> OBVIOUS
<1>2. DOMAIN vs = {} /\ Perform(vs, code) BY <1>1
<1> QED BY <1>2, PerformGuarded

LEMMA RoomIs ==
    ASSUME Roomy, RoomToGuard
    PROVE  Len(stack) < capacity
  BY DEF RoomToGuard

LEMMA CallNativePlanned ==
    ASSUME Roomy, Kept, Typed, Sound, CallNative
    PROVE  Sound' /\ Planned'
<1>1. frames # <<>> /\ Operands > 1 /\ Len(stack) < capacity
  BY RoomIs DEF CallNative, Callee, Runs
<1>2. 2 <= Operands /\ 1 \in Nat /\ 1 + 1 = 2 BY <1>1, OperandsNat
<1>3. \/ Perform([a |-> Peek(0)], Native(1, NewException("r", "a")))
      \/ \E line \in program.made : Perform(<<>>, Native(1, <<Block, Intern("r", line)>>))
      \/ \E message \in program.made : Perform(<<>>, Guarded(Error(message)))
  BY DEF CallNative
<1>4. TRUE \in BOOLEAN /\ FALSE \in BOOLEAN /\ 2 \in Nat /\ program.made \subseteq Texts /\ FunctionText \in Texts
  BY TextsAre
<1>5. ASSUME Perform([a |-> Peek(0)], Native(1, NewException("r", "a"))) PROVE Sound' /\ Planned'
  <2>1. Operands > 0 BY <1>1, OperandsNat
  <2>2. HeldBy(heap, Full, Peek(0)) BY <1>1, <2>1, OperandHeld
  <2>3. PICK v, vs, code : v = Peek(0) /\ vs = [a |-> v] /\ code = Native(1, NewException("r", "a"))
    OBVIOUS
  <2>4. DOMAIN vs = {"a"} /\ vs["a"] = v /\ Perform(vs, code) BY <1>5, <2>3
  <2>5. \E E : Leads(Guard({}, TRUE, 2, FALSE), code, E)
    <3>1. Leads(InNative(TRUE, 2), NewException("r", "a"), InNative(TRUE, 2)) BY <1>4, BodyLeads
    <3> QED BY <1>2, <1>4, <2>3, <3>1, NativeLeads
  <2>6. \A r \in DOMAIN vs : HeldBy(heap, Full, vs[r]) BY <2>2, <2>3, <2>4
  <2> QED BY <1>1, <1>2, <1>4, <2>4, <2>5, <2>6, PerformGuarded
<1>6. ASSUME NEW line \in program.made, Perform(<<>>, Native(1, <<Block, Intern("r", line)>>))
      PROVE  Sound' /\ Planned'
  <2>1. line \in Texts BY <1>4
  <2>2. Leads(InNative(TRUE, 2), <<Block, Intern("r", line)>>, InNative(TRUE, 2)) BY <1>4, <2>1, BodyLeads
  <2>3. PICK E : Leads(Guard({}, TRUE, 2, FALSE), Native(1, <<Block, Intern("r", line)>>), E)
    BY <1>2, <1>4, <2>2, NativeLeads
  <2> QED BY <1>1, <1>2, <1>4, <1>6, <2>3, GuardedNone
<1>7. ASSUME NEW message \in program.made, Perform(<<>>, Guarded(Error(message)))
      PROVE  Sound' /\ Planned'
  <2>1. message \in Texts BY <1>4
  <2>2. PICK ok \in SUBSET Registers : Leads(InNative(TRUE, 2), Error(message), Off(ok, {}, FALSE, 1, FALSE))
    BY <1>4, <2>1, ErrorOffLeads
  <2>3. Leads(Guard({}, TRUE, 2, FALSE), Guarded(Error(message)), On(ok, {}, {}, 1, 1, FALSE))
    <3>1. 1 \in Nat /\ ok \subseteq Registers OBVIOUS
    <3> QED BY <1>4, <2>2, <3>1, GuardLeads DEF InNative
  <2> QED BY <1>1, <1>2, <1>4, <1>7, <2>3, GuardedNone
<1> QED BY <1>3, <1>5, <1>6, <1>7

LEMMA ArrayMethodPlanned ==
    ASSUME Roomy, Kept, Typed, Sound, frames # <<>>, NEW argc \in Nat, Operands > argc,
           NEW array, HeldBy(heap, Full, array), \A o \in array : heap[o].type = "array",
           ArrayMethod(argc, array)
    PROVE  Sound' /\ Planned'
<1>1. Len(stack) < capacity BY RoomIs DEF ArrayMethod
<1>2. argc + 1 <= Operands /\ argc + 1 \in Nat /\ HeldBy(heap, Full, Peek(argc)) BY OperandHeld
<1>3. TRUE \in BOOLEAN /\ FALSE \in BOOLEAN /\ FunctionText \in Texts BY TextsAre
<1>4. \/ argc = 1 /\ Perform([a |-> array, b |-> Peek(0)], Native(1, <<Block, Put("a", "values", {"b"})>>))
      \/ /\ argc = 0
         /\ \E v \in {{}} \cup {{o} : o \in Get(array, "values")} :
                Perform([a |-> array, r |-> v], Native(0, <<Put("a", "values", {})>>))
  BY DEF ArrayMethod
<1>5. ASSUME NEW v, HeldBy(heap, Full, v), NEW x \in {"b", "r"}, NEW body,
             Leads(InNative(TRUE, argc + 1), body, InNative(TRUE, argc + 1)),
             NEW vs, Perform(vs, Native(argc, body)), DOMAIN vs = {"a", x}, vs["a"] = array, vs[x] = v
      PROVE  Sound' /\ Planned'
  <2>1. PICK E : Leads(Guard({}, TRUE, argc + 1, FALSE), Native(argc, body), E)
    BY <1>3, <1>5, NativeLeads
  <2>2. \A r \in DOMAIN vs : HeldBy(heap, Full, vs[r]) BY <1>5
  <2> QED BY <1>1, <1>2, <1>3, <1>5, <2>1, <2>2, PerformGuarded
<1>6. ASSUME argc = 1, Perform([a |-> array, b |-> Peek(0)], Native(1, <<Block, Put("a", "values", {"b"})>>))
      PROVE  Sound' /\ Planned'
  <2>1. Operands > 0 BY <1>6, OperandsNat
  <2>2. PICK v, vs, body : v = Peek(0) /\ vs = [a |-> array, b |-> v] /\ body = <<Block, Put("a", "values", {"b"})>>
    OBVIOUS
  <2>3. HeldBy(heap, Full, v) BY <2>1, <2>2, OperandHeld
  <2>4. DOMAIN vs = {"a", "b"} /\ vs["a"] = array /\ vs["b"] = v /\ Perform(vs, Native(argc, body))
    BY <1>6, <2>2
  <2>5. Leads(InNative(TRUE, argc + 1), body, InNative(TRUE, argc + 1)) BY <1>2, <1>3, <2>2, BodyLeads
  <2> QED BY <1>5, <2>3, <2>4, <2>5
<1>7. ASSUME argc = 0, NEW v \in {{}} \cup {{o} : o \in Get(array, "values")},
             Perform([a |-> array, r |-> v], Native(0, <<Put("a", "values", {})>>))
      PROVE  Sound' /\ Planned'
  <2>1. HeldBy(heap, Full, v)
    <3>1. "array" \in DOMAIN Fields /\ "values" \in Fields["array"] BY DEF Fields
    <3>2. HeldBy(heap, Full, Get(array, "values")) BY <3>1, GetHeld
    <3>3. v \subseteq Get(array, "values") OBVIOUS
    <3> QED BY <3>2, <3>3, HeldMore
  <2>2. PICK vs, body : vs = [a |-> array, r |-> v] /\ body = <<Put("a", "values", {})>> OBVIOUS
  <2>3. DOMAIN vs = {"a", "r"} /\ vs["a"] = array /\ vs["r"] = v /\ Perform(vs, Native(argc, body))
    BY <1>7, <2>2
  <2>4. Leads(InNative(TRUE, argc + 1), body, InNative(TRUE, argc + 1)) BY <1>2, <1>3, <2>2, BodyLeads
  <2> QED BY <1>5, <2>1, <2>3, <2>4
<1> QED BY <1>4, <1>6, <1>7

LEMMA ArraysPlanned ==
    ASSUME Roomy, Kept, Typed, Sound, InvokeArray \/ CallBoundNative
    PROVE  Sound' /\ Planned'
<1>1. CASE InvokeArray
  <2>1. PICK argc \in 0 .. 1 : Operands > argc /\ Is(Peek(argc), "array") /\ ArrayMethod(argc, Peek(argc))
    BY <1>1 DEF InvokeArray
  <2>2. frames # <<>> /\ argc \in Nat BY <1>1 DEF InvokeArray, Runs
  <2>3. HeldBy(heap, Full, Peek(argc)) BY <2>1, <2>2, OperandHeld
  <2>4. \A o \in Peek(argc) : heap[o].type = "array" BY <2>1 DEF Is
  <2>5. PICK v : v = Peek(argc) OBVIOUS
  <2> QED BY <2>1, <2>2, <2>3, <2>4, <2>5, ArrayMethodPlanned
<1>2. CASE CallBoundNative
  <2>1. PICK argc \in 0 .. 1 : /\ Callee(argc, "bound_native")
                               /\ ArrayMethod(argc, Get(Peek(argc), "receiver"))
    BY <1>2 DEF CallBoundNative
  <2>2. frames # <<>> /\ argc \in Nat /\ Operands > argc /\ Is(Peek(argc), "bound_native")
    BY <2>1 DEF Callee, Runs
  <2>3. HeldBy(heap, Full, Peek(argc)) BY <2>2, OperandHeld
  <2>4. \A o \in Peek(argc) : heap[o].type = "bound_native" BY <2>2 DEF Is
  <2>5. "bound_native" \in DOMAIN Fields /\ "receiver" \in Fields["bound_native"] BY DEF Fields
  <2>6. PICK v : v = Get(Peek(argc), "receiver") OBVIOUS
  <2>7. /\ HeldBy(heap, Full, v)
        /\ \A o \in Peek(argc) : FieldIsSound(heap, "bound_native", "receiver", heap[o].refs["receiver"])
    BY <2>3, <2>4, <2>5, <2>6, GetHeld
  <2>8. \A o \in v : heap[o].type = "array"
    <3>1. \A o \in Peek(argc) : IsA(heap, heap[o].refs["receiver"], "array")
      BY <2>7 DEF FieldIsSound, Kind
    <3>2. \A o \in Peek(argc) : \A x \in heap[o].refs["receiver"] : heap[x].type = "array" BY <3>1 DEF IsA
    <3> QED BY <2>6, <3>2 DEF Get
  <2> QED BY <2>1, <2>2, <2>6, <2>7, <2>8, ArrayMethodPlanned
<1> QED BY <1>1, <1>2

-----------------------------------------------------------------------------
\* Pieces of code put together are followed one after the other.
LEMMA FlatLeads ==
    ASSUME NEW T, NEW ss \in Seq(T), NEW P, \A i \in 1 .. Len(ss) : Leads(P[i - 1], ss[i], P[i])
    PROVE  Leads(P[0], FlattenSeq(ss), P[Len(ss)])
<1>1. CASE Len(ss) = 0
  <2>1. ss = <<>> BY <1>1
  <2>2. FlattenSeq(ss) = ss BY <1>1 DEF FlattenSeq
  <2> QED BY <1>1, <2>1, <2>2, LeadsNone
<1>2. CASE Len(ss) # 0
  <2> DEFINE f == CHOOSE g : Flat(ss, g)
             n == Len(ss)
  <2>1. FlattenSeq(ss) = f[n] BY <1>2 DEF FlattenSeq, Flat
  <2>2. n \in Nat /\ DOMAIN ss = 1 .. n /\ n # 0 BY <1>2
  <2>3. Flat(ss, f)
    <3>1. \E g : FlatPart(ss, n, g) BY <2>2, FlatExists
    <3>2. \E g : Flat(ss, g) BY <3>1 DEF Flat, FlatPart
    <3> QED BY <3>2
  <2> HIDE DEF f, n
  <2>4. \A i \in 1 .. n : f[i] = IF i = 1 THEN ss[i] ELSE f[i - 1] \o ss[i]
    BY <2>3 DEF Flat, n
  <2> DEFINE S == {i \in 1 .. n : ~ Leads(P[0], f[i], P[i])}
             m == Min(S)
  <2>5. S = {}
    <3>1. SUFFICES ASSUME S # {} PROVE FALSE OBVIOUS
    <3>2. m \in S /\ \A x \in S : m <= x
      <4>1. S \subseteq Nat OBVIOUS
      <4> QED BY <3>1, <4>1, MinIs
    <3>3. m \in 1 .. n /\ ~ Leads(P[0], f[m], P[m]) BY <3>2
    <3> HIDE DEF m
    <3>4. Leads(P[m - 1], ss[m], P[m]) BY <3>3 DEF n
    <3>5. m # 1
      <4>1. SUFFICES ASSUME m = 1 PROVE FALSE OBVIOUS
      <4>2. m - 1 = 0 /\ f[m] = ss[m] BY <2>4, <3>3, <4>1
      <4> QED BY <3>3, <3>4, <4>2
    <3>6. m - 1 \in 1 .. n /\ ~ (m <= m - 1) BY <2>2, <3>3, <3>5
    <3>7. Leads(P[0], f[m - 1], P[m - 1])
      <4>1. m - 1 \notin S BY <3>2, <3>6
      <4> QED BY <3>6, <4>1
    <3>8. f[m] = f[m - 1] \o ss[m] BY <2>4, <3>3, <3>5
    <3> QED BY <3>3, <3>4, <3>7, <3>8, LeadsThen
  <2>6. n \in 1 .. n BY <2>2
  <2>7. Leads(P[0], f[n], P[n]) BY <2>5, <2>6
  <2> QED BY <2>1, <2>7 DEF n
<1> QED BY <1>1, <1>2

\* The strings of the elements of an array are held by no root, but collection is off.
LEMMA ElementsLead ==
    ASSUME NEW depth \in Nat, FunctionText \in Texts
    PROVE  Leads(InNative(TRUE, depth), ElementsToStr, InNative(TRUE, depth))
<1> DEFINE A == InNative(TRUE, depth)
           part == <<Intern("n", FunctionText), Block, Use({"n"})>>
           ss == [i \in 1 .. 2 |-> part]
           P == [i \in 0 .. 2 |-> A]
<1>1. Goes(A, Block, A) /\ Goes(A, Use({"n"}), A)
  BY DEF Goes, GoesQuiet, Sane, Alive, Allocates, Block, Use, Do, Registers, Claim, Off, InNative,
         SameVariables, SameHeld, SameGc, SameStack
<1>2. Goes(A, Intern("n", FunctionText), A)
  BY DEF Goes, GoesIntern, Sane, Alive, Allocates, Intern, Do, Registers, Claim, Off, InNative, Assigned, SameStack
<1> HIDE DEF A
<1>3. Leads(A, part, A) BY <1>1, <1>2, LeadsThree
<1>4. ElementsToStr = FlattenSeq(ss) BY DEF ElementsToStr
<1> HIDE DEF part
<1>5. ss \in Seq({part}) /\ Len(ss) = 2 /\ \A i \in 1 .. 2 : ss[i] = part OBVIOUS
<1>6. \A i \in 0 .. 2 : P[i] = A OBVIOUS
<1> HIDE DEF ss, P
<1>7. \A i \in 1 .. Len(ss) : Leads(P[i - 1], ss[i], P[i])
  <2> SUFFICES ASSUME NEW i \in 1 .. 2 PROVE Leads(P[i - 1], ss[i], P[i]) BY <1>5
  <2>1. i - 1 \in 0 .. 2 /\ i \in 0 .. 2 OBVIOUS
  <2> QED BY <1>3, <1>5, <1>6, <2>1
<1>8. Leads(P[0], FlattenSeq(ss), P[Len(ss)]) BY <1>5, <1>7, FlatLeads
<1>9. P[0] = A /\ P[Len(ss)] = A BY <1>5, <1>6
<1> QED BY <1>4, <1>8, <1>9 DEF A

LEMMA ConvertLeads ==
    ASSUME NEW text \in Texts, FunctionText \in Texts, NEW elements \in {ElementsToStr, <<>>}
    PROVE  \E E : Leads(Guard({}, TRUE, 1, FALSE),
                        Guarded(elements \o ToStr(text) \o <<Drop(1), Push("r")>>), E)
<1> DEFINE A == InNative(TRUE, 1)
           B == InNative(TRUE, 0)
           C == Off(Registers, {}, FALSE, 0, FALSE)
<1>1. 1 \in Nat /\ 0 \in Nat /\ TRUE \in BOOLEAN /\ FALSE \in BOOLEAN /\ Registers \subseteq Registers
  OBVIOUS
<1>2. Leads(A, elements, A) BY <1>1, ElementsLead, LeadsNone
<1>3. Leads(A, ToStr(text), A) BY <1>1, BodyLeads DEF ToStr
<1>4. Goes(A, Drop(1), B)
  BY DEF Goes, GoesDrop, Sane, Alive, Allocates, Drop, Do, Registers, Claim, Off, InNative, SameVariables, NoneHeld, SameGc
<1>5. Goes(B, Push("r"), C)
  BY DEF Goes, GoesPush, Sane, Alive, Allocates, Push, Do, Registers, Claim, Off, InNative, SameVariables
<1> HIDE DEF A, B, C
<1>6. Leads(A, elements \o ToStr(text), A) BY <1>2, <1>3, LeadsThen
<1>7. Leads(A, <<Drop(1), Push("r")>>, C) BY <1>4, <1>5, LeadsTwo
<1>8. PICK s : s = elements \o ToStr(text) \o <<Drop(1), Push("r")>> OBVIOUS
<1>9. Leads(A, s, C) BY <1>6, <1>7, <1>8, LeadsThen
<1>10. Leads(Off(Registers, {}, TRUE, 1, FALSE), s, Off(Registers, {}, FALSE, 0, FALSE))
  BY <1>9 DEF A, C, InNative
<1>11. Leads(Guard({}, TRUE, 1, FALSE), Guarded(s), On(Registers, {}, {}, 0, 0, FALSE))
  BY <1>1, <1>10, GuardLeads
<1> QED BY <1>8, <1>11

\* The answer of an error that was handled takes the place of the exception.
LEMMA ConvertErrorLeads ==
    ASSUME NEW text \in Texts
    PROVE  \E E : Leads(Guard({}, TRUE, 1, FALSE), Guarded(Error(text) \o <<Drop(1), Push("a")>>), E)
<1>1. 1 \in Nat /\ 0 \in Nat /\ TRUE \in BOOLEAN /\ FALSE \in BOOLEAN OBVIOUS
<1>2. PICK ok \in SUBSET Registers :
         "a" \in ok /\ Leads(InNative(TRUE, 1), Error(text), Off(ok, {}, FALSE, 1, FALSE))
  BY <1>1, ErrorOffLeads
<1> DEFINE A == InNative(TRUE, 1)
           B == Off(ok, {}, FALSE, 1, FALSE)
           C == Off(ok, {}, FALSE, 0, FALSE)
           E == On(ok, {}, {}, 0, 0, FALSE)
           F == Claim(ok, {}, {}, FALSE, FALSE, 0, 0, {}, FALSE)
           G == Guard({}, TRUE, 1, FALSE)
<1>3. Goes(B, Drop(1), C)
  BY DEF Goes, GoesDrop, Sane, Alive, Allocates, Drop, Do, Registers, Claim, Off, SameVariables, NoneHeld, SameGc
<1>4. Goes(C, Push("a"), F)
  BY <1>2 DEF Goes, GoesPush, Sane, Alive, Allocates, Push, Do, Registers, Claim, Off, SameVariables
<1>5. Goes(F, Allow(TRUE), E)
  BY DEF Goes, GoesAllow, Sane, Alive, Allocates, Allow, Do, Registers, Claim, On, SameVariables, SameHeld, SameStack
<1>6. Goes(G, Allow(FALSE), A)
  BY DEF Goes, GoesAllow, Sane, Alive, Allocates, Allow, Do, Registers, Claim, Guard, Off, InNative, SameVariables, SameHeld, SameStack
<1>7. Leads(A, Error(text), B) BY <1>2
<1> HIDE DEF A, B, C, E, F, G
<1>8. Leads(B, <<Drop(1), Push("a")>>, F) BY <1>3, <1>4, LeadsTwo
<1>9. Leads(A, Error(text) \o <<Drop(1), Push("a")>>, F) BY <1>7, <1>8, LeadsThen
<1>10. Leads(G, <<Allow(FALSE)>>, A) /\ Leads(F, <<Allow(TRUE)>>, E) BY <1>5, <1>6, LeadsOne
<1>11. PICK s : s = Error(text) \o <<Drop(1), Push("a")>> OBVIOUS
<1>12. Leads(A, s, F) BY <1>9, <1>11
<1>13. Leads(G, <<Allow(FALSE)>> \o s, F) BY <1>10, <1>12, LeadsThen
<1>14. Leads(G, (<<Allow(FALSE)>> \o s) \o <<Allow(TRUE)>>, E) BY <1>10, <1>13, LeadsThen
<1>15. Leads(G, Guarded(s), E) BY <1>14 DEF Guarded
<1> QED BY <1>11, <1>15 DEF G

\* An initialised method is entered with collection disabled; its closure is held.
LEMMA ConvertMethodLeads ==
    \E E : Leads(Guard({<<"a", "closure">>}, FALSE, 1, FALSE), Guarded(<<Enter("a", 0)>>), E)
<1> DEFINE k == {<<"a", "closure">>}
           A == Off(Registers, k, FALSE, 1, FALSE)
           B == Off(Registers, k, FALSE, 0, FALSE)
<1>1. Goes(A, Enter("a", 0), B)
  BY DEF Goes, GoesEnter, Sane, Alive, Allocates, Enter, Do, Registers, Claim, Off, SameVariables, NoneHeld, SameGc
<1> HIDE DEF A, B, k
<1>2. Leads(A, <<Enter("a", 0)>>, B) BY <1>1, LeadsOne
<1>3. 1 \in Nat /\ 0 \in Nat /\ FALSE \in BOOLEAN /\ Registers \subseteq Registers OBVIOUS
<1>4. Leads(Guard(k, FALSE, 1, FALSE), Guarded(<<Enter("a", 0)>>), On(Registers, {}, k, 0, 0, FALSE))
  BY <1>2, <1>3, GuardLeads DEF A, B
<1> QED BY <1>4 DEF k

LEMMA ConvertPlanned ==
    ASSUME Roomy, Kept, Typed, Sound, Convert
    PROVE  Sound' /\ Planned'
<1>1. frames # <<>> /\ Operands > 0 BY DEF Convert, Runs
<1>2. 1 <= Operands /\ 1 \in Nat /\ TRUE \in BOOLEAN /\ FALSE \in BOOLEAN BY <1>1, OperandsNat
<1>3. program.made \subseteq Texts /\ FunctionText \in Texts BY TextsAre
<1>4. \/ /\ Len(stack) < capacity
         /\ \E text \in program.made :
              \/ Perform(<<>>, Guarded((IF Is(Peek(0), "array") THEN ElementsToStr ELSE <<>>)
                                   \o ToStr(text) \o <<Drop(1), Push("r")>>))
              \/ Perform(<<>>, Guarded(Error(text) \o <<Drop(1), Push("a")>>))
      \/ \E method \in Get(Get(Peek(0), "class_"), "methods") :
             /\ Is(Peek(0), "instance") /\ heap[method].type = "closure"
             /\ Perform([a |-> {method}], Guarded(<<Enter("a", 0)>>))
  BY RoomIs DEF Convert
<1>5. ASSUME Len(stack) < capacity, NEW code, Perform(<<>>, code),
             NEW E, Leads(Guard({}, TRUE, 1, FALSE), code, E)
      PROVE  Sound' /\ Planned'
  BY <1>1, <1>2, <1>5, GuardedNone
<1>6. ASSUME Len(stack) < capacity, NEW text \in program.made,
             Perform(<<>>, Guarded((IF Is(Peek(0), "array") THEN ElementsToStr ELSE <<>>)
                                   \o ToStr(text) \o <<Drop(1), Push("r")>>))
      PROVE  Sound' /\ Planned'
  <2>1. PICK elements \in {ElementsToStr, <<>>} :
           elements = IF Is(Peek(0), "array") THEN ElementsToStr ELSE <<>>
    OBVIOUS
  <2>2. PICK code : code = Guarded(elements \o ToStr(text) \o <<Drop(1), Push("r")>>) OBVIOUS
  <2>3. Perform(<<>>, code) BY <1>6, <2>1, <2>2
  <2>4. text \in Texts BY <1>3
  <2>5. PICK E : Leads(Guard({}, TRUE, 1, FALSE), code, E) BY <1>3, <2>2, <2>4, ConvertLeads
  <2> QED BY <1>5, <1>6, <2>3, <2>5
<1>7. ASSUME Len(stack) < capacity, NEW text \in program.made,
             Perform(<<>>, Guarded(Error(text) \o <<Drop(1), Push("a")>>))
      PROVE  Sound' /\ Planned'
  <2>1. text \in Texts BY <1>3
  <2>2. PICK E : Leads(Guard({}, TRUE, 1, FALSE), Guarded(Error(text) \o <<Drop(1), Push("a")>>), E)
    BY <2>1, ConvertErrorLeads
  <2> QED BY <1>5, <1>7, <2>2
<1>8. ASSUME NEW method \in Get(Get(Peek(0), "class_"), "methods"), Is(Peek(0), "instance"),
             heap[method].type = "closure", Perform([a |-> {method}], Guarded(<<Enter("a", 0)>>))
      PROVE  Sound' /\ Planned'
  <2>1. PICK w : w = Peek(0) OBVIOUS
  <2>2. HeldBy(heap, Full, w) BY <1>1, <2>1, OperandHeld
  <2>3. HeldBy(heap, Full, {method}) /\ IsA(heap, {method}, "closure") BY <1>8, <2>1, <2>2, MethodHeld
  <2>4. PICK v, vs, k : v = {method} /\ vs = [a |-> v] /\ k = {<<"a", "closure">>} OBVIOUS
  <2>5. DOMAIN vs = {"a"} /\ vs["a"] = v /\ Perform(vs, Guarded(<<Enter("a", 0)>>)) BY <1>8, <2>4
  <2>6. PICK E : Leads(Guard(k, FALSE, 1, FALSE), Guarded(<<Enter("a", 0)>>), E)
    BY <2>4, ConvertMethodLeads
  <2>7. \A r \in DOMAIN vs : HeldBy(heap, Full, vs[r]) BY <2>3, <2>4, <2>5
  <2>8. \A r, kind : <<r, kind>> \in k => r \in DOMAIN vs /\ IsA(heap, vs[r], kind) BY <2>3, <2>4, <2>5
  <2> QED BY <1>1, <1>2, <2>5, <2>6, <2>7, <2>8, PerformGuarded
<1> QED BY <1>4, <1>6, <1>7, <1>8

-----------------------------------------------------------------------------
\* The names of a program are a sequence of its texts.
LEMMA NamesAre ==
    ASSUME Kept
    PROVE  /\ Cardinality(program.texts) \in Nat
           /\ \A i \in 1 .. Cardinality(program.texts) :
                 SetToSeq(program.texts)[i] \in program.texts \cap Texts
           /\ \A t \in program.texts : \E i \in 1 .. Cardinality(program.texts) :
                 SetToSeq(program.texts)[i] = t
<1> DEFINE S == program.texts
           n == Cardinality(S)
           names == SetToSeq(S)
<1>1. IsFiniteSet(S) /\ S \subseteq Texts BY CollectorConstants DEF Kept
<1> HIDE DEF S
<1>2. n \in Nat /\ ExistsBijection(1 .. n, S) BY <1>1, FS_CardinalityType
<1>3. \E f \in [1 .. n -> S] : IsInjective(f)
  BY <1>2 DEF ExistsBijection, Bijection, Injection
<1>4. names \in [1 .. n -> S] /\ IsInjective(names) BY <1>3 DEF SetToSeq
<1>5. names \in Injection(1 .. n, S) BY <1>4 DEF Injection
<1>6. IsFiniteSet(1 .. n) /\ Cardinality(1 .. n) = n BY <1>2, FS_Interval
<1>7. names \in Surjection(1 .. n, S) BY <1>1, <1>5, <1>6, FS_Injection
<1>8. \A t \in S : \E i \in 1 .. n : names[i] = t BY <1>7 DEF Surjection
<1>9. \A i \in 1 .. n : names[i] \in S \cap Texts BY <1>1, <1>4
<1> QED BY <1>2, <1>8, <1>9 DEF S

\* What a function is once all names are among its constants.
Completed(to) == {<<to, "complete">> : x \in {y \in {ModuleText} : y \in program.texts}}

Naming(kinds, depth, free) == Off(Registers, kinds, TRUE, depth, free)

LEMMA NameLeads ==
    ASSUME NEW to \in {"a", "b"}, NEW kinds, <<to, "function">> \in kinds, <<to, "one">> \in kinds,
           \A k \in kinds : k[1] # "n", NEW depth \in Nat, NEW free \in BOOLEAN, NEW text \in Texts,
           NEW ks, ks \subseteq kinds \cup {<<to, "complete">> : x \in {y \in {text} : y = ModuleText}}
    PROVE  Leads(Naming(kinds, depth, free), <<Intern("n", text), Put(to, "constants", {"n"})>>,
                 Naming(ks, depth, free))
<1> DEFINE mine == {<<"n", kind>> : kind \in StringKinds({text})}
           A == Naming(kinds, depth, free)
           B == Naming(kinds \cup mine, depth, free)
           C == Naming(ks, depth, free)
           s == Intern("n", text)
           t == Put(to, "constants", {"n"})
<1>1. /\ A.ok = Registers /\ A.held = {} /\ A.base = {} /\ A.kinds = kinds /\ A.off /\ A.room
      /\ A.depth = depth /\ A.low = depth /\ A.texts = {} /\ A.free = free
      /\ B.ok = Registers /\ B.held = {} /\ B.base = {} /\ B.kinds = kinds \cup mine /\ B.off /\ B.room
      /\ B.depth = depth /\ B.low = depth /\ B.texts = {} /\ B.free = free
      /\ C.ok = Registers /\ C.held = {} /\ C.base = {} /\ C.kinds = ks /\ C.off /\ C.room
      /\ C.depth = depth /\ C.low = depth /\ C.texts = {} /\ C.free = free
      /\ Sane(A) /\ Sane(B) /\ Sane(C)
  BY DEF Naming, Off, Claim, Sane
<1>2. /\ s.op = "intern" /\ s.to = "n" /\ s.from = {} /\ s.arg = text
      /\ t.op = "put" /\ t.to = to /\ t.from = {"n", to} /\ t.arg.field = "constants" /\ t.arg.from = {"n"}
  BY DEF Intern, Put, Do
<1>3. "n" \in Registers /\ to \in Registers BY DEF Registers
<1>4. <<"n", "string">> \in mine BY DEF StringKinds
<1>5. text = ModuleText => <<"n", "module">> \in mine BY DEF StringKinds
<1>6. kinds \subseteq {k \in kinds : k[1] # "n"} OBVIOUS
<1> HIDE DEF A, B, C, s, t
<1>7. Alive(A, s) = Registers /\ Alive(B, t) = Registers BY <1>1, <1>2 DEF Alive, Allocates
<1>8. Goes(A, s, B)
  <2> DEFINE sk == StringKinds({s.arg})
  <2>0. mine = {<<s.to, kind>> : kind \in sk} BY <1>2
  <2> HIDE DEF mine, sk
  <2>1. Assigned(A, s, B, StringKinds({s.arg}))
    <3>1. Assigned(A, s, B, sk) BY <1>1, <1>2, <1>3, <1>6, <1>7, <2>0 DEF Assigned
    <3> QED BY <3>1 DEF sk
  <2>2. SameStack(A, B) BY <1>1 DEF SameStack
  <2>3. GoesIntern(A, s, B) BY <1>1, <1>2, <2>1, <2>2 DEF GoesIntern
  <2> QED BY <1>1, <1>2, <1>3, <1>7, <2>3 DEF Goes
<1>9. Goes(B, t, C)
  <2>1. FitsField(B, "n", "any", "constants")
    <3>1. Kind("any", "constants") = "any" BY DEF Kind
    <3> HIDE DEF mine
    <3> QED BY <1>1, <1>4, <3>1 DEF FitsField
  <2>2. SameStack(B, C) /\ SameGc(B, C) BY <1>1 DEF SameStack, SameGc
  <2>3. NoneHeld(C) BY <1>1 DEF NoneHeld
  <2> HIDE DEF mine
  <2>4. C.kinds \subseteq B.kinds \cup
          {<<t.to, "complete">> : x \in {y \in {t.arg.field} :
              /\ y = "constants" /\ <<t.to, "function">> \in B.kinds /\ <<t.to, "one">> \in B.kinds
              /\ \E r \in t.arg.from : <<r, "module">> \in B.kinds}}
    <3>1. SUFFICES ASSUME NEW k \in ks, k \notin kinds, k = <<to, "complete">>, text = ModuleText
                   PROVE  k \in {<<t.to, "complete">> : x \in {y \in {t.arg.field} :
                             /\ y = "constants" /\ <<t.to, "function">> \in B.kinds /\ <<t.to, "one">> \in B.kinds
                             /\ \E r \in t.arg.from : <<r, "module">> \in B.kinds}}
      BY <1>1
    <3>2. <<t.to, "function">> \in B.kinds /\ <<t.to, "one">> \in B.kinds BY <1>1, <1>2
    <3>3. "n" \in t.arg.from /\ <<"n", "module">> \in B.kinds BY <1>1, <1>2, <1>5, <3>1
    <3>4. k = <<t.to, "complete">> /\ t.arg.field = "constants" BY <1>2, <3>1
    <3> QED BY <3>2, <3>3, <3>4
  <2>5. \A r \in t.arg.from : FitsField(B, r, "any", t.arg.field) BY <1>2, <2>1
  <2>6. C.ok \subseteq Alive(B, t) BY <1>1, <1>7
  <2>7. GoesPut(B, t, C) BY <1>2, <2>2, <2>3, <2>4, <2>5, <2>6 DEF GoesPut
  <2> QED BY <1>1, <1>2, <1>3, <1>7, <2>7 DEF Goes
<1>10. Leads(A, <<s, t>>, C) BY <1>8, <1>9, LeadsTwo
<1> QED BY <1>10 DEF A, C, s, t

LEMMA AddNamesLead ==
    ASSUME Kept, NEW to \in {"a", "b"}, NEW kinds, <<to, "function">> \in kinds, <<to, "one">> \in kinds,
           \A k \in kinds : k[1] # "n", NEW depth \in Nat, NEW free \in BOOLEAN
    PROVE  Leads(Naming(kinds, depth, free), AddNames(to), Naming(kinds \cup Completed(to), depth, free))
<1> DEFINE n == Cardinality(program.texts)
           names == SetToSeq(program.texts)
           part(i) == <<Intern("n", names[i]), Put(to, "constants", {"n"})>>
           T == {part(i) : i \in 1 .. n}
           ss == [i \in 1 .. n |-> part(i)]
           more(i) == {k \in {<<to, "complete">>} : \E j \in 1 .. i : names[j] = ModuleText}
           P == [i \in 0 .. n |-> Naming(kinds \cup more(i), depth, free)]
<1>1. /\ n \in Nat /\ \A i \in 1 .. n : names[i] \in program.texts \cap Texts
      /\ \A t \in program.texts : \E i \in 1 .. n : names[i] = t
  BY NamesAre
<1>2. AddNames(to) = FlattenSeq(ss) BY DEF AddNames
<1> HIDE DEF names, n
<1>3. \A i \in 0 .. n : /\ <<to, "function">> \in kinds \cup more(i) /\ <<to, "one">> \in kinds \cup more(i)
                        /\ \A k \in kinds \cup more(i) : k[1] # "n"
  OBVIOUS
<1>4. ASSUME NEW i \in 1 .. n PROVE Leads(P[i - 1], ss[i], P[i])
  <2>1. i - 1 \in 0 .. n /\ i \in 0 .. n BY <1>1
  <2>2. kinds \cup more(i) \subseteq (kinds \cup more(i - 1))
           \cup {<<to, "complete">> : x \in {y \in {names[i]} : y = ModuleText}}
    <3>1. SUFFICES ASSUME NEW j \in 1 .. i, names[j] = ModuleText, j # i PROVE j \in 1 .. i - 1
      OBVIOUS
    <3>2. n \in Nat BY <1>1
    <3>3. i \in Nat BY <3>2
    <3>4. j \in Int /\ 1 <= j /\ j <= i BY <3>3
    <3> QED BY <3>1, <3>3, <3>4
  <2>3. PICK k1 : k1 = kinds \cup more(i - 1) OBVIOUS
  <2>4. PICK k2 : k2 = kinds \cup more(i) OBVIOUS
  <2>5. P[i - 1] = Naming(k1, depth, free) /\ P[i] = Naming(k2, depth, free) /\ ss[i] = part(i)
    BY <2>1, <2>3, <2>4
  <2>6. names[i] \in Texts BY <1>1
  <2>7. <<to, "function">> \in k1 /\ <<to, "one">> \in k1 /\ \A k \in k1 : k[1] # "n"
    BY <1>3, <2>1, <2>3
  <2>8. k2 \subseteq k1 \cup {<<to, "complete">> : x \in {y \in {names[i]} : y = ModuleText}}
    BY <2>2, <2>3, <2>4
  <2> HIDE DEF more, P, ss
  <2>9. Leads(Naming(k1, depth, free), part(i), Naming(k2, depth, free))
    BY <2>6, <2>7, <2>8, NameLeads
  <2> QED BY <2>5, <2>9
<1> HIDE DEF part
<1>5. ss \in Seq(T) /\ Len(ss) = n BY <1>1
<1>6. P[0] = Naming(kinds, depth, free)
  <2>1. kinds \cup more(0) = kinds OBVIOUS
  <2>2. 0 \in 0 .. n BY <1>1
  <2> QED BY <2>1, <2>2
<1>7. P[n] = Naming(kinds \cup Completed(to), depth, free)
  <2>1. more(n) = Completed(to)
    <3>1. (\E j \in 1 .. n : names[j] = ModuleText) <=> ModuleText \in program.texts
      BY <1>1
    <3> QED BY <3>1 DEF Completed
  <2>2. n \in 0 .. n BY <1>1
  <2> QED BY <2>1, <2>2
<1> HIDE DEF ss, T, P, more
<1>8. Leads(P[0], FlattenSeq(ss), P[Len(ss)])
  <2>1. \A i \in 1 .. Len(ss) : Leads(P[i - 1], ss[i], P[i]) BY <1>4, <1>5
  <2> QED BY <1>5, <2>1, FlatLeads
<1> QED BY <1>2, <1>5, <1>6, <1>7, <1>8

-----------------------------------------------------------------------------
\* What compile makes, and what it knows of it.
Compiled == {<<"a", "function">>, <<"a", "one">>}
Made(depth, free) == Claim(Registers, {}, Compiled, FALSE, TRUE, depth, depth, {}, free)

LEMMA MadeLeads ==
    ASSUME NEW depth \in Nat, NEW free \in BOOLEAN
    PROVE  /\ Leads(Guard({}, TRUE, depth, free), <<New("a", "function", <<>>)>>, Made(depth, free))
           /\ Leads(Made(depth, free), <<Allow(FALSE)>>, Naming(Compiled, depth, free))
<1> DEFINE A == Guard({}, TRUE, depth, free)
           B == Made(depth, free)
           C == Naming(Compiled, depth, free)
           s == New("a", "function", <<>>)
<1>1. Goes(B, Allow(FALSE), C)
  BY DEF Goes, GoesAllow, Sane, Alive, Allocates, Allow, Do, Registers, Claim, Made, Naming, Off, SameVariables, SameHeld, SameStack
<1>2. /\ A.ok = Registers /\ A.held = Registers /\ A.base = {} /\ A.kinds = {} /\ ~ A.off /\ A.room
      /\ A.depth = depth /\ A.low = depth /\ A.texts = {} /\ A.free = free
      /\ B.ok = Registers /\ B.held = {} /\ B.base = {} /\ B.kinds = Compiled /\ ~ B.off /\ B.room
      /\ B.depth = depth /\ B.low = depth /\ B.texts = {} /\ B.free = free
      /\ Sane(A) /\ Sane(B)
  BY DEF Guard, Made, Claim, Sane
<1>3. PICK p : p = <<>> OBVIOUS
<1>4. UNION Range(p) = {} /\ DOMAIN p = {}
  <2>1. DOMAIN p = {} BY <1>3
  <2>2. Range(p) = {} BY <2>1 DEF Range
  <2> QED BY <2>1, <2>2
<1>5. /\ s.op = "new" /\ s.to = "a" /\ s.from = {} /\ s.arg.type = "function" /\ s.arg.text = {}
      /\ s.arg.parts = p
  BY <1>3, <1>4 DEF New, NewOf, Do
<1> HIDE DEF A, B, C, s
<1>6. Alive(A, s) = Registers BY <1>2, <1>5 DEF Alive, Allocates
<1> DEFINE kk == {"one"} \cup IF s.arg.type = "string" THEN StringKinds(s.arg.text) ELSE {s.arg.type}
<1>7. Assigned(A, s, B, kk)
  <2>1. kk = {"one", "function"} BY <1>5
  <2>2. Compiled = {<<"a", kind>> : kind \in {"one", "function"}} BY DEF Compiled
  <2> HIDE DEF kk
  <2> QED BY <1>2, <1>5, <1>6, <2>1, <2>2 DEF Assigned
<1>8. GoesNew(A, s, B)
  <2>1. SameGc(A, B) /\ SameStack(A, B) BY <1>2 DEF SameGc, SameStack
  <2>2. s.arg.type \in DOMAIN Fields /\ s.arg.text \subseteq Texts BY <1>5 DEF Fields
  <2>3. B.held \subseteq A.held \ {s.to} /\ B.base \subseteq A.base \ {s.to} BY <1>2
  <2>4. \A f \in Fields[s.arg.type] \cap DOMAIN s.arg.parts :
          /\ s.arg.parts[f] \subseteq s.from
          /\ \A x \in s.arg.parts[f] : FitsField(A, x, s.arg.type, f)
    BY <1>4, <1>5
  <2> HIDE DEF kk
  <2> QED BY <1>5, <1>7, <2>1, <2>2, <2>3, <2>4 DEF GoesNew, kk
<1>9. Goes(A, s, B) BY <1>2, <1>5, <1>6, <1>8 DEF Goes, Registers
<1> QED BY <1>1, <1>9, LeadsOne DEF A, B, C, s

\* A function within the function: its name, its names and the constant it becomes.
LEMMA CompileFunctionLeads ==
    ASSUME Kept, NEW depth \in Nat, NEW free \in BOOLEAN, free \/ ModuleText \in program.texts,
           NEW kinds, kinds \subseteq {<<"a", "function">>, <<"a", "one">>, <<"a", "complete">>}
    PROVE  Leads(Naming(kinds, depth, free), CompileFunction, Naming(kinds, depth, free))
<1> DEFINE mine == {<<"b", "function">>, <<"b", "one">>}
           k == kinds \cup mine
           l == k \cup Completed("b")
           A == Naming(kinds, depth, free)
           B == Naming(k, depth, free)
           C == Naming(l, depth, free)
<1>1. FunctionText \in Texts BY TextsAre
<1>2. Goes(A, New("b", "function", <<>>), B)
  <2>1. "function" \in DOMAIN Fields \ {"string"} /\ "b" \in Registers /\ Registers \cup {"b"} = Registers
    BY DEF Fields, Registers
  <2>2. k \subseteq {x \in kinds : x[1] # "b"} \cup {<<"b", "function">>, <<"b", "one">>} OBVIOUS
  <2>3. TRUE \in BOOLEAN OBVIOUS
  <2> HIDE DEF k
  <2>4. Goes(Off(Registers, kinds, TRUE, depth, free), New("b", "function", <<>>),
             Off(Registers \cup {"b"}, k, TRUE, depth, free))
    BY <2>1, <2>2, <2>3, NewOffStep
  <2> QED BY <2>1, <2>4 DEF Naming
<1>3. \A x \in k : x[1] # "n" OBVIOUS
<1>4. <<"b", "function">> \in k /\ <<"b", "one">> \in k OBVIOUS
<1>5. kinds \subseteq l OBVIOUS
<1>6. IsNamed(C, "b")
  <2>1. C.free = free /\ C.kinds = l BY DEF Naming, Off, Claim
  <2>2. ModuleText \in program.texts => <<"b", "complete">> \in l BY DEF Completed
  <2> HIDE DEF C, l
  <2> QED BY <2>1, <2>2 DEF IsNamed
<1> HIDE DEF k, l
<1>7. Goes(B, Intern("n", FunctionText), B)
  <2>1. k \subseteq {x \in k : x[1] # "n"} BY <1>3
  <2> QED BY <1>1, <2>1 DEF Goes, GoesIntern, Sane, Alive, Allocates, Intern, Do, Registers, Claim, Naming, Off,
           Assigned, SameStack
<1>8. Goes(B, Put("b", "name", {"n"}), B)
  BY DEF Goes, GoesPut, Sane, Alive, Allocates, Put, Do, Registers, Claim, Naming, Off, FitsField, Kind,
         NoneHeld, SameGc, SameStack
<1>9. Goes(C, Put("a", "constants", {"b"}), A)
  <2>1. FitsField(C, "b", "any", "constants") BY <1>6 DEF FitsField, Kind
  <2> QED BY <1>5, <2>1 DEF Goes, GoesPut, Sane, Alive, Allocates, Put, Do, Registers, Claim, Naming, Off,
           NoneHeld, SameGc, SameStack
<1>10. Leads(B, AddNames("b"), C)
  <2>1. "b" \in {"a", "b"} OBVIOUS
  <2>2. Leads(Naming(k, depth, free), AddNames("b"), Naming(k \cup Completed("b"), depth, free))
    BY <1>3, <1>4, <2>1, AddNamesLead
  <2> QED BY <2>2 DEF l
<1> HIDE DEF A, B, C
<1>11. Leads(A, <<New("b", "function", <<>>), Intern("n", FunctionText), Put("b", "name", {"n"})>>, B)
  BY <1>2, <1>7, <1>8, LeadsThree
<1>12. Leads(C, <<Put("a", "constants", {"b"})>>, A) BY <1>9, LeadsOne
<1>13. Leads(A, <<New("b", "function", <<>>), Intern("n", FunctionText), Put("b", "name", {"n"})>>
                \o AddNames("b"), C)
  BY <1>10, <1>11, LeadsThen
<1>14. Leads(A, CompileFunction, A) BY <1>12, <1>13, LeadsThen DEF CompileFunction
<1> QED BY <1>14 DEF A

LEMMA CompileLeads ==
    ASSUME Kept, NEW depth \in Nat, NEW free \in BOOLEAN, free <=> ModuleText \notin program.texts
    PROVE  Leads(Guard({}, TRUE, depth, free), Compile,
                 On(Registers, {}, Compiled \cup Completed("a"), depth, depth, free))
<1> DEFINE k == Compiled \cup Completed("a")
           A == Guard({}, TRUE, depth, free)
           B == Made(depth, free)
           C == Naming(Compiled, depth, free)
           D == Naming(k, depth, free)
           E == On(Registers, {}, k, depth, depth, free)
<1>1. PICK nested : nested = IF program.nested THEN CompileFunction ELSE <<>> OBVIOUS
<1>2. /\ <<"a", "function">> \in Compiled /\ <<"a", "one">> \in Compiled
      /\ \A x \in Compiled : x[1] # "n" /\ "a" \in {"a", "b"}
  BY DEF Compiled
<1>3. k \subseteq {<<"a", "function">>, <<"a", "one">>, <<"a", "complete">>} BY DEF Compiled, Completed
<1>4. free \/ ModuleText \in program.texts OBVIOUS
<1>5. Leads(A, <<New("a", "function", <<>>)>>, B) /\ Leads(B, <<Allow(FALSE)>>, C) BY MadeLeads
<1>6. Leads(C, AddNames("a"), D) BY <1>2, AddNamesLead
<1> HIDE DEF k
<1>7. Goes(D, Allow(TRUE), E)
  BY DEF Goes, GoesAllow, Sane, Alive, Allocates, Allow, Do, Registers, Claim, Naming, Off, On, SameVariables, SameHeld, SameStack
<1>8. Leads(D, nested, D)
  <2>1. Leads(D, CompileFunction, D) BY <1>3, <1>4, CompileFunctionLeads
  <2>2. Leads(D, <<>>, D) BY LeadsNone
  <2> QED BY <1>1, <2>1, <2>2
<1> HIDE DEF A, B, C, D, E
<1>9. Leads(C, AddNames("a") \o nested, D) BY <1>6, <1>8, LeadsThen
<1>10. Leads(D, <<Allow(TRUE)>>, E) BY <1>7, LeadsOne
<1>11. PICK s : s = AddNames("a") \o nested OBVIOUS
<1>12. Leads(C, s, D) BY <1>9, <1>11
<1>13. Leads(B, <<Allow(FALSE)>> \o s, D) BY <1>5, <1>12, LeadsThen
<1>14. Leads(B, (<<Allow(FALSE)>> \o s) \o <<Allow(TRUE)>>, E) BY <1>10, <1>13, LeadsThen
<1>15. Leads(B, Guarded(s), E) BY <1>14 DEF Guarded
<1>16. Leads(A, <<New("a", "function", <<>>)>> \o Guarded(s), E) BY <1>5, <1>15, LeadsThen
<1>17. Compile = <<New("a", "function", <<>>)>> \o Guarded(s) BY <1>1, <1>11 DEF Compile
<1>18. Leads(A, Compile, E) BY <1>16, <1>17
<1> QED BY <1>18 DEF A, E, k

-----------------------------------------------------------------------------
\* The function is on the stack while its closure is made, and the closure then.
LEMMA ClosureOfLeads ==
    ASSUME NEW free \in BOOLEAN, free \/ ModuleText \in program.texts
    PROVE  \E Y, Z, W, E :
              /\ Leads(On(Registers, {}, Compiled \cup Completed("a"), 0, 0, free), <<Push("a")>>, Y)
              /\ Leads(On(Registers, {}, Compiled \cup Completed("a"), 1, 1, free), <<Replace(0, "a")>>, Y)
              /\ Leads(Y, NewClosure("c", "a"), Z)
              /\ Leads(Z, <<Drop(1), Push("c"), Enter("c", 0)>>, E)
              /\ Leads(Z, <<Replace(0, "c"), Enter("c", 0)>>, E)
<1> DEFINE k == Compiled \cup Completed("a")
           kc == k \cup {<<"c", "closure">>}
           V == On(Registers, {}, k, 0, 0, free)
           X == On(Registers, {}, k, 1, 1, free)
           Y == On({"a"}, {"a"}, k, 1, 1, free)
           Z == On({"a", "c"}, {"a"}, kc, 1, 1, free)
           W == On({"a", "c"}, {}, kc, 0, 0, free)
           U == On({"a", "c"}, {}, kc, 1, 1, free)
           E == On({"a", "c"}, {}, kc, 0, 1, free)
<1>1. /\ <<"a", "function">> \in k /\ \A x \in k : x[1] # "c" /\ <<"c", "closure">> \in kc
      /\ free \/ <<"a", "complete">> \in k
  BY DEF Compiled, Completed
<1> HIDE DEF k, kc
<1>2. Goes(V, Push("a"), Y)
  BY DEF Goes, GoesPush, Sane, Alive, Allocates, Push, Do, Registers, Claim, On, SameVariables
<1>3. Goes(X, Replace(0, "a"), Y)
  BY DEF Goes, GoesReplace, Sane, Alive, Allocates, Replace, Do, Registers, Claim, On, SameVariables, SameGc, SameStack
<1>4. Leads(Y, NewClosure("c", "a"), Z)
  <2>1. "a" \in {"a"} /\ {"a"} \subseteq Registers \ {"c"} /\ {"a"} \cup {"c"} = {"a", "c"} /\ 1 \in Nat
    BY DEF Registers
  <2>2. \A x \in k : x[1] # "c" BY <1>1
  <2>3. Leads(On({"a"}, {"a"}, k, 1, 1, free), NewClosure("c", "a"),
              On({"a"} \cup {"c"}, {"a"}, k \cup {<<"c", "closure">>}, 1, 1, free))
    BY <1>1, <2>1, <2>2, NewClosureLeads
  <2> QED BY <2>1, <2>3 DEF kc
<1>5. Goes(Z, Drop(1), W)
  BY DEF Goes, GoesDrop, Sane, Alive, Allocates, Drop, Do, Registers, Claim, On, SameVariables, NoneHeld, SameGc
<1>6. Goes(W, Push("c"), U)
  BY DEF Goes, GoesPush, Sane, Alive, Allocates, Push, Do, Registers, Claim, On, SameVariables
<1>7. Goes(Z, Replace(0, "c"), U)
  BY DEF Goes, GoesReplace, Sane, Alive, Allocates, Replace, Do, Registers, Claim, On, SameVariables, SameGc, SameStack
<1>8. Goes(U, Enter("c", 0), E)
  BY <1>1 DEF Goes, GoesEnter, Sane, Alive, Allocates, Enter, Do, Registers, Claim, On, SameVariables, NoneHeld, SameGc
<1> HIDE DEF V, X, Y, Z, W, U, E
<1>9. Leads(V, <<Push("a")>>, Y) /\ Leads(X, <<Replace(0, "a")>>, Y) BY <1>2, <1>3, LeadsOne
<1>10. Leads(Z, <<Drop(1), Push("c"), Enter("c", 0)>>, E) BY <1>5, <1>6, <1>8, LeadsThree
<1>11. Leads(Z, <<Replace(0, "c"), Enter("c", 0)>>, E) BY <1>7, <1>8, LeadsTwo
<1>12. V = On(Registers, {}, Compiled \cup Completed("a"), 0, 0, free) BY DEF V, k
<1>13. X = On(Registers, {}, Compiled \cup Completed("a"), 1, 1, free) BY DEF X, k
<1> QED BY <1>4, <1>9, <1>10, <1>11, <1>12, <1>13

LEMMA CompilingPlanned ==
    ASSUME Kept, Typed, Sound, NEW code, Perform(<<>>, code), Len(stack) < capacity,
           NEW depth \in Nat, frames = <<>> => depth = 0, frames # <<>> => depth <= Operands,
           NEW free \in BOOLEAN, free => ModuleText \notin program.texts,
           NEW E, Leads(Guard({}, TRUE, depth, free), code, E)
    PROVE  Sound' /\ Planned'
<1>1. PICK A, vs : A = Guard({}, TRUE, depth, free) /\ vs = <<>> OBVIOUS
<1>2. /\ A.ok = Registers /\ A.held = Registers /\ A.base = {} /\ A.kinds = {}
      /\ ~ A.off /\ A.room /\ A.depth = depth /\ A.low = depth /\ A.texts = {} /\ A.free = free
  BY <1>1 DEF Guard, Claim
<1>3. Len(stack) \in Nat BY SeqIs DEF Typed
<1>4. PlaceHolds(A)
  <2>1. A.free => ModuleText \notin program.texts BY <1>2, Zenon
  <2>2. CASE frames # <<>>
    <3>1. A.depth <= Operands BY <1>2, <2>2
    <3>2. A.low <= Len(stack) BY <1>2, <1>3, <2>2, OperandsAre
    <3>3. A.room => Len(stack) < capacity OBVIOUS
    <3> QED BY <1>2, <2>1, <2>2, <3>1, <3>2, <3>3, PlaceStarts
  <2>3. CASE frames = <<>>
    <3>1. A.low <= Len(stack) /\ A.depth <= Len(stack) BY <1>2, <1>3, <2>3
    <3>2. \A u \in open : u.slot + A.depth < Len(stack) BY <1>2, <2>3 DEF Sound, StackIsSound
    <3>3. \A i \in DOMAIN frames : frames[i].base + A.depth < Len(stack) BY <2>3
    <3>4. A.room => Len(stack) < capacity OBVIOUS
    <3>5. A.off => ~ allowed BY <1>2
    <3> QED BY <2>1, <3>1, <3>2, <3>3, <3>4, <3>5 DEF PlaceHolds
  <2> QED BY <2>2, <2>3
<1>5. TextsHold(A) BY <1>2 DEF TextsHold
<1>6. DOMAIN vs = {} /\ Perform(vs, code)
  <2>1. DOMAIN vs = {} BY <1>1
  <2>2. Perform(vs, code) BY <1>1
  <2> QED BY <2>1, <2>2
<1>7. Leads(A, code, E) BY <1>1
<1> QED BY <1>2, <1>4, <1>5, <1>6, <1>7, PerformPlanned

LEMMA CompilesPlanned ==
    ASSUME Roomy, Kept, Typed, Sound, Interpret \/ Import
    PROVE  Sound' /\ Planned'
<1>1. PICK free \in BOOLEAN : free <=> ModuleText \notin program.texts OBVIOUS
<1>2. free \/ ModuleText \in program.texts BY <1>1
<1> DEFINE k == Compiled \cup Completed("a")
           V == On(Registers, {}, k, 0, 0, free)
           X == On(Registers, {}, k, 1, 1, free)
<1>3. PICK Y, Z, W, E : /\ Leads(V, <<Push("a")>>, Y) /\ Leads(X, <<Replace(0, "a")>>, Y)
                        /\ Leads(Y, NewClosure("c", "a"), Z)
                        /\ Leads(Z, <<Drop(1), Push("c"), Enter("c", 0)>>, E)
                        /\ Leads(Z, <<Replace(0, "c"), Enter("c", 0)>>, E)
  BY <1>2, ClosureOfLeads
<1>4. 0 \in Nat /\ 1 \in Nat OBVIOUS
<1>5. Leads(Guard({}, TRUE, 0, free), Compile, V) /\ Leads(Guard({}, TRUE, 1, free), Compile, X)
  BY <1>1, <1>4, CompileLeads
<1>6. Len(stack) < capacity
  <2>1. RoomToGuard BY DEF Interpret, Import
  <2> QED BY <2>1, RoomIs
<1> HIDE DEF V, X
<1>7. CASE Interpret
  <2>1. frames = <<>> /\ Perform(<<>>, Compile \o <<Push("a")>> \o NewClosure("c", "a")
                                       \o <<Drop(1), Push("c"), Enter("c", 0)>>)
    BY <1>7 DEF Interpret
  <2>2. PICK code : code = Compile \o <<Push("a")>> \o NewClosure("c", "a")
                           \o <<Drop(1), Push("c"), Enter("c", 0)>>
    OBVIOUS
  <2>3. Leads(Guard({}, TRUE, 0, free), Compile \o <<Push("a")>>, Y) BY <1>3, <1>5, LeadsThen
  <2>4. Leads(Guard({}, TRUE, 0, free), Compile \o <<Push("a")>> \o NewClosure("c", "a"), Z)
    BY <1>3, <2>3, LeadsThen
  <2>5. Leads(Guard({}, TRUE, 0, free), code, E) BY <1>3, <2>2, <2>4, LeadsThen
  <2>6. Perform(<<>>, code) BY <2>1, <2>2
  <2>7. free => ModuleText \notin program.texts BY <1>1
  <2>8. PICK d \in Nat : d = 0 BY <1>4
  <2>9. (frames = <<>> => d = 0) /\ (frames # <<>> => d <= Operands) BY <2>1, <2>8
  <2>10. Leads(Guard({}, TRUE, d, free), code, E) BY <2>5, <2>8
  <2> QED BY <1>6, <2>6, <2>7, <2>9, <2>10, CompilingPlanned
<1>8. CASE Import
  <2>1. frames # <<>> /\ Operands > 0
        /\ Perform(<<>>, Compile \o <<Replace(0, "a")>> \o NewClosure("c", "a")
                         \o <<Replace(0, "c"), Enter("c", 0)>>)
    BY <1>8 DEF Import, Runs
  <2>2. PICK code : code = Compile \o <<Replace(0, "a")>> \o NewClosure("c", "a")
                           \o <<Replace(0, "c"), Enter("c", 0)>>
    OBVIOUS
  <2>3. Leads(Guard({}, TRUE, 1, free), Compile \o <<Replace(0, "a")>>, Y) BY <1>3, <1>5, LeadsThen
  <2>4. Leads(Guard({}, TRUE, 1, free), Compile \o <<Replace(0, "a")>> \o NewClosure("c", "a"), Z)
    BY <1>3, <2>3, LeadsThen
  <2>5. Leads(Guard({}, TRUE, 1, free), code, E) BY <1>3, <2>2, <2>4, LeadsThen
  <2>6. Perform(<<>>, code) BY <2>1, <2>2
  <2>7. 1 <= Operands BY <2>1, OperandsNat
  <2>8. (frames = <<>> => 1 = 0) /\ (frames # <<>> => 1 <= Operands) BY <2>1, <2>7
  <2>9. free => ModuleText \notin program.texts BY <1>1
  <2> QED BY <1>4, <1>6, <2>5, <2>6, <2>8, <2>9, CompilingPlanned
<1> QED BY <1>7, <1>8

-----------------------------------------------------------------------------
(* The instructions that have no C code of their own. *)

LEMMA SlotIsThere ==
    ASSUME Typed, Sound
    PROVE  /\ \A i \in 1 .. Len(stack) : stack[i] \subseteq DOMAIN heap
           /\ IsSeq(stack) /\ Len(stack) \in Nat /\ DOMAIN stack = 1 .. Len(stack)
           /\ Held["frames"] \subseteq DOMAIN heap /\ Held["upvalues"] \subseteq DOMAIN heap
           /\ Held["globals"] \subseteq DOMAIN heap /\ Held["exception"] \subseteq DOMAIN heap
           /\ Held["names"] \subseteq DOMAIN heap
<1>1. \A i \in 1 .. Len(stack) : stack[i] \subseteq DOMAIN heap BY SlotHeld, HeldIsThere
<1>2. IsSeq(stack) BY DEF Typed
<1> QED BY <1>1, <1>2, SeqIs, InHandIs DEF Sound, HandIsSound

\* What is closed refers to what is on the heap.
LEMMA ClosedHeap ==
    ASSUME Sound, program' = program, DOMAIN heap' = DOMAIN heap,
           \A o \in DOMAIN heap :
              \/ heap'[o] = heap[o]
              \/ /\ heap[o].type = "upvalue"
                 /\ \E v : v \subseteq DOMAIN heap /\ heap'[o] = [heap[o] EXCEPT !.refs.closed = v]
    PROVE  HeapIsSound(heap)' /\ Preserves(heap, heap')
<1>1. HeapIsSound(heap) BY DEF Sound
<1>2. ASSUME NEW o \in DOMAIN heap
      PROVE  /\ heap'[o].type = heap[o].type /\ heap'[o].text = heap[o].text
             /\ DOMAIN heap'[o] = DOMAIN heap[o] /\ DOMAIN heap'[o].refs = DOMAIN heap[o].refs
             /\ \A f \in Fields[heap[o].type] : \/ heap'[o].refs[f] = heap[o].refs[f]
                                                \/ f = "closed" /\ heap'[o].refs[f] \subseteq DOMAIN heap
  <2>1. CASE heap'[o] = heap[o] BY <2>1
  <2>2. ASSUME heap[o].type = "upvalue", NEW v, v \subseteq DOMAIN heap,
               heap'[o] = [heap[o] EXCEPT !.refs.closed = v]
        PROVE  /\ heap'[o].type = heap[o].type /\ heap'[o].text = heap[o].text
               /\ DOMAIN heap'[o] = DOMAIN heap[o] /\ DOMAIN heap'[o].refs = DOMAIN heap[o].refs
               /\ \A f \in Fields[heap[o].type] : \/ heap'[o].refs[f] = heap[o].refs[f]
                                                  \/ f = "closed" /\ heap'[o].refs[f] \subseteq DOMAIN heap
    <3>1. DOMAIN heap[o] = {"type", "text", "refs"} /\ DOMAIN heap[o].refs = Fields[heap[o].type]
      BY <1>1 DEF HeapIsSound
    <3> QED BY <2>2, <3>1
  <2> QED BY <2>1, <2>2
<1>3. Preserves(heap, heap')
  <2>1. \A o \in DOMAIN heap : \A f \in Fields[heap[o].type] \cap {"constants"} : heap'[o].refs[f] = heap[o].refs[f]
    BY <1>2
  <2> QED BY <1>2, <2>1 DEF Preserves
<1>4. \A o \in DOMAIN heap : \A f \in Fields[heap[o].type] :
          heap'[o].refs[f] = heap[o].refs[f] \/ FieldIsSound(heap, heap[o].type, f, heap'[o].refs[f])
  <2>1. \A type, v : v \subseteq DOMAIN heap => FieldIsSound(heap, type, "closed", v)
    BY DEF FieldIsSound, Kind, IsA
  <2> QED BY <1>2, <2>1
<1>5. HeapIsSound(heap') BY <1>1, <1>3, <1>4, HeapChanged
<1> QED BY <1>3, <1>5, SoundNext

LEMMA HandLess ==
    ASSUME Sound, Typed, Preserves(heap, heap'), IsSeq(stack'),
           \A i \in 1 .. Len(stack') : stack'[i] \subseteq DOMAIN heap,
           \A i \in DOMAIN frames' : i \in DOMAIN frames /\ frames'[i] = frames[i],
           open' \subseteq open, UNCHANGED <<globals, named>>, exception' \subseteq DOMAIN heap
    PROVE  HandIsSound'
<1>1. Held'["stack"] \subseteq DOMAIN heap
  <2>1. DOMAIN stack' = 1 .. Len(stack') BY SeqIs
  <2>2. UNION ToSet(stack') \subseteq DOMAIN heap BY <2>1 DEF ToSet
  <2> QED BY <2>2 DEF Held
<1>2. Held'["frames"] \subseteq Held["frames"]
  <2>1. UNION {frames'[i].closure : i \in DOMAIN frames'} \subseteq UNION {frames[i].closure : i \in DOMAIN frames}
    OBVIOUS
  <2> QED BY <2>1 DEF Held
<1>3. Held'["upvalues"] \subseteq Held["upvalues"]
  <2>1. UNION {u.upvalue : u \in open'} \subseteq UNION {u.upvalue : u \in open} OBVIOUS
  <2> QED BY <2>1 DEF Held
<1>4. /\ Held'["globals"] = Held["globals"] /\ Held'["names"] = Held["names"]
      /\ Held'["exception"] = exception'
  BY DEF Held
<1>5. DOMAIN heap \subseteq DOMAIN heap' BY DEF Preserves
<1>6. InHand' \subseteq DOMAIN heap' BY <1>1, <1>2, <1>3, <1>4, <1>5, SlotIsThere, InHandNext
<1>7. /\ \A i \in DOMAIN frames : frames[i].closure \subseteq DOMAIN heap
      /\ \A u \in open : u.upvalue \subseteq DOMAIN heap
  BY HandOf DEF Sound, HandIsSound
<1>8. /\ \A i \in DOMAIN frames : IsA(heap', frames[i].closure, "closure")
      /\ \A u \in open : IsA(heap', u.upvalue, "upvalue")
  BY <1>7, IsAKept DEF Sound, HandIsSound
<1> QED BY <1>6, <1>8 DEF HandIsSound

LEMMA ClosedIs ==
    ASSUME Typed, Sound, NEW slot, program' = program, heap' = Closed(slot)
    PROVE  HeapIsSound(heap)' /\ Preserves(heap, heap')
<1>1. DOMAIN heap' = DOMAIN heap BY DEF Closed
<1>2. ASSUME NEW o \in DOMAIN heap, heap'[o] # heap[o]
      PROVE  /\ heap[o].type = "upvalue"
             /\ \E v : v \subseteq DOMAIN heap /\ heap'[o] = [heap[o] EXCEPT !.refs.closed = v]
  <2> DEFINE of == {u \in open : u.upvalue = {o} /\ u.slot >= slot}
             v == UNION {stack[u.slot + 1] : u \in of}
  <2>1. of # {} /\ heap'[o] = [heap[o] EXCEPT !.refs.closed = v] BY <1>2 DEF Closed
  <2>2. \A u \in open : u.slot \in Nat /\ u.slot < Len(stack) BY DEF Sound, StackIsSound
  <2>3. \A u \in open : u.slot + 1 \in 1 .. Len(stack) BY <2>2, SlotIsThere
  <2>4. v \subseteq DOMAIN heap BY <2>3, SlotIsThere
  <2>5. heap[o].type = "upvalue"
    <3>1. PICK u \in open : u.upvalue = {o} BY <2>1
    <3>2. IsA(heap, {o}, "upvalue") BY <3>1 DEF Sound, HandIsSound
    <3> QED BY <3>2 DEF IsA
  <2> QED BY <2>1, <2>4, <2>5
<1> QED BY <1>1, <1>2, ClosedHeap

LEMMA SeqCut ==
    ASSUME NEW s, NEW n \in Nat, IsSeq(s), n <= Len(s)
    PROVE  /\ IsSeq(SubSeq(s, 1, n)) /\ Len(SubSeq(s, 1, n)) = n
           /\ \A i \in 1 .. n : SubSeq(s, 1, n)[i] = s[i]
<1>1. PICK S : s \in Seq(S) BY DEF IsSeq
<1>2. \A i \in 1 .. n : s[i] \in S BY <1>1
<1>3. PICK t : t = SubSeq(s, 1, n) OBVIOUS
<1>4. /\ t \in Seq(S) /\ Len(t) = IF 1 <= n THEN n - 1 + 1 ELSE 0
      /\ \A i \in 1 .. n - 1 + 1 : t[i] = s[1 + i - 1]
  BY <1>2, <1>3, SubSeqProperties
<1>5. Len(t) = n BY <1>4
<1>6. ASSUME NEW i \in 1 .. n PROVE t[i] = s[i]
  <2>1. i \in 1 .. n - 1 + 1 /\ 1 + i - 1 = i OBVIOUS
  <2> QED BY <1>4, <2>1
<1> QED BY <1>3, <1>4, <1>5, <1>6 DEF IsSeq

LEMMA PopSound ==
    ASSUME Typed, Sound, Pop, IsSeq(stack')
    PROVE  Sound' /\ Planned'
<1>1. /\ frames # <<>> /\ todo = <<>> /\ Len(stack) - Active.base - 1 > 0 /\ todo' = todo /\ local' = local
      /\ heap' = Closed(Len(stack) - 1) /\ open' = open \ Above(Len(stack) - 2) /\ stack' = Front(stack)
      /\ UNCHANGED <<program, allowed, phase, capacity, frames, globals, exception, named>>
  BY DEF Pop, Runs, Height, code_vars, gc_vars
<1>2. HeapIsSound(heap)' /\ Preserves(heap, heap') BY <1>1, ClosedIs
<1>3. Len(stack) \in Nat /\ DOMAIN stack = 1 .. Len(stack) BY SlotIsThere
<1>4. Active.base \in Nat BY <1>1, ActiveHeld
<1>5. /\ Len(stack') = Len(stack) - 1 /\ Len(stack') \in Nat
      /\ \A i \in 1 .. Len(stack') : stack'[i] = stack[i] /\ i \in 1 .. Len(stack)
  <2>1. stack' = SubSeq(stack, 1, Len(stack) - 1) BY <1>1 DEF Front
  <2>2. Len(stack) - 1 \in Nat BY <1>1, <1>3, <1>4
  <2>3. Len(stack') = Len(stack) - 1
    <3>1. Len(stack) - 1 <= Len(stack) BY <1>3
    <3> QED BY <2>1, <2>2, <3>1, SeqCut DEF Typed
  <2>4. DOMAIN stack' = 1 .. Len(stack') BY SeqIs
  <2> QED BY <1>1, <1>3, <2>2, <2>3, <2>4, SeqFront DEF Typed
<1>6. /\ capacity \in Nat \ {0} /\ Len(stack) <= capacity
      /\ \A u \in open : u.slot \in Nat /\ u.slot < Len(stack)
      /\ \A i \in DOMAIN frames : frames[i].base \in Nat /\ frames[i].base < Len(stack)
      /\ \A i, j \in DOMAIN frames : i < j => frames[i].base < frames[j].base
  BY DEF Sound, StackIsSound
<1>7. \A i \in DOMAIN frames : frames[i].base < Len(stack) - 1
  <2>1. Operands \in Nat BY <1>1, OperandsNat
  <2>2. IsSeq(frames) BY DEF Typed
  <2>3. Len(frames) \in Nat /\ DOMAIN frames = 1 .. Len(frames) /\ Len(frames) # 0 BY <1>1, <2>2, SeqIs
  <2>4. Active = frames[Len(frames)] /\ Len(frames) \in DOMAIN frames BY <2>3 DEF Active, Last
  <2>5. \A i \in DOMAIN frames : i = Len(frames) \/ i < Len(frames) BY <2>3
  <2>6. \A i \in DOMAIN frames : frames[i].base <= Active.base BY <1>6, <2>4, <2>5
  <2> QED BY <1>1, <1>3, <1>4, <1>6, <2>6
<1>8. \A u \in open' : u \in open /\ u.slot < Len(stack) - 1
  <2>1. ASSUME NEW u \in open, u \notin Above(Len(stack) - 2) PROVE u.slot < Len(stack) - 1
    <3>1. ~ (u.slot > Len(stack) - 2) /\ u.slot \in Nat BY <1>6, <2>1 DEF Above
    <3> QED BY <1>3, <3>1
  <2> QED BY <1>1, <2>1
<1>9. StackIsSound'
  <2>1. Len(stack) - 1 <= capacity BY <1>3, <1>6
  <2> QED BY <1>1, <1>5, <1>6, <1>7, <1>8, <2>1 DEF StackIsSound
<1>10. HandIsSound'
  <2>1. \A i \in 1 .. Len(stack') : stack'[i] \subseteq DOMAIN heap BY <1>5, SlotIsThere
  <2>2. exception' \subseteq DOMAIN heap BY <1>1, SlotIsThere DEF Held
  <2> QED BY <1>1, <1>2, <1>8, <2>1, <2>2, HandLess
<1>11. ControlIsSound' BY <1>1 DEF Sound, ControlIsSound
<1> QED BY <1>1, <1>2, <1>9, <1>10, <1>11 DEF Sound, Planned

LEMMA HandledSound ==
    ASSUME Typed, Sound, MarkHandled
    PROVE  Sound' /\ Planned'
<1>1. /\ todo = <<>> /\ todo' = todo /\ local' = local /\ heap' = heap /\ exception' = {}
      /\ UNCHANGED <<program, allowed, phase, capacity, stack, frames, globals, open, named>>
  BY DEF MarkHandled, Runs, heap_vars, code_vars, gc_vars
<1>2. HeapIsSound(heap)' BY <1>1, HeapSame DEF Sound
<1>3. StackIsSound' BY <1>1, StackSame DEF Sound
<1>4. HandIsSound'
  <2>1. exception' \subseteq DOMAIN heap BY <1>1
  <2>2. Preserves(heap, heap') BY <1>1, PreservesSame
  <2>3. IsSeq(stack') /\ \A i \in 1 .. Len(stack') : stack'[i] \subseteq DOMAIN heap BY <1>1, SlotIsThere
  <2> QED BY <1>1, <2>1, <2>2, <2>3, HandLess
<1>5. ControlIsSound' BY <1>1 DEF Sound, ControlIsSound
<1> QED BY <1>1, <1>2, <1>3, <1>4, <1>5 DEF Sound, Planned

LEMMA SetVariableSound ==
    ASSUME Typed, Sound, SetVariable, IsSeq(stack')
    PROVE  Sound' /\ Planned'
<1>1. /\ frames # <<>> /\ todo = <<>> /\ Len(stack) - Active.base - 1 > 0 /\ todo' = todo /\ local' = local
      /\ UNCHANGED <<program, allowed, phase, capacity, frames, globals, open, exception, named>>
  BY DEF SetVariable, Runs, Height, code_vars, gc_vars
<1>2. PICK v : v = Peek(0) OBVIOUS
<1>3. Len(stack) \in Nat /\ DOMAIN stack = 1 .. Len(stack) /\ IsSeq(stack) BY SlotIsThere
<1>4. v \subseteq DOMAIN heap
  <2>1. Active.base \in Nat BY <1>1, ActiveHeld
  <2>2. Len(stack) - 0 \in 1 .. Len(stack) BY <1>1, <1>3, <2>1
  <2> QED BY <1>2, <2>2, SlotIsThere DEF Peek
<1>5. /\ stack' = stack \/ \E i : stack' = [stack EXCEPT ![i] = v]
      /\ \/ heap' = heap
         \/ \E obj \in Get(Active.closure, "upvalues") : heap' = [heap EXCEPT ![obj].refs.closed = v]
  BY <1>2 DEF SetVariable
<1>6. Len(stack') = Len(stack) /\ \A i \in 1 .. Len(stack) : stack'[i] = stack[i] \/ stack'[i] = v
  <2>1. DOMAIN stack' = DOMAIN stack /\ \A i \in DOMAIN stack : stack'[i] = stack[i] \/ stack'[i] = v BY <1>5
  <2>2. Len(stack') \in Nat /\ DOMAIN stack' = 1 .. Len(stack') BY SeqIs
  <2>3. Len(stack') = Len(stack) BY <1>3, <2>1, <2>2
  <2> QED BY <1>3, <2>1, <2>3
<1>7. HeapIsSound(heap)' /\ Preserves(heap, heap')
  <2>1. CASE heap' = heap BY <1>1, <2>1, HeapSame, PreservesSame DEF Sound
  <2>2. ASSUME NEW obj \in Get(Active.closure, "upvalues"), heap' = [heap EXCEPT ![obj].refs.closed = v]
        PROVE  HeapIsSound(heap)' /\ Preserves(heap, heap')
    <3>1. heap[obj].type = "upvalue" BY <1>1, <2>2, ActiveHeld
    <3>2. DOMAIN heap' = DOMAIN heap BY <2>2
    <3>3. \A o \in DOMAIN heap : o # obj => heap'[o] = heap[o] BY <2>2
    <3>4. obj \in DOMAIN heap => heap'[obj] = [heap[obj] EXCEPT !.refs.closed = v] BY <2>2
    <3> QED BY <1>1, <1>4, <3>1, <3>2, <3>3, <3>4, ClosedHeap
  <2> QED BY <1>5, <2>1, <2>2
<1>8. StackIsSound' BY <1>1, <1>6 DEF Sound, StackIsSound
<1>9. HandIsSound'
  <2>1. \A i \in 1 .. Len(stack') : stack'[i] \subseteq DOMAIN heap BY <1>4, <1>6, SlotIsThere
  <2>2. exception' \subseteq DOMAIN heap BY <1>1, SlotIsThere DEF Held
  <2> QED BY <1>1, <1>7, <2>1, <2>2, HandLess
<1>10. ControlIsSound' BY <1>1 DEF Sound, ControlIsSound
<1> QED BY <1>1, <1>7, <1>8, <1>9, <1>10 DEF Sound, Planned

LEMMA ReturnSound ==
    ASSUME Typed, Sound, Return, IsSeq(stack'), IsSeq(frames')
    PROVE  Sound' /\ Planned'
<1> DEFINE base == Active.base
           n == Len(frames)
           answer == IF n = 1 THEN <<>> ELSE <<Peek(0)>>
<1>1. /\ frames # <<>> /\ todo = <<>> /\ Len(stack) - base - 1 > 0 /\ todo' = todo /\ local' = local
      /\ heap' = Closed(base) /\ open' = open \ Above(base - 1) /\ frames' = Front(frames)
      /\ stack' = SubSeq(stack, 1, base) \o answer
      /\ UNCHANGED <<program, allowed, phase, capacity, globals, exception, named>>
  BY DEF Return, Runs, Height, code_vars, gc_vars
<1>2. HeapIsSound(heap)' /\ Preserves(heap, heap') BY <1>1, ClosedIs
<1>3. Len(stack) \in Nat /\ DOMAIN stack = 1 .. Len(stack) BY SlotIsThere
<1>4. base \in Nat /\ base < Len(stack) BY <1>1, ActiveHeld
<1>5. /\ capacity \in Nat \ {0} /\ Len(stack) <= capacity
      /\ \A u \in open : u.slot \in Nat /\ u.slot < Len(stack)
      /\ \A i \in DOMAIN frames : frames[i].base \in Nat /\ frames[i].base < Len(stack)
      /\ \A i, j \in DOMAIN frames : i < j => frames[i].base < frames[j].base
  BY DEF Sound, StackIsSound
<1>6. n \in Nat /\ n # 0 /\ DOMAIN frames = 1 .. n /\ base = frames[n].base
  <2>1. IsSeq(frames) BY DEF Typed
  <2>2. n \in Nat /\ n # 0 /\ DOMAIN frames = 1 .. n BY <1>1, <2>1, SeqIs
  <2> QED BY <2>2 DEF Active, Last
<1>7. IsSeq(answer) /\ (n = 1 => Len(answer) = 0) /\ (n # 1 => Len(answer) = 1 /\ answer[1] = Peek(0))
  <2>1. IsSeq(<<>>) /\ Len(<<>>) = 0 BY CodeOf, CodeIsSeq
  <2>2. ASSUME NEW e PROVE IsSeq(<<e>>) /\ Len(<<e>>) = 1 /\ <<e>>[1] = e
    <3>1. <<e>> \in Seq({e}) OBVIOUS
    <3> QED BY <3>1 DEF IsSeq
  <2> QED BY <2>1, <2>2
<1> HIDE DEF base, answer
<1>8. LET s == SubSeq(stack, 1, base)
      IN  IsSeq(s) /\ Len(s) = base /\ \A i \in 1 .. base : s[i] = stack[i]
  <2>1. base <= Len(stack) BY <1>3, <1>4
  <2> QED BY <1>4, <2>1, SeqCut DEF Typed
<1>9. /\ Len(stack') = base + Len(answer)
      /\ \A i \in 1 .. base : stack'[i] = stack[i]
      /\ n # 1 => stack'[base + 1] = Peek(0)
  <2>1. PICK s : s = SubSeq(stack, 1, base) OBVIOUS
  <2>2. IsSeq(s) /\ Len(s) = base /\ \A i \in 1 .. base : s[i] = stack[i] BY <1>8, <2>1
  <2>3. stack' = s \o answer BY <1>1, <2>1
  <2>4. /\ Len(stack') = base + Len(answer) /\ \A i \in 1 .. base : stack'[i] = s[i]
        /\ \A i \in 1 .. Len(answer) : stack'[base + i] = answer[i]
    BY <1>7, <2>2, <2>3, ConcatIs
  <2>5. n # 1 => 1 \in 1 .. Len(answer) BY <1>7
  <2> QED BY <1>7, <2>2, <2>4, <2>5
<1>10. Len(stack') \in {base, base + 1}
  <2>1. Len(answer) \in {0, 1} BY <1>7
  <2>2. base + 0 = base BY <1>4
  <2> QED BY <1>9, <2>1, <2>2
<1>11. \A i \in DOMAIN frames' : i \in DOMAIN frames /\ i < n /\ frames'[i] = frames[i]
  <2>1. IsSeq(frames) BY DEF Typed
  <2>2. \A i \in DOMAIN frames' : i \in DOMAIN frames /\ frames'[i] = frames[i] BY <1>1, <2>1, SeqFront
  <2>3. Len(frames') = n - 1
    <3>1. n - 1 \in Nat /\ n - 1 <= n BY <1>6
    <3> QED BY <1>1, <2>1, <3>1, SeqCut DEF Front
  <2>4. DOMAIN frames' = 1 .. n - 1 BY <2>3, SeqIs
  <2> QED BY <1>6, <2>2, <2>4
<1>12. \A i \in DOMAIN frames' : frames'[i].base \in Nat /\ frames'[i].base < base
  <2>1. n \in DOMAIN frames BY <1>6
  <2>2. \A i \in DOMAIN frames' : frames[i].base < frames[n].base /\ frames[i].base \in Nat
    BY <1>5, <1>11, <2>1
  <2> QED BY <1>6, <1>11, <2>2
<1>13. \A u \in open' : u \in open /\ u.slot \in Nat /\ u.slot < base
  <2>1. ASSUME NEW u \in open, u \notin Above(base - 1) PROVE u.slot < base
    <3>1. ~ (u.slot > base - 1) /\ u.slot \in Nat BY <1>5, <2>1 DEF Above
    <3> QED BY <1>4, <3>1
  <2> QED BY <1>1, <1>5, <2>1
<1>14. StackIsSound'
  <2>1. Len(stack') <= capacity BY <1>3, <1>4, <1>5, <1>10
  <2>2. \A x \in Nat : x < base => x < Len(stack') BY <1>4, <1>10
  <2>3. \A i, j \in DOMAIN frames' : i < j => frames'[i].base < frames'[j].base BY <1>5, <1>11
  <2> QED BY <1>1, <1>5, <1>12, <1>13, <2>1, <2>2, <2>3 DEF StackIsSound
<1>15. HandIsSound'
  <2>1. ASSUME NEW i \in 1 .. Len(stack') PROVE stack'[i] \subseteq DOMAIN heap
    <3>1. CASE i <= base
      <4>1. i \in 1 .. base /\ i \in 1 .. Len(stack) BY <1>3, <1>4, <1>10, <3>1
      <4> QED BY <1>9, <4>1, SlotIsThere
    <3>2. CASE i > base
      <4>1. i = base + 1 /\ n # 1 BY <1>4, <1>7, <1>9, <1>10, <3>2
      <4>2. Len(stack) - 0 \in 1 .. Len(stack) BY <1>3, <1>4
      <4>3. Peek(0) \subseteq DOMAIN heap BY <4>2, SlotIsThere DEF Peek
      <4> QED BY <1>9, <4>1, <4>3
    <3>3. i <= base \/ i > base BY <1>4, <1>10
    <3> QED BY <3>1, <3>2, <3>3
  <2>2. exception' \subseteq DOMAIN heap BY <1>1, SlotIsThere DEF Held
  <2> QED BY <1>1, <1>2, <1>11, <1>13, <2>1, <2>2, HandLess
<1>16. ControlIsSound' BY <1>1 DEF Sound, ControlIsSound
<1> QED BY <1>1, <1>2, <1>14, <1>15, <1>16 DEF Sound, Planned

-----------------------------------------------------------------------------
(* The steps together. *)

LEMMA InstructionPlanned ==
    ASSUME Roomy, NamesItself, Kept, Typed, Distinct, Strung, Sound, Instruction
    PROVE  Sound' /\ Planned'
<1>0. program \in Programs BY DEF Kept
<1>1. IsSeq(stack') /\ IsSeq(frames') BY <1>0, InstructionTyped
<1>2. CASE Interpret \/ Import \/ BuildNamespace \/ Load \/ DefineGlobal \/ MakeClosure
  BY <1>2, CompilesPlanned, BuildNamespacePlanned, LoadPlanned, DefineGlobalPlanned, MakeClosurePlanned
<1>3. CASE SetVariable \/ Pop \/ Return \/ MarkHandled
  BY <1>1, <1>3, SetVariableSound, PopSound, ReturnSound, HandledSound
<1>4. CASE MakeClass \/ DefineMethod \/ InheritMethods \/ CallClosure \/ CallBound \/ CallClass
  BY <1>4, MakeClassPlanned, DefineMethodPlanned, InheritMethodsPlanned, CallClosurePlanned,
     CallBoundPlanned, CallClassPlanned
<1>5. CASE CallNative \/ CallBoundNative \/ InvokeArray \/ InvokeMethod
  BY <1>5, CallNativePlanned, ArraysPlanned, InvokeMethodPlanned
<1>6. CASE GetField \/ BindMethod \/ BindNative \/ SetField
  BY <1>6, GetFieldPlanned, BindMethodPlanned, BindNativePlanned, SetFieldPlanned
<1>7. CASE MakeArray \/ SetElement \/ ConcatenateStrings \/ ConcatenateArrays \/ IndexString
  BY <1>7, MakeArrayPlanned, SetElementPlanned, ConcatenateStringsPlanned, ConcatenateArraysPlanned,
     IndexStringPlanned
<1>8. CASE Convert \/ Fail \/ Raise BY <1>8, ConvertPlanned, FailPlanned, RaisePlanned
<1> QED BY <1>2, <1>3, <1>4, <1>5, <1>6, <1>7, <1>8 DEF Instruction

\* What every program that leaves the stack room keeps, from instruction to instruction.
Rooted == Interning /\ Sound /\ Planned

LEMMA RootedInit == Init => Rooted
<1> SUFFICES ASSUME Init PROVE Rooted OBVIOUS
<1>1. Interning BY InterningInit
<1>2. /\ DOMAIN heap = {1, 2, 3, 4} /\ todo = <<>>
      /\ \A o \in DOMAIN heap : \E type, text :
            /\ heap[o] = Object(type, text) /\ type \in {"string", "native"} /\ text \subseteq Texts
      /\ globals = [name \in {1} |-> {2}] /\ named.init_string = {3}
      /\ allowed = FALSE /\ phase = "idle" /\ stack = <<>> /\ capacity = StackInitial
      /\ frames = <<>> /\ open = {} /\ exception = {} /\ local = NoLocals
  <2>1. /\ DOMAIN heap = {1, 2, 3, 4}
        /\ heap[1] = Object("string", {NativeText}) /\ heap[2] = Object("native", {})
        /\ heap[3] = Object("string", {InitText}) /\ heap[4] = Object("string", {ModText})
    BY DEF Init
  <2>2. {NativeText, InitText, ModText} \subseteq Texts BY CollectorConstants
  <2> QED BY <2>1, <2>2 DEF Init
<1>3. HeapIsSound(heap)
  <2>1. ASSUME NEW type \in {"string", "native"}, NEW text, text \subseteq Texts
        PROVE  LET x == Object(type, text)
               IN  /\ x.type \in DOMAIN Fields /\ x.text \subseteq Texts
                   /\ DOMAIN x = {"type", "text", "refs"} /\ DOMAIN x.refs = Fields[x.type]
                   /\ Fields[x.type] = {}
    BY <2>1 DEF Object, Fields
  <2> QED BY <1>2, <2>1 DEF HeapIsSound
<1>4. DOMAIN stack = {} /\ Len(stack) = 0 /\ DOMAIN frames = {} BY <1>2
<1>5. StackIsSound BY <1>2, <1>4, CollectorConstants DEF StackIsSound
<1>6. HandIsSound
  <2>1. Held["stack"] = {}
    <3>1. UNION ToSet(stack) = {} BY <1>4 DEF ToSet
    <3> QED BY <3>1 DEF Held
  <2>2. Held["frames"] = {}
    <3>1. UNION {frames[i].closure : i \in DOMAIN frames} = {} BY <1>4
    <3> QED BY <3>1 DEF Held
  <2>3. Held["upvalues"] = {}
    <3>1. UNION {u.upvalue : u \in open} = {} BY <1>2
    <3> QED BY <3>1 DEF Held
  <2>4. Held["globals"] \subseteq {1, 2}
    <3>1. DOMAIN globals = {1} /\ \A k \in DOMAIN globals : globals[k] = {2} BY <1>2
    <3>2. UNION Range(globals) \subseteq {2} BY <3>1 DEF Range
    <3>3. DOMAIN globals \cup UNION Range(globals) \subseteq {1, 2} BY <3>1, <3>2
    <3> QED BY <3>3 DEF Held
  <2>5. Held["exception"] = {} /\ Held["names"] = {3} BY <1>2 DEF Held
  <2>6. InHand \subseteq DOMAIN heap BY <1>2, <2>1, <2>2, <2>3, <2>4, <2>5, InHandIs
  <2> QED BY <1>2, <1>4, <2>6 DEF HandIsSound
<1>7. ControlIsSound
  <2>1. local \in [Registers -> SUBSET Obj] BY <1>2 DEF NoLocals
  <2> QED BY <1>2, <2>1 DEF ControlIsSound
<1>8. Planned BY <1>2 DEF Planned
<1> QED BY <1>1, <1>3, <1>5, <1>6, <1>7, <1>8 DEF Rooted, Sound

LEMMA RootedStep == Roomy /\ NamesItself /\ Rooted /\ [Next]_vars => Rooted'
<1> SUFFICES ASSUME Roomy, NamesItself, Rooted, [Next]_vars PROVE Rooted' OBVIOUS
<1>1. /\ Interning /\ Sound /\ Planned
      /\ Kept /\ Marking /\ Typed /\ AtAllocation /\ Distinct /\ Strung
  BY DEF Rooted, Interning
<1>2. Interning' BY <1>1, InterningStep
<1>3. ASSUME Collection PROVE Sound' /\ Planned' BY <1>1, <1>3, CollectionPlanned
<1>4. ASSUME CodeStep PROVE Sound' /\ Planned' BY <1>1, <1>4, CodePlanned
<1>5. ASSUME Instruction PROVE Sound' /\ Planned' BY <1>1, <1>5, InstructionPlanned
<1>6. ASSUME UNCHANGED vars PROVE Sound' /\ Planned'
  <2>1. UNCHANGED <<program, heap_vars, allowed, program_vars, code_vars>> /\ phase' = phase
    BY <1>6 DEF vars, gc_vars
  <2>2. phase \in {"idle", "mark", "done"} /\ (phase = "mark" => allowed)
    BY <1>1 DEF Sound, ControlIsSound
  <2> QED BY <1>1, <2>1, <2>2, StillPlanned DEF Typed
<1>7. Sound' /\ Planned' BY <1>3, <1>4, <1>5, <1>6 DEF Next
<1> QED BY <1>2, <1>7 DEF Rooted

-----------------------------------------------------------------------------
(* What the properties say follows. *)

\* What the code that is left assigns before it reads it need not be there.
LEMMA OkBefore ==
    ASSUME NEW A, NEW B, NEW s, Goes(A, s, B), NEW r \in B.ok
    PROVE  r \in Alive(A, s) \/ (s.to = r /\ s.op \in Assigns)
<1>1. /\ \/ GoesQuiet(A, s, B) \/ GoesNew(A, s, B) \/ GoesIntern(A, s, B)
         \/ GoesPush(A, s, B) \/ GoesDrop(A, s, B) \/ GoesReplace(A, s, B)
         \/ GoesPut(A, s, B) \/ GoesAllow(A, s, B) \/ GoesFetch(A, s, B)
         \/ GoesDefine(A, s, B) \/ GoesEnter(A, s, B) \/ GoesLink(A, s, B)
         \/ GoesThrow(A, s, B)
  BY DEF Goes
<1>2. SameVariables(A, s, B) => r \in Alive(A, s) BY DEF SameVariables
<1>3. (\E kinds : Assigned(A, s, B, kinds)) => r \in Alive(A, s) \/ s.to = r BY DEF Assigned
<1>4. CASE GoesNew(A, s, B) BY <1>3, <1>4 DEF GoesNew, Assigns
<1>5. CASE GoesIntern(A, s, B) BY <1>3, <1>5 DEF GoesIntern, Assigns
<1>6. CASE GoesFetch(A, s, B) BY <1>3, <1>6 DEF GoesFetch, Assigns
<1>7. GoesQuiet(A, s, B) \/ GoesPush(A, s, B) \/ GoesDrop(A, s, B) => SameVariables(A, s, B)
  BY DEF GoesQuiet, GoesPush, GoesDrop
<1>8. GoesReplace(A, s, B) \/ GoesAllow(A, s, B) \/ GoesDefine(A, s, B) => SameVariables(A, s, B)
  BY DEF GoesReplace, GoesAllow, GoesDefine
<1>9. GoesEnter(A, s, B) \/ GoesLink(A, s, B) => SameVariables(A, s, B)
  BY DEF GoesEnter, GoesLink
<1>10. GoesPut(A, s, B) \/ GoesThrow(A, s, B) => r \in Alive(A, s) BY DEF GoesPut, GoesThrow
<1> QED BY <1>1, <1>2, <1>4, <1>5, <1>6, <1>7, <1>8, <1>9, <1>10

LEMMA LiveIsAlive ==
    ASSUME NEW A, NEW E, Leads(A, todo, E), NEW r \in LiveLocals
    PROVE  todo # <<>> /\ r \in Alive(A, Head(todo))
<1>1. /\ IsSeq(todo) /\ Len(todo) \in Nat /\ DOMAIN todo = 1 .. Len(todo)
      /\ todo # <<>> => Head(todo) = todo[1]
      /\ todo = <<>> <=> Len(todo) = 0
  BY SeqIs DEF Leads
<1>2. PICK p : Path(p, todo) /\ p[1] = A BY DEF Leads
<1>3. PICK i \in 1 .. Len(todo) : /\ r \in todo[i].from
                                  /\ \A j \in 1 .. i - 1 : todo[j].to # r \/ todo[j].op \notin Assigns
  BY <1>1 DEF LiveLocals
<1>4. \A j \in 1 .. Len(todo) : Goes(p[j], todo[j], p[j + 1]) BY <1>2 DEF Path
<1> DEFINE S == {j \in 1 .. i : r \in Alive(p[j], todo[j])}
<1>5. i \in S
  <2>1. r \in Alive(p[i], todo[i]) BY <1>3, <1>4, GoesIs
  <2>2. i \in 1 .. i BY <1>1
  <2> QED BY <2>1, <2>2
<1>6. S \subseteq Nat BY <1>1
<1>7. PICK m : m \in S /\ \A x \in S : m <= x BY <1>5, <1>6, MinIs
<1>8. m = 1
  <2> SUFFICES ASSUME m # 1 PROVE FALSE OBVIOUS
  <2>1. PICK k : k = m - 1 OBVIOUS
  <2>2. k \in 1 .. i /\ k \in 1 .. i - 1 /\ k + 1 = m /\ k < m /\ k \in 1 .. Len(todo)
        /\ m \in 1 .. Len(todo)
    BY <1>1, <1>7, <2>1
  <2>3. Goes(p[k], todo[k], p[m]) BY <1>4, <2>2
  <2>4. Sane(p[m]) BY <2>3, GoesIs
  <2>5. r \in p[m].ok
    <3>1. r \in Alive(p[m], todo[m]) BY <1>7
    <3> QED BY <2>4, <3>1, AliveIsOk
  <2>6. r \in Alive(p[k], todo[k]) BY <1>3, <2>2, <2>3, <2>5, OkBefore
  <2>7. k \in S BY <2>2, <2>6
  <2>8. m <= k BY <1>7, <2>7
  <2> QED BY <1>1, <2>2, <2>8
<1>9. r \in Alive(p[1], todo[1]) BY <1>7, <1>8
<1>10. todo # <<>> BY <1>1, <1>3
<1> QED BY <1>1, <1>2, <1>9, <1>10

LEMMA RootedIsKept == Rooted => InUseIsKept
<1> SUFFICES ASSUME Rooted PROVE InUseIsKept OBVIOUS
<1>1. Kept /\ HeapIsSound(heap) /\ HandIsSound /\ Planned BY DEF Rooted, Interning, Sound
<1>2. ASSUME NEW r \in LiveLocals PROVE local[r] \subseteq DOMAIN heap
  <2>1. todo # <<>> BY <1>2 DEF LiveLocals
  <2>2. PICK A, E : Leads(A, todo, E) /\ Holds(A, Alive(A, Head(todo))) BY <1>1, <2>1 DEF Planned
  <2>3. r \in Alive(A, Head(todo)) BY <1>2, <2>2, LiveIsAlive
  <2> QED BY <2>2, <2>3 DEF Holds, RegsHold
<1>3. InHand \cup Values(LiveLocals) \subseteq DOMAIN heap
  <2>1. Values(LiveLocals) \subseteq DOMAIN heap BY <1>2 DEF Values
  <2> QED BY <1>1, <2>1 DEF HandIsSound
<1>4. Near(DOMAIN heap) \subseteq DOMAIN heap
  <2>1. \A o \in DOMAIN heap : Referred(o) \subseteq DOMAIN heap
    BY <1>1 DEF Referred, HeapIsSound, FieldIsSound
  <2> QED BY <2>1 DEF Near
<1>5. IsFiniteSet(DOMAIN heap) BY <1>1, ObjIs, FS_Subset DEF Kept
<1>6. InUse \subseteq DOMAIN heap BY <1>3, <1>4, <1>5, ReachIs DEF InUse
<1> QED BY <1>6 DEF InUseIsKept

LEMMA RootedIsTyped == Rooted => TypeOK
<1> SUFFICES ASSUME Rooted PROVE TypeOK OBVIOUS
<1>1. /\ Kept /\ Marking /\ Strung /\ HeapIsSound(heap) /\ StackIsSound /\ HandIsSound /\ ControlIsSound
      /\ IsSeq(stack)
  BY DEF Rooted, Interning, Sound, Typed
<1>2. \A o \in DOMAIN heap :
          /\ heap[o].type \in DOMAIN Fields /\ heap[o].text \subseteq Texts
          /\ DOMAIN heap[o].refs = Fields[heap[o].type]
          /\ \A f \in DOMAIN heap[o].refs : heap[o].refs[f] \subseteq Obj
  BY <1>1 DEF HeapIsSound, FieldIsSound, Kept
<1>3. strings \subseteq Obj
  <2>1. strings \subseteq All BY <1>1 DEF Strung, Settled, Promised, Fresh
  <2> QED BY <1>1, <2>1 DEF All, Kept
<1>4. Near(DOMAIN heap) \subseteq DOMAIN heap
  <2>1. \A o \in DOMAIN heap : Referred(o) \subseteq DOMAIN heap
    BY <1>1 DEF Referred, HeapIsSound, FieldIsSound
  <2> QED BY <2>1 DEF Near
<1>5. marked \subseteq Obj /\ grey \subseteq marked
  <2>1. CASE phase # "mark" BY <1>1, <2>1 DEF Marking
  <2>2. CASE phase = "mark"
    <3>1. InHand \subseteq DOMAIN heap BY <1>1 DEF HandIsSound
    <3>2. marked \subseteq DOMAIN heap /\ grey \subseteq marked BY <1>1, <1>4, <2>2, <3>1 DEF Marking
    <3> QED BY <1>1, <3>2 DEF Kept
  <2> QED BY <2>1, <2>2
<1>6. allowed \in BOOLEAN /\ phase \in {"idle", "mark", "done"} /\ local \in [Registers -> SUBSET Obj]
  BY <1>1 DEF ControlIsSound
<1>7. /\ capacity \in Nat /\ Len(stack) <= capacity
      /\ \A u \in open : u.slot < Len(stack)
      /\ \A i \in DOMAIN frames : frames[i].base < Len(stack)
  BY <1>1 DEF StackIsSound
<1>8. program \in Programs /\ DOMAIN heap \subseteq Obj BY <1>1 DEF Kept
<1> QED BY <1>2, <1>3, <1>5, <1>6, <1>7, <1>8 DEF TypeOK

\* The heap, the stack and the frames are sound, and whatever the C code that is left
\* reads before it assigns it is still there, under every collection and every error.
THEOREM CodeIsRooted ==
    ASSUME Roomy, NamesItself
    PROVE  Spec => []Rooted
<1>1. Rooted /\ [Next]_vars => Rooted' BY RootedStep
<1> QED BY RootedInit, <1>1, PTL DEF Spec

\* Nothing the program or the C code that runs can still refer to is ever freed,
\* whenever an allocation collects, in every program that leaves the stack the room
\* its C code needs while collection is disabled and that has the module's own name
\* among its constants.
THEOREM NothingInUseIsFreed ==
    ASSUME Roomy, NamesItself
    PROVE  Spec => []InUseIsKept
  BY CodeIsRooted, RootedIsKept, PTL

\* The heap, the stack, the frames and the code that is left are what they should be.
THEOREM CollectorTypes ==
    ASSUME Roomy, NamesItself
    PROVE  Spec => []TypeOK
  BY CodeIsRooted, RootedIsTyped, PTL

\* A collection frees what can no longer be reached, cycles included, and no more.
THEOREM CollectionsAreExact ==
    ASSUME Roomy, NamesItself
    PROVE  Spec => CollectionIsExact
  BY NothingInUseIsFreed, MarkingIsExact, PTL
================================================================================
