--------------------------- MODULE ExceptionsProofs ---------------------------
(***************************************************************************)
(* What holds of the catch stack, the call frames and the source path of   *)
(* src/vm.c for every number of frames, try statements and catchers and    *)
(* every set of error types: no jump loses the catcher of a try statement, *)
(* and a program that leaves its try statements only at their ends and by  *)
(* exceptions has each error caught by the innermost statement that        *)
(* lists it.                                                               *)
(***************************************************************************)
EXTENDS Exceptions, OrderLemmas, SequenceTheorems, FiniteSetTheorems

(* Types. *)
Blocks == [kind : {"try", "catch"}, types : SUBSET Types, height : Nat,
           exc : Exceptions \cup {None}]

Files == Modules \cup {Main, None}

CallFrames == [blocks : Seq(Blocks), base : Nat, module : Files, saved : Files]

Catchers == [frame : Nat, depth : Nat, height : Nat, types : SUBSET Types]

FramesTyped(fs) ==
    /\ fs \in Seq(CallFrames) /\ Len(fs) <= MaxFrames
    /\ \A f \in 1 .. Len(fs) : /\ Len(fs[f].blocks) <= MaxBlocks
                               /\ (fs[f].module \in Modules => fs[f].saved \in Modules \cup {Main})

Typed ==
    /\ FramesTyped(frames) /\ height \in Nat
    /\ catchers \in Seq(Catchers) /\ Len(catchers) <= MaxCatchers
    /\ head \in Exceptions \cup {None} /\ next \in [Exceptions -> Exceptions \cup {None}]
    /\ path \in Modules \cup {Main}
    /\ status \in {"running", "done", "uncaught", "stopped", "derailed"}
    /\ (Running => frames # <<>>)

(***************************************************************************)
(* The heights of the frames and of the try statements in them rise from   *)
(* the first frame to the last, so what is left by a return or an          *)
(* exception is above what it is left for.                                 *)
(***************************************************************************)
HeightsRise(fs) ==
    \A f \in 1 .. Len(fs) :
        /\ \A d \in 1 .. Len(fs[f].blocks) :
              /\ fs[f].base < fs[f].blocks[d].height
              /\ \A i \in 1 .. d : fs[f].blocks[i].height <= fs[f].blocks[d].height
        /\ \A g \in f + 1 .. Len(fs) :
              /\ fs[f].base < fs[g].base
              /\ \A d \in 1 .. Len(fs[f].blocks) : fs[f].blocks[d].height <= fs[g].base

BelowTop(fs, h) ==
    \A f \in 1 .. Len(fs) :
        /\ fs[f].base < h
        /\ \A d \in 1 .. Len(fs[f].blocks) : fs[f].blocks[d].height <= h

(***************************************************************************)
(* A placement gives each try statement of the frames a place on the catch *)
(* stack where its catcher is, the inner ones nearer to the head. Jumps    *)
(* leave catchers behind, so places may be left over; when control leaves  *)
(* try statements only at their ends and by exceptions, none is.           *)
(***************************************************************************)
Tries(fs) == {p \in (1 .. Len(fs)) \X (1 .. MaxBlocks) :
                 p[2] <= Len(fs[p[1]].blocks) /\ fs[p[1]].blocks[p[2]].kind = "try"}

CatcherIn(fs, p) == [frame |-> p[1], depth |-> p[2] - 1,
                     height |-> fs[p[1]].blocks[p[2]].height,
                     types |-> fs[p[1]].blocks[p[2]].types]

Placed(g, fs, cs) ==
    /\ g \in [Tries(fs) -> 1 .. Len(cs)]
    /\ \A p \in Tries(fs) : cs[g[p]] = CatcherIn(fs, p)
    /\ \A p, q \in Tries(fs) : Inside(p, q) => g[p] < g[q]

FilledBy(g, fs, cs) ==
    Placed(g, fs, cs) /\ \A k \in 1 .. Len(cs) : \E p \in Tries(fs) : g[p] = k

Registered(fs, cs) == \E g \in [Tries(fs) -> 1 .. Len(cs)] : Placed(g, fs, cs)

Filled(fs, cs) == \E g \in [Tries(fs) -> 1 .. Len(cs)] : FilledBy(g, fs, cs)

\* The invariant of every program.
CatchInv ==
    /\ Typed
    /\ HeightsRise(frames) /\ BelowTop(frames, height)
    /\ (status # "derailed" => Registered(frames, catchers))

\* The invariant of the programs that leave try statements at their ends.
StructuredInv ==
    /\ (Running => Filled(frames, catchers))
    /\ (Running => head \in HandledNow \cup {None})
    /\ status \in {"running", "done", "uncaught"}
-----------------------------------------------------------------------------
(***************************************************************************)
(* What the steps do to the frames: cut them back to the first n, and the  *)
(* last of those to its first d blocks; put a block on top of those; or    *)
(* call.                                                                   *)
(***************************************************************************)
Keeps(fs, n, d, fs2) ==
    /\ n \in 1 .. Len(fs) /\ d \in 0 .. Len(fs[n].blocks)
    /\ Len(fs2) = n
    /\ \A f \in 1 .. n - 1 : fs2[f] = fs[f]
    /\ fs2[n].base = fs[n].base /\ fs2[n].module = fs[n].module /\ fs2[n].saved = fs[n].saved
    /\ \A i \in 1 .. d : fs2[n].blocks[i] = fs[n].blocks[i]

IsCut(fs, n, d, fs2) == Keeps(fs, n, d, fs2) /\ Len(fs2[n].blocks) = d

IsPut(fs, n, d, b, fs2) ==
    Keeps(fs, n, d, fs2) /\ Len(fs2[n].blocks) = d + 1 /\ fs2[n].blocks[d + 1] = b

IsCall(fs, fr, fs2) ==
    /\ Len(fs2) = Len(fs) + 1
    /\ \A f \in 1 .. Len(fs) : fs2[f] = fs[f]
    /\ fs2[Len(fs) + 1] = fr /\ fr.blocks = <<>>

\* The first n frames, with other blocks in the last of them.
WithTop(fs, n, bs) == [SubSeq(fs, 1, n) EXCEPT ![n].blocks = bs]

LEMMA TopTo ==
    ASSUME ExceptionConstants, NEW fs, FramesTyped(fs), NEW n \in 1 .. Len(fs),
           NEW bs \in Seq(Blocks), Len(bs) <= MaxBlocks
    PROVE  LET fs2 == WithTop(fs, n, bs) IN
           /\ FramesTyped(fs2) /\ Len(fs2) = n
           /\ \A f \in 1 .. n - 1 : fs2[f] = fs[f]
           /\ fs2[n].base = fs[n].base /\ fs2[n].module = fs[n].module
           /\ fs2[n].saved = fs[n].saved /\ fs2[n].blocks = bs
<1> DEFINE ft == SubSeq(fs, 1, n)
           fr == [ft[n] EXCEPT !.blocks = bs]
           fs2 == WithTop(fs, n, bs)
<1>1. fs \in Seq(CallFrames) /\ Len(fs) \in Nat /\ n \in Nat /\ n >= 1 /\ n <= Len(fs)
      /\ MaxFrames \in Nat /\ Len(fs) <= MaxFrames
  BY DEF FramesTyped, ExceptionConstants
<1>2. ft \in Seq(CallFrames) /\ Len(ft) = n /\ \A f \in 1 .. n : ft[f] = fs[f]
  BY <1>1
<1>3. ft[n] = fs[n] /\ fs[n] \in CallFrames
  BY <1>1, <1>2
<1>4. fr \in CallFrames /\ fr.base = fs[n].base /\ fr.module = fs[n].module
      /\ fr.saved = fs[n].saved /\ fr.blocks = bs
  BY <1>3 DEF CallFrames
<1>5. fs2 = [ft EXCEPT ![n] = fr]
  BY DEF WithTop
<1> HIDE DEF ft, fr, fs2
<1>6. fs2 \in Seq(CallFrames) /\ Len(fs2) = n /\ fs2[n] = fr
      /\ \A f \in 1 .. n - 1 : fs2[f] = fs[f]
  <2>1. n \in 1 .. Len(ft) BY <1>1, <1>2
  <2>2. /\ [ft EXCEPT ![n] = fr] \in Seq(CallFrames)
        /\ Len([ft EXCEPT ![n] = fr]) = Len(ft)
        /\ \A j \in 1 .. Len(ft) : [ft EXCEPT ![n] = fr][j] = IF j = n THEN fr ELSE ft[j]
    BY <1>2, <1>4, <2>1, ExceptSeq
  <2>3. /\ fs2 \in Seq(CallFrames) /\ Len(fs2) = Len(ft)
        /\ \A j \in 1 .. Len(ft) : fs2[j] = IF j = n THEN fr ELSE ft[j]
    BY <1>5, <2>2, Zenon
  <2> QED BY <1>1, <1>2, <2>3
<1>7. ASSUME NEW f \in 1 .. Len(fs2)
      PROVE  /\ Len(fs2[f].blocks) <= MaxBlocks
             /\ (fs2[f].module \in Modules => fs2[f].saved \in Modules \cup {Main})
  <2>1. CASE f = n BY <1>1, <1>4, <1>6, <2>1 DEF FramesTyped
  <2>2. CASE f # n
    <3>1. f \in 1 .. Len(fs) /\ fs2[f] = fs[f] BY <1>1, <1>6, <2>2
    <3> QED BY <3>1 DEF FramesTyped
  <2> QED BY <2>1, <2>2
<1>8. FramesTyped(fs2)
  BY <1>1, <1>6, <1>7 DEF FramesTyped
<1>9. fs2[n].base = fs[n].base /\ fs2[n].module = fs[n].module
      /\ fs2[n].saved = fs[n].saved /\ fs2[n].blocks = bs
  BY <1>4, <1>6
<1> QED BY <1>6, <1>8, <1>9 DEF fs2, ft, WithTop

\* The first d blocks of a frame.
LEMMA FirstBlocks ==
    ASSUME ExceptionConstants, NEW fs, FramesTyped(fs), NEW n \in 1 .. Len(fs),
           NEW d \in 0 .. Len(fs[n].blocks)
    PROVE  /\ fs[n].blocks \in Seq(Blocks) /\ Len(fs[n].blocks) \in Nat
           /\ Len(fs[n].blocks) <= MaxBlocks /\ MaxBlocks \in Nat
           /\ SubSeq(fs[n].blocks, 1, d) \in Seq(Blocks)
           /\ Len(SubSeq(fs[n].blocks, 1, d)) = d
           /\ \A i \in 1 .. d : SubSeq(fs[n].blocks, 1, d)[i] = fs[n].blocks[i]
<1>1. fs \in Seq(CallFrames) /\ n \in 1 .. Len(fs) /\ Len(fs[n].blocks) <= MaxBlocks
      /\ MaxBlocks \in Nat
  BY DEF FramesTyped, ExceptionConstants
<1>2. fs[n] \in CallFrames BY <1>1
<1>3. fs[n].blocks \in Seq(Blocks) BY <1>2 DEF CallFrames
<1> QED BY <1>1, <1>3

\* A frame cut back to its first d blocks.
LEMMA CutIs ==
    ASSUME ExceptionConstants, NEW fs, FramesTyped(fs), NEW n \in 1 .. Len(fs),
           NEW d \in 0 .. Len(fs[n].blocks)
    PROVE  LET fs2 == WithTop(fs, n, SubSeq(fs[n].blocks, 1, d))
           IN  FramesTyped(fs2) /\ IsCut(fs, n, d, fs2)
<1> DEFINE bs == SubSeq(fs[n].blocks, 1, d)
           fs2 == WithTop(fs, n, bs)
<1>1. /\ bs \in Seq(Blocks) /\ Len(bs) = d /\ Len(bs) <= MaxBlocks
      /\ \A i \in 1 .. d : bs[i] = fs[n].blocks[i]
  BY FirstBlocks
<1> HIDE DEF bs
<1>2. /\ FramesTyped(fs2) /\ Len(fs2) = n
      /\ \A f \in 1 .. n - 1 : fs2[f] = fs[f]
      /\ fs2[n].base = fs[n].base /\ fs2[n].module = fs[n].module
      /\ fs2[n].saved = fs[n].saved /\ fs2[n].blocks = bs
  BY <1>1, TopTo
<1> HIDE DEF fs2
<1>3. FramesTyped(fs2) /\ IsCut(fs, n, d, fs2)
  BY <1>1, <1>2 DEF IsCut, Keeps
<1> QED BY <1>3 DEF bs, fs2

\* A block put on top of its first d blocks.
LEMMA AppendBlock ==
    ASSUME ExceptionConstants, NEW fs, FramesTyped(fs), NEW n \in 1 .. Len(fs),
           NEW d \in 0 .. Len(fs[n].blocks), d < MaxBlocks, NEW b \in Blocks
    PROVE  LET bs == Append(SubSeq(fs[n].blocks, 1, d), b) IN
           /\ bs \in Seq(Blocks) /\ Len(bs) = d + 1 /\ Len(bs) <= MaxBlocks /\ bs[d + 1] = b
           /\ \A i \in 1 .. d : bs[i] = fs[n].blocks[i]
<1> DEFINE ks == SubSeq(fs[n].blocks, 1, d)
<1>1. /\ ks \in Seq(Blocks) /\ Len(ks) = d /\ MaxBlocks \in Nat
      /\ \A i \in 1 .. d : ks[i] = fs[n].blocks[i]
  BY FirstBlocks
<1> HIDE DEF ks
<1>2. LET bs == Append(ks, b) IN
      /\ bs \in Seq(Blocks) /\ Len(bs) = d + 1 /\ Len(bs) <= MaxBlocks /\ bs[d + 1] = b
      /\ \A i \in 1 .. d : bs[i] = fs[n].blocks[i]
  BY <1>1
<1> QED BY <1>2 DEF ks

LEMMA PutIs ==
    ASSUME ExceptionConstants, NEW fs, FramesTyped(fs), NEW n \in 1 .. Len(fs),
           NEW d \in 0 .. Len(fs[n].blocks), d < MaxBlocks, NEW b \in Blocks
    PROVE  LET fs2 == WithTop(fs, n, Append(SubSeq(fs[n].blocks, 1, d), b))
           IN  FramesTyped(fs2) /\ IsPut(fs, n, d, b, fs2)
<1> DEFINE bs == Append(SubSeq(fs[n].blocks, 1, d), b)
           fs2 == WithTop(fs, n, bs)
<1>1. /\ bs \in Seq(Blocks) /\ Len(bs) = d + 1 /\ Len(bs) <= MaxBlocks /\ bs[d + 1] = b
      /\ \A i \in 1 .. d : bs[i] = fs[n].blocks[i]
  BY AppendBlock
<1> HIDE DEF bs
<1>2. /\ FramesTyped(fs2) /\ Len(fs2) = n
      /\ \A f \in 1 .. n - 1 : fs2[f] = fs[f]
      /\ fs2[n].base = fs[n].base /\ fs2[n].module = fs[n].module
      /\ fs2[n].saved = fs[n].saved /\ fs2[n].blocks = bs
  BY <1>1, TopTo
<1> HIDE DEF fs2
<1>3. FramesTyped(fs2) /\ IsPut(fs, n, d, b, fs2)
  BY <1>1, <1>2 DEF IsPut, Keeps
<1> QED BY <1>3 DEF bs, fs2

\* The last frame is left.
LEMMA FrontIs ==
    ASSUME ExceptionConstants, NEW fs, FramesTyped(fs), Len(fs) > 1
    PROVE  /\ FramesTyped(Front(fs))
           /\ IsCut(fs, Len(fs) - 1, Len(fs[Len(fs) - 1].blocks), Front(fs))
<1> DEFINE n == Len(fs) - 1
           fs2 == Front(fs)
<1>1. fs \in Seq(CallFrames) /\ n \in 1 .. Len(fs) /\ n \in Nat /\ Len(fs) = n + 1
      /\ MaxFrames \in Nat /\ Len(fs) <= MaxFrames
  BY DEF FramesTyped, ExceptionConstants
<1>2. fs2 \in Seq(CallFrames) /\ Len(fs2) = n /\ \A f \in 1 .. n : fs2[f] = fs[f]
  BY <1>1 DEF Front
<1>3. Len(fs[n].blocks) \in Nat
  BY <1>1 DEF CallFrames
<1> HIDE DEF fs2
<1>4. FramesTyped(fs2)
  BY <1>1, <1>2 DEF FramesTyped
<1>5. IsCut(fs, n, Len(fs[n].blocks), fs2)
  BY <1>1, <1>2, <1>3 DEF IsCut, Keeps
<1> QED BY <1>4, <1>5 DEF fs2

\* A frame is added.
LEMMA CallIs ==
    ASSUME ExceptionConstants, NEW fs, FramesTyped(fs), Len(fs) < MaxFrames,
           NEW fr \in CallFrames, fr.blocks = <<>>,
           (fr.module \in Modules => fr.saved \in Modules \cup {Main})
    PROVE  FramesTyped(Append(fs, fr)) /\ IsCall(fs, fr, Append(fs, fr))
<1> DEFINE fs2 == Append(fs, fr)
<1>1. fs \in Seq(CallFrames) /\ Len(fs) \in Nat /\ MaxFrames \in Nat /\ MaxBlocks \in Nat
  BY DEF FramesTyped, ExceptionConstants
<1>2. /\ fs2 \in Seq(CallFrames) /\ Len(fs2) = Len(fs) + 1 /\ fs2[Len(fs) + 1] = fr
      /\ \A f \in 1 .. Len(fs) : fs2[f] = fs[f]
  BY <1>1
<1> HIDE DEF fs2
<1>3. ASSUME NEW f \in 1 .. Len(fs2)
      PROVE  /\ Len(fs2[f].blocks) <= MaxBlocks
             /\ (fs2[f].module \in Modules => fs2[f].saved \in Modules \cup {Main})
  <2>1. CASE f = Len(fs) + 1 BY <1>1, <1>2, <2>1
  <2>2. CASE f # Len(fs) + 1 BY <1>1, <1>2, <2>2 DEF FramesTyped
  <2> QED BY <2>1, <2>2
<1> QED BY <1>1, <1>2, <1>3 DEF FramesTyped, IsCall, fs2
-----------------------------------------------------------------------------
(* What each step does, with the types it keeps. *)

USE DEF Running

\* The first catcher that wants an exception (vm.c:77).
LEMMA FirstMatchIs ==
    ASSUME Typed, NEW e
    PROVE  /\ FirstMatch(e) \in 0 .. Len(catchers)
           /\ FirstMatch(e) # 0 => Matches(catchers[FirstMatch(e)].types, e)
           /\ \A i \in 1 .. Len(catchers) :
                 Matches(catchers[i].types, e) => FirstMatch(e) # 0 /\ FirstMatch(e) <= i
<1> DEFINE I == {i \in 1 .. Len(catchers) : Matches(catchers[i].types, e)}
<1>1. Len(catchers) \in Nat /\ I \subseteq 1 .. Len(catchers) /\ I \subseteq Nat
  BY DEF Typed
<1>2. FirstMatch(e) = IF I # {} THEN Min(I) ELSE 0
  BY DEF FirstMatch, SelectInSeq
<1>3. \A i \in 1 .. Len(catchers) : Matches(catchers[i].types, e) <=> i \in I
  OBVIOUS
<1> HIDE DEF I
<1>4. CASE I = {}
  BY <1>1, <1>2, <1>3, <1>4
<1>5. CASE I # {}
  <2>1. Min(I) \in I /\ \A x \in I : Min(I) <= x BY <1>1, <1>5, MinIs
  <2>2. FirstMatch(e) \in I /\ FirstMatch(e) \in 1 .. Len(catchers) BY <1>1, <1>2, <1>5, <2>1
  <2>3. \A x \in I : FirstMatch(e) <= x BY <1>2, <1>5, <2>1
  <2> QED BY <1>1, <1>3, <2>2, <2>3
<1> QED BY <1>4, <1>5

\* The frame that runs, and its blocks.
LEMMA ActiveIs ==
    ASSUME ExceptionConstants, Typed, frames # <<>>
    PROVE  /\ Len(frames) \in 1 .. Len(frames) /\ Len(frames) \in Nat
           /\ Active \in CallFrames /\ Active = frames[Len(frames)]
           /\ Active.blocks \in Seq(Blocks) /\ Len(Active.blocks) \in Nat
           /\ Len(Active.blocks) <= MaxBlocks /\ MaxBlocks \in Nat
           /\ (Active.module \in Modules => Active.saved \in Modules \cup {Main})
           /\ \A bs : SetBlocks(bs) => frames' = WithTop(frames, Len(frames), bs)
<1>1. frames \in Seq(CallFrames) /\ Len(frames) \in Nat /\ Len(frames) \in 1 .. Len(frames)
  BY DEF Typed, FramesTyped
<1>2. Active \in CallFrames /\ Active = frames[Len(frames)]
  BY <1>1 DEF Active
<1>3. Active.blocks \in Seq(Blocks)
  BY <1>2 DEF CallFrames
<1>4. Len(Active.blocks) <= MaxBlocks /\ MaxBlocks \in Nat
      /\ (Active.module \in Modules => Active.saved \in Modules \cup {Main})
  BY <1>1, <1>2 DEF Typed, FramesTyped, ExceptionConstants
<1>5. SubSeq(frames, 1, Len(frames)) = frames
  BY <1>1
<1>6. ASSUME NEW bs, SetBlocks(bs) PROVE frames' = WithTop(frames, Len(frames), bs)
  BY <1>5, <1>6 DEF SetBlocks, WithTop
<1> QED BY <1>1, <1>2, <1>3, <1>4, <1>6

\* A catcher that is live stands for a try statement of the frames.
LEMMA LiveIs ==
    ASSUME ExceptionConstants, Typed, NEW c \in Catchers, IsLive(c)
    PROVE  /\ c.frame \in 1 .. Len(frames) /\ c.depth \in 0 .. Len(frames[c.frame].blocks)
           /\ c.depth \in Nat /\ c.depth + 1 <= Len(frames[c.frame].blocks)
           /\ c.depth < MaxBlocks
           /\ <<c.frame, c.depth + 1>> \in Tries(frames)
           /\ c = CatcherIn(frames, <<c.frame, c.depth + 1>>)
<1>1. FramesTyped(frames) /\ frames \in Seq(CallFrames) /\ Len(frames) \in Nat
  BY DEF Typed, FramesTyped
<1>2. c.frame \in 1 .. Len(frames) /\ c.depth \in Nat /\ c.frame \in Nat
  BY DEF IsLive, Catchers
<1>3. Len(frames[c.frame].blocks) \in Nat /\ Len(frames[c.frame].blocks) <= MaxBlocks
      /\ MaxBlocks \in Nat
  <2>1. 0 \in Nat OBVIOUS
  <2>2. frames[c.frame] \in CallFrames BY <1>1, <1>2
  <2>3. frames[c.frame].blocks \in Seq(Blocks) BY <2>2 DEF CallFrames
  <2> QED BY <1>1, <1>2, <2>3 DEF FramesTyped, ExceptionConstants
<1>4. /\ Len(frames[c.frame].blocks) > c.depth
      /\ frames[c.frame].blocks[c.depth + 1].kind = "try"
      /\ frames[c.frame].blocks[c.depth + 1].types = c.types
      /\ frames[c.frame].blocks[c.depth + 1].height = c.height
  BY DEF IsLive
<1>5. c.depth \in 0 .. Len(frames[c.frame].blocks) /\ c.depth + 1 \in 1 .. MaxBlocks
      /\ c.depth + 1 <= Len(frames[c.frame].blocks) /\ c.depth < MaxBlocks
      /\ (c.depth + 1) - 1 = c.depth
  <2> DEFINE d == c.depth
             n == Len(frames[c.frame].blocks)
  <2>1. d \in Nat /\ n \in Nat /\ n <= MaxBlocks /\ MaxBlocks \in Nat /\ n > d
    BY <1>2, <1>3, <1>4
  <2> HIDE DEF d, n
  <2>2. d \in 0 .. n /\ d + 1 \in 1 .. MaxBlocks /\ d + 1 <= n /\ d < MaxBlocks /\ (d + 1) - 1 = d
    BY <2>1
  <2> QED BY <2>2 DEF d, n
<1>6. <<c.frame, c.depth + 1>> \in Tries(frames)
  BY <1>2, <1>4, <1>5 DEF Tries
<1>7. c = [frame |-> c.frame, depth |-> c.depth, height |-> c.height, types |-> c.types]
  BY DEF Catchers
<1>8. c = CatcherIn(frames, <<c.frame, c.depth + 1>>)
  BY <1>4, <1>5, <1>7 DEF CatcherIn
<1> QED BY <1>2, <1>5, <1>6, <1>8

\* raise (vm.c:70): nobody lists the error, or the first catcher that does is
\* stale, or it is live and its frame goes on with the catch part on top.
Caught(k, e, hs) ==
    /\ k \in 1 .. Len(catchers) /\ IsLive(catchers[k])
    /\ status' = hs /\ height' = catchers[k].height + 1
    /\ catchers' = SubSeq(catchers, k + 1, Len(catchers))
    /\ IsPut(frames, catchers[k].frame, catchers[k].depth, Handler(catchers[k].height, e), frames')

Uncaught == status' = "uncaught" /\ frames' = <<>> /\ height' = 0

Derails(k) ==
    /\ k \in 1 .. Len(catchers) /\ ~ IsLive(catchers[k])
    /\ status' = "derailed" /\ UNCHANGED <<frames, height>>

LEMMA RaiseIs ==
    ASSUME ExceptionConstants, Typed, Running, NEW e \in Exceptions,
           NEW hs \in {"running", "stopped"}, Raise(e, hs)
    PROVE  /\ Typed'
           /\ \/ FirstMatch(e) = 0 /\ Uncaught
              \/ Derails(FirstMatch(e))
              \/ Caught(FirstMatch(e), e, hs)
<1> DEFINE k == FirstMatch(e)
           c == catchers[k]
<1>1. /\ catchers \in Seq(Catchers) /\ Len(catchers) \in Nat /\ Len(catchers) <= MaxCatchers
      /\ MaxCatchers \in Nat /\ 1 <= MaxCatchers
      /\ k \in 0 .. Len(catchers) /\ k \in Nat /\ FramesTyped(frames) /\ frames # <<>>
  BY FirstMatchIs DEF Typed, ExceptionConstants
<1> HIDE DEF k
<1>2. head' \in Exceptions \cup {None} /\ next' \in [Exceptions -> Exceptions \cup {None}]
  BY DEF Raise, Typed
<1>3. path' \in Modules \cup {Main}
  BY DEF Raise, Typed
<1>4. CASE k = 0
  <2>1. /\ status' = "uncaught" /\ frames' = <<>> /\ height' = 0
        /\ catchers' = IF catchers = <<>> THEN <<>> ELSE <<FreedCatcher>>
    BY <1>4 DEF Raise, k
  <2>2. FreedCatcher \in Catchers
    BY DEF FreedCatcher, Catchers
  <2>3. catchers' \in Seq(Catchers) /\ Len(catchers') <= MaxCatchers
    BY <1>1, <2>1, <2>2
  <2>4. FramesTyped(<<>>)
    BY DEF FramesTyped, ExceptionConstants
  <2>5. Typed'
    BY <1>2, <1>3, <2>1, <2>3, <2>4 DEF Typed
  <2> QED BY <1>4, <2>1, <2>5 DEF Uncaught, k
<1>5. CASE k # 0
  <2>1. k \in 1 .. Len(catchers) /\ c \in Catchers
    BY <1>1, <1>5
  <2>2. catchers' = SubSeq(catchers, k + 1, Len(catchers))
    BY <1>5 DEF Raise, k
  <2>3. catchers' \in Seq(Catchers) /\ Len(catchers') = Len(catchers) - k
    BY <1>1, <2>1, <2>2
  <2>4. Len(catchers') <= MaxCatchers
    BY <1>1, <2>1, <2>3
  <2>5. CASE ~ IsLive(c)
    <3>1. status' = "derailed" /\ UNCHANGED <<frames, height>>
      BY <1>5, <2>5 DEF Raise, k
    <3>2. FramesTyped(frames)' /\ height' \in Nat
      BY <3>1 DEF Typed
    <3>3. Typed'
      BY <1>2, <1>3, <2>3, <2>4, <3>1, <3>2 DEF Typed
    <3> QED BY <2>1, <2>5, <3>1, <3>3 DEF Derails, k
  <2>6. CASE IsLive(c)
    <3>1. status' = hs /\ height' = c.height + 1 /\ frames' = Unwound(c, e)
      BY <1>5, <2>6 DEF Raise, k
    <3>2. /\ c.frame \in 1 .. Len(frames) /\ c.depth \in 0 .. Len(frames[c.frame].blocks)
          /\ c.depth < MaxBlocks /\ c.height \in Nat
      BY <2>1, <2>6, LiveIs DEF Catchers
    <3> DEFINE b == Handler(c.height, e)
               n == c.frame
               d == c.depth
    <3>3. b \in Blocks
      BY <3>2 DEF Handler, Blocks
    <3>4. frames' = WithTop(frames, n, Append(SubSeq(frames[n].blocks, 1, d), b))
      <4>1. frames \in Seq(CallFrames) BY <1>1 DEF FramesTyped
      <4>2. SubSeq(frames, 1, c.frame)[c.frame] = frames[c.frame]
        BY <3>2, <4>1
      <4> QED BY <3>1, <4>2 DEF Unwound, WithTop
    <3> HIDE DEF b, n, d
    <3>5. n \in 1 .. Len(frames) /\ d \in 0 .. Len(frames[n].blocks) /\ d < MaxBlocks
      BY <3>2 DEF n, d
    <3>6. FramesTyped(frames') /\ IsPut(frames, n, d, b, frames')
      BY <1>1, <3>3, <3>4, <3>5, PutIs
    <3>7. FramesTyped(frames)' /\ height' \in Nat
      BY <3>1, <3>2, <3>6
    <3>8. frames' # <<>>
      <4>1. Len(frames') = n /\ n # 0 BY <3>5, <3>6 DEF IsPut, Keeps
      <4> QED BY <4>1
    <3>9. Typed'
      BY <1>2, <1>3, <2>3, <2>4, <3>1, <3>7, <3>8 DEF Typed
    <3> QED BY <2>1, <2>2, <2>6, <3>1, <3>6, <3>9 DEF Caught, b, n, d, k
  <2> QED BY <2>5, <2>6
<1> QED BY <1>4, <1>5

\* A block is entered: its catcher is the new head of the catch stack.
LEMMA EnterTryIs ==
    ASSUME ExceptionConstants, Typed, NEW types \in CatchLists, EnterTry(types)
    PROVE  LET n == Len(frames)
               d == Len(frames[n].blocks)
               b == Try(types)
               c == [frame |-> n, depth |-> d, height |-> height, types |-> types]
           IN  /\ Typed' /\ Running /\ IsPut(frames, n, d, b, frames')
               /\ catchers' = <<c>> \o catchers
               /\ UNCHANGED <<height, head, status>>
<1> DEFINE n == Len(frames)
           d == Len(frames[n].blocks)
           b == Try(types)
           c == [frame |-> n, depth |-> d, height |-> height, types |-> types]
<1>1. /\ Running /\ d < MaxBlocks /\ Len(catchers) < MaxCatchers
      /\ SetBlocks(Append(Active.blocks, b)) /\ catchers' = <<c>> \o catchers
      /\ UNCHANGED <<height, head, next, path, status>>
  BY DEF EnterTry, Active
<1>2. frames # <<>> /\ FramesTyped(frames) /\ height \in Nat /\ types \in SUBSET Types
  BY <1>1 DEF Typed, ExceptionConstants
<1>3. /\ n \in 1 .. Len(frames) /\ n \in Nat /\ d \in Nat /\ frames[n].blocks \in Seq(Blocks)
      /\ frames' = WithTop(frames, n, Append(frames[n].blocks, b))
  BY <1>1, <1>2, ActiveIs
<1>4. b \in Blocks
  BY <1>2 DEF Try, Blocks
<1>5. c \in Catchers
  BY <1>2, <1>3 DEF Catchers
<1>6. SubSeq(frames[n].blocks, 1, d) = frames[n].blocks /\ d \in 0 .. Len(frames[n].blocks)
  BY <1>3
<1> HIDE DEF n, b, c
<1>7. FramesTyped(frames') /\ IsPut(frames, n, d, b, frames')
  BY <1>1, <1>2, <1>3, <1>4, <1>6, PutIs
<1>8. catchers' \in Seq(Catchers) /\ Len(catchers') <= MaxCatchers
  <2>1. catchers \in Seq(Catchers) /\ Len(catchers) \in Nat /\ MaxCatchers \in Nat
    BY DEF Typed, ExceptionConstants
  <2>2. catchers' \in Seq(Catchers) /\ Len(catchers') = 1 + Len(catchers)
    BY <1>1, <1>5, <2>1
  <2> QED BY <1>1, <2>1, <2>2
<1>9. frames' # <<>>
  <2>1. Len(frames') = n /\ n # 0 BY <1>3, <1>7 DEF IsPut, Keeps
  <2> QED BY <2>1
<1>10. Typed'
  BY <1>1, <1>7, <1>8, <1>9 DEF Typed
<1> QED BY <1>1, <1>7, <1>10 DEF n, b, c

\* Blocks of the frame that runs are left.
Leaves(d) ==
    /\ d \in 0 .. Len(Active.blocks) - 1
    /\ IsCut(frames, Len(frames), d, frames')

LEMMA LeavesIs ==
    ASSUME ExceptionConstants, Typed, frames # <<>>,
           NEW d, d \in 0 .. Len(Active.blocks) - 1,
           SetBlocks(SubSeq(Active.blocks, 1, d))
    PROVE  FramesTyped(frames') /\ frames' # <<>> /\ Leaves(d)
<1> DEFINE n == Len(frames)
<1>1. /\ n \in 1 .. Len(frames) /\ n \in Nat /\ Len(frames[n].blocks) \in Nat
      /\ Active = frames[n]
      /\ frames' = WithTop(frames, n, SubSeq(frames[n].blocks, 1, d))
  BY ActiveIs
<1>2. FramesTyped(frames) /\ d \in 0 .. Len(frames[n].blocks)
  BY <1>1 DEF Typed
<1> HIDE DEF n
<1>3. FramesTyped(frames') /\ IsCut(frames, n, d, frames')
  BY <1>1, <1>2, CutIs
<1>4. Len(frames') = n /\ n # 0
  BY <1>1, <1>3 DEF IsCut, Keeps
<1> QED BY <1>3, <1>4 DEF n, Leaves

\* The end of a try part or of a catch part is the end of the last block.
LEMMA LastBlock ==
    ASSUME ExceptionConstants, Typed, frames # <<>>, Active.blocks # <<>>
    PROVE  LET d == Len(Active.blocks) - 1 IN
           /\ d \in 0 .. Len(Active.blocks) - 1 /\ d + 1 = Len(Active.blocks)
           /\ Front(Active.blocks) = SubSeq(Active.blocks, 1, d)
           /\ Last(Active.blocks) = Active.blocks[d + 1]
           /\ Active.blocks[d + 1] \in Blocks
<1> DEFINE bs == Active.blocks
<1>1. bs \in Seq(Blocks) /\ Len(bs) \in Nat /\ bs # <<>>
  BY ActiveIs
<1> HIDE DEF bs
<1>2. LET d == Len(bs) - 1 IN
      /\ d \in 0 .. Len(bs) - 1 /\ d + 1 = Len(bs)
      /\ Front(bs) = SubSeq(bs, 1, d)
      /\ Last(bs) = bs[d + 1] /\ bs[d + 1] \in Blocks
  BY <1>1 DEF Front, Last
<1> QED BY <1>2 DEF bs

LEMMA LeaveTryIs ==
    ASSUME ExceptionConstants, Typed, LeaveTry
    PROVE  LET d == Len(Active.blocks) - 1 IN
           /\ Typed' /\ Running /\ Leaves(d)
           /\ Active.blocks[d + 1].kind = "try" /\ height' = Active.blocks[d + 1].height
           /\ catchers' = (IF catchers = <<>> THEN <<>> ELSE Tail(catchers))
           /\ head' = None /\ UNCHANGED <<path, status>>
<1> DEFINE d == Len(Active.blocks) - 1
<1>1. /\ Running /\ Active.blocks # <<>> /\ Last(Active.blocks).kind = "try"
      /\ SetBlocks(Front(Active.blocks)) /\ height' = Last(Active.blocks).height
      /\ catchers' = (IF catchers = <<>> THEN <<>> ELSE Tail(catchers))
      /\ head' = None /\ UNCHANGED <<next, path, status>>
  BY DEF LeaveTry
<1>2. frames # <<>> BY <1>1 DEF Typed
<1>3. /\ d \in 0 .. Len(Active.blocks) - 1
      /\ SetBlocks(SubSeq(Active.blocks, 1, d)) /\ Active.blocks[d + 1] \in Blocks
      /\ Active.blocks[d + 1].kind = "try" /\ height' = Active.blocks[d + 1].height
  BY <1>1, <1>2, LastBlock
<1> HIDE DEF d
<1>4. FramesTyped(frames') /\ frames' # <<>> /\ Leaves(d)
  BY <1>2, <1>3, LeavesIs
<1>5. height' \in Nat
  BY <1>3 DEF Blocks
<1>6. catchers' \in Seq(Catchers) /\ Len(catchers') <= MaxCatchers
  <2>1. catchers \in Seq(Catchers) /\ Len(catchers) <= MaxCatchers /\ MaxCatchers \in Nat
    BY DEF Typed, ExceptionConstants
  <2>2. CASE catchers = <<>> BY <1>1, <2>1, <2>2
  <2>3. CASE catchers # <<>> BY <1>1, <2>1, <2>3
  <2> QED BY <2>2, <2>3
<1>7. Typed'
  BY <1>1, <1>4, <1>5, <1>6 DEF Typed
<1> QED BY <1>1, <1>3, <1>4, <1>7 DEF d

LEMMA LeaveCatchIs ==
    ASSUME ExceptionConstants, Typed, LeaveCatch
    PROVE  LET d == Len(Active.blocks) - 1 IN
           /\ Typed' /\ Running /\ Leaves(d)
           /\ Active.blocks[d + 1].kind = "catch" /\ height' = Active.blocks[d + 1].height
           /\ head' = None /\ UNCHANGED <<catchers, path, status>>
<1> DEFINE d == Len(Active.blocks) - 1
<1>1. /\ Running /\ Active.blocks # <<>> /\ Last(Active.blocks).kind = "catch"
      /\ SetBlocks(Front(Active.blocks)) /\ height' = Last(Active.blocks).height
      /\ head' = None /\ UNCHANGED <<catchers, next, path, status>>
  BY DEF LeaveCatch
<1>2. frames # <<>> BY <1>1 DEF Typed
<1>3. /\ d \in 0 .. Len(Active.blocks) - 1
      /\ SetBlocks(SubSeq(Active.blocks, 1, d)) /\ Active.blocks[d + 1] \in Blocks
      /\ Active.blocks[d + 1].kind = "catch" /\ height' = Active.blocks[d + 1].height
  BY <1>1, <1>2, LastBlock
<1> HIDE DEF d
<1>4. FramesTyped(frames') /\ frames' # <<>> /\ Leaves(d)
  BY <1>2, <1>3, LeavesIs
<1>5. height' \in Nat
  BY <1>3 DEF Blocks
<1>6. Typed'
  BY <1>1, <1>4, <1>5 DEF Typed
<1> QED BY <1>1, <1>3, <1>4, <1>6 DEF d

LEMMA LeaveLoopIs ==
    ASSUME ExceptionConstants, Typed, frames # <<>>,
           NEW n \in 1 .. Len(Active.blocks), NEW h \in 1 .. MaxHeight, LeaveLoop(n, h)
    PROVE  LET d == Len(Active.blocks) - n IN
           /\ Typed' /\ Running /\ Leaves(d)
           /\ height' = h /\ h \in Floor(d) .. Active.blocks[d + 1].height
           /\ UNCHANGED <<catchers, head, path, status>>
<1> DEFINE d == Len(Active.blocks) - n
<1>1. /\ Running /\ h \in Floor(d) .. Active.blocks[d + 1].height
      /\ SetBlocks(SubSeq(Active.blocks, 1, d)) /\ height' = h
      /\ UNCHANGED <<catchers, head, next, path, status>>
  BY DEF LeaveLoop
<1>2. Len(Active.blocks) \in Nat BY ActiveIs
<1>3. d \in 0 .. Len(Active.blocks) - 1
  BY <1>2
<1> HIDE DEF d
<1>4. FramesTyped(frames') /\ frames' # <<>> /\ Leaves(d)
  BY <1>1, <1>3, LeavesIs
<1>5. height' \in Nat
  <2>1. MaxHeight \in Nat BY DEF ExceptionConstants
  <2> QED BY <1>1, <2>1
<1>6. Typed'
  BY <1>1, <1>4, <1>5 DEF Typed
<1> QED BY <1>1, <1>4, <1>6 DEF d

\* A local is declared, or the locals of a statement block are popped.
LEMMA StackIs ==
    ASSUME ExceptionConstants, Typed, Declare \/ EndBlock
    PROVE  /\ Typed' /\ Running
           /\ \/ height' = height + 1
              \/ height > Floor(Len(Active.blocks)) /\ height' = height - 1
           /\ UNCHANGED <<frames, catchers, head, path, status>>
<1>1. /\ Running /\ UNCHANGED <<frames, catchers, head, next, path, status>>
      /\ \/ height' = height + 1
         \/ height > Floor(Len(Active.blocks)) /\ height' = height - 1
  BY DEF Declare, EndBlock
<1>2. height \in Nat /\ frames # <<>> /\ FramesTyped(frames)
  BY <1>1 DEF Typed
<1>3. Floor(Len(Active.blocks)) \in Nat
  <2> DEFINE d == Len(Active.blocks)
  <2>1. Active \in CallFrames /\ d \in Nat /\ Active.blocks \in Seq(Blocks)
    BY <1>2, ActiveIs
  <2>2. Active.base \in Nat
    BY <2>1 DEF CallFrames
  <2>3. ASSUME d # 0 PROVE Active.blocks[d].height \in Nat
    <3>1. d \in 1 .. Len(Active.blocks) BY <2>1, <2>3
    <3>2. Active.blocks[d] \in Blocks BY <2>1, <3>1
    <3> QED BY <3>2 DEF Blocks
  <2> QED BY <2>1, <2>2, <2>3 DEF Floor
<1>4. height' \in Nat
  BY <1>1, <1>2, <1>3
<1>5. Typed'
  BY <1>1, <1>2, <1>4 DEF Typed
<1> QED BY <1>1, <1>5

\* A function, a module or the next line of the REPL runs in a new frame.
LEMMA CallsIs ==
    ASSUME ExceptionConstants, Typed, Len(frames) < MaxFrames,
           NEW m \in Files, NEW saved \in Files,
           (m \in Modules => saved \in Modules \cup {Main}),
           frames' = Append(frames, Frame(m, saved))
    PROVE  /\ FramesTyped(frames') /\ frames' # <<>>
           /\ IsCall(frames, Frame(m, saved), frames')
<1> DEFINE fr == Frame(m, saved)
<1>1. FramesTyped(frames) /\ height \in Nat /\ frames \in Seq(CallFrames)
  BY DEF Typed, FramesTyped
<1>2. fr \in CallFrames /\ fr.blocks = <<>> /\ fr.module = m /\ fr.saved = saved
  BY <1>1 DEF Frame, CallFrames
<1> HIDE DEF fr
<1>3. FramesTyped(Append(frames, fr)) /\ IsCall(frames, fr, Append(frames, fr))
  BY <1>1, <1>2, CallIs
<1>4. frames' = Append(frames, fr)
  BY DEF fr
<1>5. frames' # <<>>
  <2>1. Len(frames') = Len(frames) + 1 /\ Len(frames) \in Nat BY <1>1, <1>3, <1>4 DEF IsCall
  <2> QED BY <2>1
<1> QED BY <1>3, <1>4, <1>5 DEF fr

LEMMA CallActionIs ==
    ASSUME ExceptionConstants, Typed, Call
    PROVE  /\ Typed' /\ Running /\ IsCall(frames, Frame(None, None), frames')
           /\ height' = height + 1 /\ UNCHANGED <<catchers, head, path, status>>
<1>1. /\ Running /\ Len(frames) < MaxFrames /\ frames' = Append(frames, Frame(None, None))
      /\ height' = height + 1 /\ UNCHANGED <<catchers, head, next, path, status>>
  BY DEF Call
<1>2. None \in Files /\ None \notin Modules
  BY DEF Files, ExceptionConstants
<1>3. /\ FramesTyped(frames') /\ frames' # <<>> /\ IsCall(frames, Frame(None, None), frames')
  BY <1>1, <1>2, CallsIs
<1>4. Typed'
  BY <1>1, <1>3 DEF Typed
<1> QED BY <1>1, <1>3, <1>4

LEMMA ImportIs ==
    ASSUME ExceptionConstants, Typed, NEW m \in Modules, Import(m)
    PROVE  /\ Typed' /\ Running /\ IsCall(frames, Frame(m, path), frames')
           /\ height' = height + 1 /\ path' = m /\ UNCHANGED <<catchers, head, status>>
<1>1. /\ Running /\ Len(frames) < MaxFrames /\ frames' = Append(frames, Frame(m, path))
      /\ height' = height + 1 /\ path' = m /\ UNCHANGED <<catchers, head, next, status>>
  BY DEF Import
<1>2. m \in Files /\ path \in Files /\ path \in Modules \cup {Main}
  BY DEF Files, Typed
<1>3. /\ FramesTyped(frames') /\ frames' # <<>> /\ IsCall(frames, Frame(m, path), frames')
  BY <1>1, <1>2, CallsIs
<1>4. Typed'
  BY <1>1, <1>3 DEF Typed
<1> QED BY <1>1, <1>3, <1>4

LEMMA NextLineIs ==
    ASSUME ExceptionConstants, Typed, NextLine
    PROVE  /\ Typed' /\ status # "derailed" /\ IsCall(frames, Frame(Main, None), frames')
           /\ height' = height + 1 /\ status' = "running" /\ UNCHANGED <<catchers, head, path>>
<1>1. /\ status # "derailed"
      /\ Len(frames) < MaxFrames /\ frames' = Append(frames, Frame(Main, None))
      /\ height' = height + 1 /\ status' = "running"
      /\ UNCHANGED <<catchers, head, next, path>>
  BY DEF NextLine
<1>2. None \in Files /\ Main \in Files /\ Main \notin Modules
  BY DEF Files, ExceptionConstants
<1>3. /\ FramesTyped(frames') /\ frames' # <<>> /\ IsCall(frames, Frame(Main, None), frames')
  BY <1>1, <1>2, CallsIs
<1>4. Typed'
  BY <1>1, <1>3 DEF Typed
<1> QED BY <1>1, <1>3, <1>4

\* The frame that runs is left, and with the first one the run ends.
Returns ==
    /\ Len(frames) > 1 /\ status' = status /\ height' = Active.base + 1
    /\ IsCut(frames, Len(frames) - 1, Len(frames[Len(frames) - 1].blocks), frames')

Ends == Len(frames) = 1 /\ status' = "done" /\ frames' = <<>> /\ height' = 0

LEMMA ReturnIs ==
    ASSUME ExceptionConstants, Typed, Return
    PROVE  /\ Typed' /\ Running /\ (Returns \/ Ends)
           /\ path' = (IF Active.module \in Modules THEN Active.saved ELSE path)
           /\ UNCHANGED <<catchers, head>>
<1>1. /\ Running /\ path' = (IF Active.module \in Modules THEN Active.saved ELSE path)
      /\ IF Len(frames) = 1
         THEN status' = "done" /\ frames' = <<>> /\ height' = 0
         ELSE frames' = Front(frames) /\ height' = Active.base + 1 /\ UNCHANGED status
      /\ UNCHANGED <<catchers, head, next>>
  BY DEF Return
<1>2. FramesTyped(frames) /\ frames # <<>> /\ Len(frames) \in Nat /\ Len(frames) >= 1
  <2>1. FramesTyped(frames) /\ frames # <<>> BY <1>1 DEF Typed
  <2>2. Len(frames) \in Nat /\ Len(frames) \in 1 .. Len(frames) BY <2>1, ActiveIs
  <2> QED BY <2>1, <2>2
<1>3. path' \in Modules \cup {Main}
  BY <1>1, <1>2, ActiveIs DEF Typed
<1>4. CASE Len(frames) = 1
  <2>1. FramesTyped(<<>>)
    BY DEF FramesTyped, ExceptionConstants
  <2>2. Typed'
    BY <1>1, <1>3, <1>4, <2>1 DEF Typed
  <2> QED BY <1>1, <1>4, <2>2 DEF Ends
<1>5. CASE Len(frames) # 1
  <2> DEFINE n == Len(frames) - 1
  <2>1. frames' = Front(frames) /\ height' = Active.base + 1 /\ status' = status
        /\ Len(frames) > 1
    <3>1. Len(frames) > 1
      <4> DEFINE L == Len(frames)
      <4>1. L \in Nat /\ L >= 1 /\ L # 1 BY <1>2, <1>5
      <4> HIDE DEF L
      <4>2. L > 1 BY <4>1
      <4> QED BY <4>2 DEF L
    <3> QED BY <1>1, <1>5, <3>1
  <2>2. FramesTyped(frames') /\ IsCut(frames, n, Len(frames[n].blocks), frames')
    BY <1>2, <2>1, FrontIs
  <2>3. frames' # <<>>
    <3>1. Len(frames') = n /\ n # 0 BY <1>2, <2>1, <2>2 DEF IsCut, Keeps
    <3> QED BY <3>1
  <2>4. height' \in Nat
    BY <1>2, <2>1, ActiveIs DEF CallFrames
  <2>5. Typed'
    BY <1>1, <1>3, <2>1, <2>2, <2>3, <2>4 DEF Typed
  <2> QED BY <1>1, <2>1, <2>2, <2>5 DEF Returns
<1> QED BY <1>4, <1>5

\* The kinds of step. An action that raises does nothing but raise.
LEMMA NextCases ==
    ASSUME Typed, Next
    PROVE  \/ \E e \in Exceptions, hs \in {"running", "stopped"} : Running /\ Raise(e, hs)
           \/ \E types \in CatchLists : EnterTry(types)
           \/ LeaveTry
           \/ LeaveCatch
           \/ /\ frames # <<>>
              /\ \E n \in 1 .. Len(Active.blocks), h \in 1 .. MaxHeight : LeaveLoop(n, h)
           \/ Declare \/ EndBlock
           \/ Call
           \/ \E m \in Modules : Import(m)
           \/ Return
           \/ NextLine
<1>1. CASE EarlyExit
  <2>1. frames # <<>> BY <1>1 DEF EarlyExit, Typed
  <2> QED BY <1>1, <2>1 DEF EarlyExit
<1>2. CASE \E e \in Exceptions : RaiseNew(e) \/ RaiseAgain(e) \/ ImportFails(e)
  <2>1. PICK e \in Exceptions : RaiseNew(e) \/ RaiseAgain(e) \/ ImportFails(e) BY <1>2
  <2>2. Running /\ (Raise(e, "running") \/ Raise(e, "stopped"))
    BY <2>1 DEF RaiseNew, RaiseAgain, ImportFails
  <2> QED BY <2>2
<1>3. CASE Structured /\ ~ \E e \in Exceptions : RaiseNew(e) \/ RaiseAgain(e)
  BY <1>3 DEF Structured
<1> QED BY <1>1, <1>2, <1>3 DEF Next

LEMMA StructuredCases ==
    ASSUME Structured
    PROVE  \/ \E e \in Exceptions : Running /\ Raise(e, "running")
           \/ \E types \in CatchLists : EnterTry(types)
           \/ LeaveTry
           \/ LeaveCatch
           \/ Declare \/ EndBlock
           \/ Call
           \/ \E m \in Modules : Import(m)
           \/ Active.blocks = <<>> /\ Return
<1>1. CASE \E e \in Exceptions : RaiseNew(e) \/ RaiseAgain(e)
  <2>1. PICK e \in Exceptions : RaiseNew(e) \/ RaiseAgain(e) BY <1>1
  <2>2. Running /\ Raise(e, "running")
    BY <2>1 DEF RaiseNew, RaiseAgain
  <2> QED BY <2>2
<1>2. CASE ~ \E e \in Exceptions : RaiseNew(e) \/ RaiseAgain(e)
  BY <1>2 DEF Structured
<1> QED BY <1>1, <1>2

LEMMA TypedInit == ExceptionConstants /\ Init => Typed
<1> SUFFICES ASSUME ExceptionConstants, Init PROVE Typed
  OBVIOUS
<1> DEFINE fr == [blocks |-> <<>>, base |-> 0, module |-> Main, saved |-> None]
<1>1. fr \in CallFrames /\ fr.blocks = <<>> /\ fr.module = Main
  BY DEF CallFrames, Files
<1>2. frames = <<fr>>
  BY DEF Init
<1> HIDE DEF fr
<1>3. FramesTyped(frames) /\ frames # <<>>
  <2>1. frames \in Seq(CallFrames) /\ Len(frames) = 1 /\ frames[1] = fr BY <1>1, <1>2
  <2>2. 1 <= MaxFrames /\ 0 <= MaxBlocks /\ Main \notin Modules BY DEF ExceptionConstants
  <2>3. ASSUME NEW f \in 1 .. Len(frames)
        PROVE  Len(frames[f].blocks) = 0 /\ frames[f].module \notin Modules
    <3>1. f = 1 BY <2>1
    <3> QED BY <1>1, <2>1, <2>2, <3>1
  <2>4. MaxBlocks \in Nat /\ MaxFrames \in Nat BY DEF ExceptionConstants
  <2>5. \A f \in 1 .. Len(frames) :
           /\ Len(frames[f].blocks) <= MaxBlocks
           /\ (frames[f].module \in Modules => frames[f].saved \in Modules \cup {Main})
    BY <2>3, <2>4
  <2>6. Len(frames) <= MaxFrames BY <2>1, <2>2
  <2>7. FramesTyped(frames) BY <2>1, <2>5, <2>6 DEF FramesTyped
  <2>8. frames # <<>> BY <1>2
  <2> QED BY <2>7, <2>8
<1>4. /\ height = 1 /\ catchers = <<>> /\ head = None /\ path = Main /\ status = "running"
      /\ next = [e \in Exceptions |-> None]
  BY DEF Init
<1>5. Len(catchers) <= MaxCatchers
  BY <1>4 DEF ExceptionConstants
<1> QED BY <1>3, <1>4, <1>5 DEF Typed

LEMMA TypedStep == ExceptionConstants /\ Typed /\ [Next]_vars => Typed'
<1> SUFFICES ASSUME ExceptionConstants, Typed, [Next]_vars PROVE Typed'
  OBVIOUS
<1>1. CASE UNCHANGED vars
  BY <1>1 DEF vars, Typed
<1>2. CASE Next
  <2>1. CASE \E e \in Exceptions, hs \in {"running", "stopped"} : Running /\ Raise(e, hs)
    BY <2>1, RaiseIs
  <2>2. CASE \E types \in CatchLists : EnterTry(types)
    BY <2>2, EnterTryIs
  <2>3. CASE LeaveTry BY <2>3, LeaveTryIs
  <2>4. CASE LeaveCatch BY <2>4, LeaveCatchIs
  <2>5. CASE /\ frames # <<>>
             /\ \E n \in 1 .. Len(Active.blocks), h \in 1 .. MaxHeight : LeaveLoop(n, h)
    BY <2>5, LeaveLoopIs
  <2>6. CASE Declare \/ EndBlock BY <2>6, StackIs
  <2>7. CASE Call BY <2>7, CallActionIs
  <2>8. CASE \E m \in Modules : Import(m) BY <2>8, ImportIs
  <2>9. CASE Return BY <2>9, ReturnIs
  <2>10. CASE NextLine BY <2>10, NextLineIs
  <2> QED BY <1>2, <2>1, <2>2, <2>3, <2>4, <2>5, <2>6, <2>7, <2>8, <2>9, <2>10, NextCases
<1> QED BY <1>1, <1>2
-----------------------------------------------------------------------------
(* Heights. *)

\* What the types say of the numbers in the frames.
LEMMA NumbersIn ==
    ASSUME ExceptionConstants, NEW fs, FramesTyped(fs)
    PROVE  /\ Len(fs) \in Nat
           /\ \A f \in 1 .. Len(fs) :
                 /\ fs[f].base \in Nat /\ Len(fs[f].blocks) \in Nat
                 /\ \A d \in 1 .. Len(fs[f].blocks) : fs[f].blocks[d].height \in Nat
<1>1. fs \in Seq(CallFrames) /\ Len(fs) \in Nat
  BY DEF FramesTyped
<1>2. ASSUME NEW f \in 1 .. Len(fs)
      PROVE  /\ fs[f].base \in Nat /\ Len(fs[f].blocks) \in Nat
             /\ \A d \in 1 .. Len(fs[f].blocks) : fs[f].blocks[d].height \in Nat
  <2>1. fs[f] \in CallFrames BY <1>1
  <2>2. fs[f].base \in Nat /\ fs[f].blocks \in Seq(Blocks) /\ Len(fs[f].blocks) \in Nat
    BY <2>1 DEF CallFrames
  <2>3. ASSUME NEW d \in 1 .. Len(fs[f].blocks) PROVE fs[f].blocks[d].height \in Nat
    <3>1. fs[f].blocks[d] \in Blocks BY <2>2
    <3> QED BY <3>1 DEF Blocks
  <2> QED BY <2>2, <2>3
<1> QED BY <1>1, <1>2

\* Frames that are kept below one whose heights rise.
LEMMA HeightsKept ==
    ASSUME ExceptionConstants, NEW fs, FramesTyped(fs), HeightsRise(fs),
           NEW n, NEW k, NEW fs2, Keeps(fs, n, k, fs2), FramesTyped(fs2), NEW h \in Nat,
           fs[n].base < h,
           \A d \in 1 .. Len(fs2[n].blocks) :
              /\ fs[n].base < fs2[n].blocks[d].height /\ fs2[n].blocks[d].height <= h
              /\ \A i \in 1 .. d : fs2[n].blocks[i].height <= fs2[n].blocks[d].height
    PROVE  HeightsRise(fs2) /\ BelowTop(fs2, h)
<1>1. /\ n \in 1 .. Len(fs) /\ Len(fs2) = n /\ Len(fs) \in Nat /\ n \in Nat
      /\ \A f \in 1 .. n - 1 : fs2[f] = fs[f] /\ f \in 1 .. Len(fs)
      /\ fs2[n].base = fs[n].base /\ fs[n].base \in Nat
  BY NumbersIn DEF Keeps
<1>2. ASSUME NEW f \in 1 .. n - 1
      PROVE  /\ fs2[f] = fs[f] /\ fs[f].base < fs[n].base
             /\ \A d \in 1 .. Len(fs[f].blocks) : fs[f].blocks[d].height <= fs[n].base
  <2>1. f \in 1 .. Len(fs) /\ n \in f + 1 .. Len(fs) /\ fs2[f] = fs[f] BY <1>1
  <2> QED BY <2>1 DEF HeightsRise
<1>3. ASSUME NEW f \in 1 .. n - 1, NEW g \in f + 1 .. n
      PROVE  /\ fs2[f].base < fs2[g].base
             /\ \A d \in 1 .. Len(fs2[f].blocks) : fs2[f].blocks[d].height <= fs2[g].base
  <2>1. CASE g = n BY <1>1, <1>2, <2>1
  <2>2. CASE g # n
    <3>1. f \in 1 .. Len(fs) /\ g \in f + 1 .. Len(fs) /\ g \in 1 .. n - 1 BY <1>1, <2>2
    <3>2. fs2[g] = fs[g] /\ fs2[f] = fs[f] BY <1>1, <3>1
    <3> QED BY <3>1, <3>2 DEF HeightsRise
  <2> QED BY <2>1, <2>2
<1>4. ASSUME NEW f \in 1 .. n, NEW d \in 1 .. Len(fs2[f].blocks)
      PROVE  /\ fs2[f].base < fs2[f].blocks[d].height
             /\ \A i \in 1 .. d : fs2[f].blocks[i].height <= fs2[f].blocks[d].height
  <2>1. CASE f = n BY <1>1, <2>1
  <2>2. CASE f # n
    <3>1. f \in 1 .. n - 1 /\ f \in 1 .. Len(fs) /\ fs2[f] = fs[f] BY <1>1, <2>2
    <3> QED BY <3>1 DEF HeightsRise
  <2> QED BY <2>1, <2>2
<1>5. HeightsRise(fs2)
  BY <1>1, <1>3, <1>4 DEF HeightsRise
<1>6. ASSUME NEW f \in 1 .. n
      PROVE  /\ fs2[f].base < h
             /\ \A d \in 1 .. Len(fs2[f].blocks) : fs2[f].blocks[d].height <= h
  <2>1. CASE f = n BY <1>1, <2>1
  <2>2. CASE f # n
    <3>1. f \in 1 .. n - 1 /\ f \in 1 .. Len(fs) /\ fs2[f] = fs[f] BY <1>1, <2>2
    <3>2. fs[f].base \in Nat
          /\ \A d \in 1 .. Len(fs[f].blocks) : fs[f].blocks[d].height \in Nat
      BY <3>1, NumbersIn
    <3> QED BY <1>1, <1>2, <3>1, <3>2
  <2> QED BY <2>1, <2>2
<1> QED BY <1>1, <1>5, <1>6 DEF BelowTop

LEMMA HeightsCut ==
    ASSUME ExceptionConstants, NEW fs, FramesTyped(fs), HeightsRise(fs),
           NEW n, NEW k, NEW fs2, IsCut(fs, n, k, fs2), FramesTyped(fs2), NEW h \in Nat,
           fs[n].base < h, \A d \in 1 .. k : fs[n].blocks[d].height <= h
    PROVE  HeightsRise(fs2) /\ BelowTop(fs2, h)
<1>1. /\ Keeps(fs, n, k, fs2) /\ Len(fs2[n].blocks) = k /\ n \in 1 .. Len(fs)
      /\ k \in 0 .. Len(fs[n].blocks) /\ Len(fs[n].blocks) \in Nat /\ k \in Nat
      /\ \A i \in 1 .. k : fs2[n].blocks[i] = fs[n].blocks[i]
  BY NumbersIn DEF IsCut, Keeps
<1>2. ASSUME NEW d \in 1 .. k
      PROVE  /\ fs[n].base < fs2[n].blocks[d].height /\ fs2[n].blocks[d].height <= h
             /\ \A i \in 1 .. d : fs2[n].blocks[i].height <= fs2[n].blocks[d].height
  <2>1. d \in 1 .. Len(fs[n].blocks) /\ \A i \in 1 .. d : i \in 1 .. k BY <1>1
  <2> QED BY <1>1, <2>1 DEF HeightsRise
<1> QED BY <1>1, <1>2, HeightsKept

LEMMA HeightsPut ==
    ASSUME ExceptionConstants, NEW fs, FramesTyped(fs), HeightsRise(fs),
           NEW n, NEW k, NEW b, NEW fs2, IsPut(fs, n, k, b, fs2), FramesTyped(fs2), NEW h \in Nat,
           fs[n].base < b.height, b.height \in Nat, b.height <= h,
           \A d \in 1 .. k : fs[n].blocks[d].height <= b.height
    PROVE  HeightsRise(fs2) /\ BelowTop(fs2, h)
<1>1. /\ Keeps(fs, n, k, fs2) /\ Len(fs2[n].blocks) = k + 1 /\ n \in 1 .. Len(fs)
      /\ k \in 0 .. Len(fs[n].blocks) /\ Len(fs[n].blocks) \in Nat /\ k \in Nat
      /\ fs2[n].blocks[k + 1] = b /\ fs[n].base \in Nat
      /\ \A i \in 1 .. k : fs2[n].blocks[i] = fs[n].blocks[i]
  BY NumbersIn DEF IsPut, Keeps
<1>2. ASSUME NEW d \in 1 .. k + 1
      PROVE  /\ fs[n].base < fs2[n].blocks[d].height /\ fs2[n].blocks[d].height <= h
             /\ \A i \in 1 .. d : fs2[n].blocks[i].height <= fs2[n].blocks[d].height
  <2>1. CASE d = k + 1
    <3>1. fs2[n].blocks[d] = b BY <1>1, <2>1
    <3>2. ASSUME NEW i \in 1 .. d PROVE fs2[n].blocks[i].height <= b.height
      <4>1. CASE i = k + 1 BY <1>1, <4>1
      <4>2. CASE i # k + 1
        <5>1. i \in 1 .. k BY <1>1, <2>1, <4>2
        <5> QED BY <1>1, <5>1
      <4> QED BY <4>1, <4>2
    <3> QED BY <3>1, <3>2
  <2>2. CASE d # k + 1
    <3>1. d \in 1 .. Len(fs[n].blocks) /\ d \in 1 .. k /\ \A i \in 1 .. d : i \in 1 .. k
      BY <1>1, <2>2
    <3>2. fs[n].blocks[d].height \in Nat BY <1>1, <3>1, NumbersIn
    <3>3. fs[n].blocks[d].height <= b.height /\ fs2[n].blocks[d] = fs[n].blocks[d]
      BY <1>1, <3>1
    <3>4. /\ fs[n].base < fs[n].blocks[d].height
          /\ \A i \in 1 .. d : fs[n].blocks[i].height <= fs[n].blocks[d].height
      BY <1>1, <3>1 DEF HeightsRise
    <3>5. \A i \in 1 .. d : fs2[n].blocks[i] = fs[n].blocks[i] BY <1>1, <3>1
    <3>6. fs[n].blocks[d].height <= h BY <3>2, <3>3
    <3> QED BY <3>3, <3>4, <3>5, <3>6
  <2> QED BY <2>1, <2>2
<1>3. fs[n].base < h
  BY <1>1
<1> QED BY <1>1, <1>2, <1>3, HeightsKept

LEMMA HeightsCall ==
    ASSUME ExceptionConstants, NEW fs, FramesTyped(fs), HeightsRise(fs), NEW h \in Nat,
           BelowTop(fs, h), NEW fr, NEW fs2, fr.base = h, IsCall(fs, fr, fs2)
    PROVE  HeightsRise(fs2) /\ BelowTop(fs2, h + 1)
<1> DEFINE n == Len(fs) + 1
<1>1. /\ Len(fs) \in Nat /\ n \in Nat /\ Len(fs2) = n /\ fs2[n].base = h /\ fs2[n].blocks = <<>>
      /\ \A f \in 1 .. Len(fs) : fs2[f] = fs[f]
  BY NumbersIn DEF IsCall
<1>2. \A f \in 1 .. n : f = n \/ f \in 1 .. Len(fs)
  BY <1>1
<1> HIDE DEF n
<1>3. ASSUME NEW f \in 1 .. n, NEW d \in 1 .. Len(fs2[f].blocks)
      PROVE  /\ fs2[f].base < fs2[f].blocks[d].height
             /\ \A i \in 1 .. d : fs2[f].blocks[i].height <= fs2[f].blocks[d].height
  <2>1. CASE f = n BY <1>1, <2>1
  <2>2. CASE f # n BY <1>1, <1>2, <2>2 DEF HeightsRise
  <2> QED BY <2>1, <2>2
<1>4. ASSUME NEW f \in 1 .. n, NEW g \in f + 1 .. n
      PROVE  /\ fs2[f].base < fs2[g].base
             /\ \A d \in 1 .. Len(fs2[f].blocks) : fs2[f].blocks[d].height <= fs2[g].base
  <2>1. f \in 1 .. Len(fs) /\ f # n BY <1>1, <1>2
  <2>2. CASE g = n BY <1>1, <2>1, <2>2 DEF BelowTop
  <2>3. CASE g # n
    <3>1. g \in f + 1 .. Len(fs) /\ g \in 1 .. Len(fs)
      BY <1>1, <1>2, <2>1, <2>3
    <3> QED BY <1>1, <2>1, <3>1 DEF HeightsRise
  <2> QED BY <2>2, <2>3
<1>5. HeightsRise(fs2)
  BY <1>1, <1>3, <1>4 DEF HeightsRise
<1>6. ASSUME NEW f \in 1 .. n
      PROVE  /\ fs2[f].base < h + 1
             /\ \A d \in 1 .. Len(fs2[f].blocks) : fs2[f].blocks[d].height <= h + 1
  <2>1. CASE f = n BY <1>1, <2>1
  <2>2. CASE f # n
    <3>1. f \in 1 .. Len(fs) /\ fs2[f] = fs[f] BY <1>1, <1>2, <2>2
    <3>2. /\ fs[f].base \in Nat /\ fs[f].base < h
          /\ \A d \in 1 .. Len(fs[f].blocks) :
                fs[f].blocks[d].height \in Nat /\ fs[f].blocks[d].height <= h
      BY <3>1, NumbersIn DEF BelowTop
    <3> QED BY <3>1, <3>2
  <2> QED BY <2>1, <2>2
<1> QED BY <1>1, <1>5, <1>6 DEF BelowTop

\* The heights are kept by every step: what comes off the stack is above what
\* the frames and the statements that remain have put there.
Heights == HeightsRise(frames) /\ BelowTop(frames, height)

\* The active frame and the stack above it.
LEMMA TopHeights ==
    ASSUME ExceptionConstants, Typed, Heights, frames # <<>>
    PROVE  /\ Len(frames) \in Nat /\ height \in Nat
           /\ Len(frames) \in 1 .. Len(frames) /\ Active = frames[Len(frames)]
           /\ Active.base \in Nat /\ Active.base < height /\ Len(Active.blocks) \in Nat
           /\ \A d \in 1 .. Len(Active.blocks) :
                 /\ Active.blocks[d].height \in Nat /\ Active.blocks[d].height <= height
                 /\ Active.base < Active.blocks[d].height
                 /\ \A i \in 1 .. d : Active.blocks[i].height <= Active.blocks[d].height
<1>1. /\ Len(frames) \in 1 .. Len(frames) /\ Active = frames[Len(frames)]
      /\ FramesTyped(frames) /\ height \in Nat /\ Len(frames) \in Nat
  BY ActiveIs DEF Typed
<1> QED BY <1>1, NumbersIn DEF Heights, HeightsRise, BelowTop

\* A floor is what a height may not go below.
LEMMA FloorIs ==
    ASSUME ExceptionConstants, Typed, Heights, frames # <<>>, NEW d \in 0 .. Len(Active.blocks)
    PROVE  /\ Floor(d) \in Nat /\ Active.base < Floor(d)
           /\ \A i \in 1 .. d : Active.blocks[i].height <= Floor(d)
<1>1. CASE d = 0
  BY <1>1, TopHeights DEF Floor
<1>2. CASE d # 0
  <2>1. d \in 1 .. Len(Active.blocks) BY <1>2, TopHeights
  <2>2. Floor(d) = Active.blocks[d].height BY <1>2 DEF Floor
  <2> QED BY <2>1, <2>2, TopHeights
<1> QED BY <1>1, <1>2

\* Leaving blocks of the active frame, down to a height that is not below its floor.
LEMMA HeightsLeave ==
    ASSUME ExceptionConstants, Typed, Typed', Heights, frames # <<>>,
           NEW d, Leaves(d), Floor(d) <= height'
    PROVE  Heights'
<1> DEFINE n == Len(frames)
           h == height'
<1>1. /\ d \in 0 .. Len(Active.blocks) /\ Active = frames[n]
      /\ IsCut(frames, n, d, frames') /\ FramesTyped(frames) /\ FramesTyped(frames')
      /\ h \in Nat /\ HeightsRise(frames) /\ Active.base \in Nat
      /\ \A i \in 1 .. d : Active.blocks[i].height \in Nat
  BY TopHeights DEF Leaves, Typed, Heights
<1>2. /\ Floor(d) \in Nat /\ Active.base < Floor(d)
      /\ \A i \in 1 .. d : Active.blocks[i].height <= Floor(d)
  BY <1>1, FloorIs
<1>3. Floor(d) <= h OBVIOUS
<1>4. frames[n].base < h /\ \A i \in 1 .. d : frames[n].blocks[i].height <= h
  BY <1>1, <1>2, <1>3
<1> HIDE DEF n, h
<1>5. HeightsRise(frames') /\ BelowTop(frames', h)
  BY <1>1, <1>4, HeightsCut
<1> QED BY <1>5 DEF Heights, h

LEMMA HeightsStep == ExceptionConstants /\ Typed /\ Heights /\ [Next]_vars => Heights'
<1> SUFFICES ASSUME ExceptionConstants, Typed, Heights, [Next]_vars PROVE Heights'
  OBVIOUS
<1>1. CASE UNCHANGED vars
  BY <1>1 DEF vars, Heights
<1>a. Typed' BY TypedStep
<1>b. /\ FramesTyped(frames) /\ FramesTyped(frames') /\ HeightsRise(frames)
      /\ BelowTop(frames, height) /\ height \in Nat /\ height' \in Nat
      /\ (Running => frames # <<>>)
  BY <1>a DEF Typed, Heights
<1>2. ASSUME NEW e \in Exceptions, NEW hs \in {"running", "stopped"}, Running, Raise(e, hs)
      PROVE  Heights'
  <2> DEFINE k == FirstMatch(e)
  <2>1. CASE Uncaught
    BY <2>1 DEF Uncaught, Heights, HeightsRise, BelowTop
  <2>2. CASE Derails(k)
    BY <2>2 DEF Derails, Heights
  <2>3. CASE Caught(k, e, hs)
    <3> DEFINE c == catchers[k]
               n == c.frame
               d == c.depth
               b == Handler(c.height, e)
    <3>1. k \in 1 .. Len(catchers) /\ IsLive(c) /\ height' = c.height + 1
          /\ IsPut(frames, n, d, b, frames')
      BY <2>3 DEF Caught
    <3>2. c \in Catchers BY <3>1 DEF Typed
    <3>3. /\ n \in 1 .. Len(frames) /\ d \in Nat /\ d + 1 \in 1 .. Len(frames[n].blocks)
          /\ frames[n].blocks[d + 1].height = c.height /\ c.height \in Nat
      <4>1. /\ n \in 1 .. Len(frames) /\ d \in Nat /\ d + 1 <= Len(frames[n].blocks)
            /\ Len(frames[n].blocks) \in Nat
        BY <1>b, <3>1, <3>2, LiveIs, NumbersIn
      <4>2. frames[n].blocks[d + 1].height = c.height BY <3>1 DEF IsLive
      <4> QED BY <3>2, <4>1, <4>2 DEF Catchers
    <3>4. b.height = c.height BY DEF Handler
    <3> HIDE DEF c, n, d, b, k
    <3>5. /\ frames[n].base < c.height
          /\ \A i \in 1 .. d : frames[n].blocks[i].height <= c.height
      <4>1. /\ frames[n].base < frames[n].blocks[d + 1].height
            /\ \A i \in 1 .. d + 1 : frames[n].blocks[i].height <= frames[n].blocks[d + 1].height
        BY <1>b, <3>3 DEF HeightsRise
      <4> QED BY <3>3, <4>1
    <3>6. HeightsRise(frames') /\ BelowTop(frames', c.height + 1)
      <4>1. c.height + 1 \in Nat /\ b.height <= c.height + 1 /\ b.height \in Nat BY <3>3, <3>4
      <4> QED BY <1>b, <3>1, <3>4, <3>5, <4>1, HeightsPut
    <3> QED BY <3>1, <3>6 DEF Heights
  <2> QED BY <1>2, <2>1, <2>2, <2>3, RaiseIs
<1>3. ASSUME NEW types \in CatchLists, EnterTry(types) PROVE Heights'
  <2> DEFINE n == Len(frames)
             d == Len(frames[n].blocks)
             b == Try(types)
  <2>1. Running /\ IsPut(frames, n, d, b, frames') /\ height' = height
    BY <1>3, EnterTryIs
  <2>2. b.height = height BY DEF Try
  <2>3. frames[n].base < height /\ \A i \in 1 .. d : frames[n].blocks[i].height <= height
    BY <1>b, <2>1, TopHeights DEF Heights
  <2> HIDE DEF n, d, b
  <2>4. HeightsRise(frames') /\ BelowTop(frames', height)
    BY <1>b, <2>1, <2>2, <2>3, HeightsPut
  <2> QED BY <2>1, <2>4 DEF Heights
<1>4. CASE LeaveTry \/ LeaveCatch
  <2> DEFINE d == Len(Active.blocks) - 1
  <2>1. Running /\ Leaves(d) /\ height' = Active.blocks[d + 1].height
    BY <1>4, LeaveTryIs, LeaveCatchIs
  <2>2. d \in 0 .. Len(Active.blocks) /\ d + 1 = Len(Active.blocks)
        /\ d + 1 \in 1 .. Len(Active.blocks) /\ d \in Nat
    BY <1>b, <2>1, TopHeights DEF Leaves
  <2> HIDE DEF d
  <2>3. Floor(d) <= height'
    <3>1. CASE d = 0
      BY <1>b, <2>1, <2>2, <3>1, TopHeights DEF Floor
    <3>2. CASE d # 0
      <4>1. Floor(d) = Active.blocks[d].height /\ d \in 1 .. d + 1 BY <2>2, <3>2 DEF Floor
      <4> QED BY <1>b, <2>1, <2>2, <4>1, TopHeights
    <3> QED BY <3>1, <3>2
  <2> QED BY <1>a, <1>b, <2>1, <2>3, HeightsLeave
<1>5. ASSUME frames # <<>>, NEW n \in 1 .. Len(Active.blocks), NEW h \in 1 .. MaxHeight,
             LeaveLoop(n, h)
      PROVE  Heights'
  <2> DEFINE d == Len(Active.blocks) - n
  <2>1. Leaves(d) /\ height' = h /\ h \in Floor(d) .. Active.blocks[d + 1].height
    BY <1>5, LeaveLoopIs
  <2> HIDE DEF d
  <2>2. Floor(d) <= height' BY <2>1
  <2> QED BY <1>5, <1>a, <2>1, <2>2, HeightsLeave
<1>6. CASE Declare \/ EndBlock
  <2>1. Running /\ frames' = frames
        /\ \/ height' = height + 1
           \/ height > Floor(Len(Active.blocks)) /\ height' = height - 1
    BY <1>6, StackIs
  <2>2. CASE height' = height + 1
    <3>1. BelowTop(frames, height + 1) BY <1>b, NumbersIn DEF BelowTop
    <3> QED BY <1>b, <2>1, <2>2, <3>1 DEF Heights
  <2>3. CASE height > Floor(Len(Active.blocks)) /\ height' = height - 1
    <3> DEFINE n == Len(frames)
               d == Len(Active.blocks)
    <3>1. /\ d \in 0 .. Len(Active.blocks) /\ d \in Nat /\ n \in Nat /\ n \in 1 .. Len(frames)
          /\ Active = frames[n] /\ Active.base \in Nat
          /\ \A i \in 1 .. d : Active.blocks[i].height \in Nat
      BY <1>b, <2>1, TopHeights
    <3>2. /\ Floor(d) \in Nat /\ Active.base < Floor(d)
          /\ \A i \in 1 .. d : Active.blocks[i].height <= Floor(d)
      BY <1>b, <2>1, <3>1, FloorIs
    <3>3. Floor(d) < height BY <2>3
    <3> HIDE DEF n
    <3>4. /\ frames[n].base < height - 1
          /\ \A i \in 1 .. Len(frames[n].blocks) : frames[n].blocks[i].height <= height - 1
      BY <1>b, <3>1, <3>2, <3>3
    <3>5. ASSUME NEW f \in 1 .. Len(frames)
          PROVE  /\ frames[f].base < height - 1
                 /\ \A i \in 1 .. Len(frames[f].blocks) : frames[f].blocks[i].height <= height - 1
      <4>1. CASE f = n BY <3>4, <4>1
      <4>2. CASE f # n
        <5>1. n \in f + 1 .. Len(frames) BY <3>1, <4>2 DEF n
        <5>2. /\ frames[f].base < frames[n].base
              /\ \A i \in 1 .. Len(frames[f].blocks) : frames[f].blocks[i].height <= frames[n].base
          BY <1>b, <5>1 DEF HeightsRise
        <5>3. /\ frames[f].base \in Nat /\ frames[n].base \in Nat
              /\ \A i \in 1 .. Len(frames[f].blocks) : frames[f].blocks[i].height \in Nat
          BY <1>b, <3>1, NumbersIn
        <5> QED BY <1>b, <3>4, <5>2, <5>3
      <4> QED BY <4>1, <4>2
    <3>6. BelowTop(frames, height - 1) BY <3>5 DEF BelowTop
    <3> QED BY <1>b, <2>1, <2>3, <3>6 DEF Heights
  <2> QED BY <2>1, <2>2, <2>3
<1>7. ASSUME NEW m, NEW saved, IsCall(frames, Frame(m, saved), frames'), height' = height + 1
      PROVE  Heights'
  <2> DEFINE fr == Frame(m, saved)
  <2>1. fr.base = height BY DEF Frame
  <2> HIDE DEF fr
  <2>2. HeightsRise(frames') /\ BelowTop(frames', height + 1)
    <3>1. IsCall(frames, fr, frames') BY <1>7 DEF fr
    <3> QED BY <1>b, <2>1, <3>1, HeightsCall
  <2> QED BY <1>7, <2>2 DEF Heights
<1>8. CASE Call BY <1>7, <1>8, CallActionIs
<1>9. CASE \E m \in Modules : Import(m) BY <1>7, <1>9, ImportIs
<1>10. CASE NextLine BY <1>7, <1>10, NextLineIs
<1>11. CASE Return
  <2>1. Running /\ (Returns \/ Ends) BY <1>11, ReturnIs
  <2>2. CASE Ends
    BY <2>2 DEF Ends, Heights, HeightsRise, BelowTop
  <2>3. CASE Returns
    <3> DEFINE m == Len(frames)
               n == m - 1
               d == Len(frames[n].blocks)
    <3>1. /\ m > 1 /\ m \in Nat /\ height' = frames[m].base + 1 /\ frames[m].base \in Nat
          /\ IsCut(frames, n, d, frames')
      BY <1>b, <2>1, <2>3, TopHeights DEF Returns
    <3>2. n \in 1 .. Len(frames) /\ m \in n + 1 .. Len(frames)
      BY <3>1
    <3>3. /\ frames[n].base < frames[m].base
          /\ \A i \in 1 .. d : frames[n].blocks[i].height <= frames[m].base
      BY <1>b, <3>2 DEF HeightsRise
    <3>4. frames[n].base \in Nat /\ \A i \in 1 .. d : frames[n].blocks[i].height \in Nat
      BY <1>b, <3>2, NumbersIn
    <3> HIDE DEF n, d, m
    <3>5. HeightsRise(frames') /\ BelowTop(frames', frames[m].base + 1)
      <4>1. /\ frames[m].base + 1 \in Nat /\ frames[n].base < frames[m].base + 1
            /\ \A i \in 1 .. d : frames[n].blocks[i].height <= frames[m].base + 1
        BY <3>1, <3>3, <3>4
      <4> QED BY <1>b, <3>1, <4>1, HeightsCut
    <3> QED BY <3>1, <3>5 DEF Heights
  <2> QED BY <2>1, <2>2, <2>3
<1>12. CASE Next
  BY <1>2, <1>3, <1>4, <1>5, <1>6, <1>8, <1>9, <1>10, <1>11, <1>12, NextCases
<1> QED BY <1>1, <1>12
-----------------------------------------------------------------------------
(* Try statements and their places on the catch stack. *)

\* The statements that are not left when frames are cut back to n and its blocks to d.
Below(p, n, d) == p[1] < n \/ (p[1] = n /\ p[2] <= d)

LEMMA TryIs ==
    ASSUME ExceptionConstants, NEW fs, FramesTyped(fs), NEW p \in Tries(fs)
    PROVE  /\ p = <<p[1], p[2]>> /\ p[1] \in 1 .. Len(fs) /\ p[1] \in Nat /\ p[2] \in Nat
           /\ p[2] \in 1 .. MaxBlocks /\ p[2] \in 1 .. Len(fs[p[1]].blocks)
           /\ fs[p[1]].blocks[p[2]].kind = "try" /\ fs[p[1]].blocks[p[2]] \in Blocks
<1>1. /\ p \in (1 .. Len(fs)) \X (1 .. MaxBlocks) /\ p[2] <= Len(fs[p[1]].blocks)
      /\ fs[p[1]].blocks[p[2]].kind = "try"
  BY DEF Tries
<1>2. p = <<p[1], p[2]>> /\ p[1] \in 1 .. Len(fs) /\ p[2] \in 1 .. MaxBlocks
  BY <1>1
<1>3. Len(fs) \in Nat /\ Len(fs[p[1]].blocks) \in Nat /\ MaxBlocks \in Nat
  BY <1>2, NumbersIn DEF ExceptionConstants
<1>4. p[1] \in Nat /\ p[2] \in Nat /\ p[2] \in 1 .. Len(fs[p[1]].blocks)
  BY <1>1, <1>2, <1>3
<1>5. fs[p[1]].blocks[p[2]] \in Blocks
  <2>1. fs \in Seq(CallFrames) BY DEF FramesTyped
  <2>2. fs[p[1]] \in CallFrames BY <1>2, <2>1
  <2>3. fs[p[1]].blocks \in Seq(Blocks) BY <2>2 DEF CallFrames
  <2> QED BY <1>4, <2>3
<1> QED BY <1>1, <1>2, <1>4, <1>5

\* Of two try statements, one is inside of the other.
LEMMA TriesNest ==
    ASSUME ExceptionConstants, NEW fs, FramesTyped(fs), NEW p \in Tries(fs), NEW q \in Tries(fs)
    PROVE  /\ p = q \/ Inside(p, q) \/ Inside(q, p)
           /\ CatcherIn(fs, p) = CatcherIn(fs, q) => p = q
           /\ CatcherIn(fs, p) \in Catchers
<1>1. /\ p = <<p[1], p[2]>> /\ p[1] \in Nat /\ p[2] \in Nat /\ p[2] \in 1 .. MaxBlocks
      /\ q = <<q[1], q[2]>> /\ q[1] \in Nat /\ q[2] \in Nat /\ q[2] \in 1 .. MaxBlocks
      /\ fs[p[1]].blocks[p[2]] \in Blocks
  BY TryIs
<1>2. p[1] = q[1] /\ p[2] = q[2] => p = q
  BY <1>1
<1>3. p = q \/ Inside(p, q) \/ Inside(q, p)
  BY <1>1, <1>2 DEF Inside
<1>4. ASSUME CatcherIn(fs, p) = CatcherIn(fs, q) PROVE p = q
  <2>1. p[1] = q[1] /\ p[2] - 1 = q[2] - 1 BY <1>4 DEF CatcherIn
  <2> QED BY <1>1, <1>2, <2>1
<1>5. CatcherIn(fs, p) \in Catchers
  <2>1. p[2] - 1 \in Nat BY <1>1
  <2> QED BY <1>1, <2>1 DEF CatcherIn, Catchers, Blocks
<1> QED BY <1>3, <1>4, <1>5

LEMMA TriesKept ==
    ASSUME ExceptionConstants, NEW fs, FramesTyped(fs), NEW n, NEW d, NEW fs2,
           Keeps(fs, n, d, fs2), FramesTyped(fs2), d <= Len(fs2[n].blocks), NEW p, Below(p, n, d)
    PROVE  /\ p \in Tries(fs) <=> p \in Tries(fs2)
           /\ p \in Tries(fs) => CatcherIn(fs2, p) = CatcherIn(fs, p)
<1>1. /\ n \in 1 .. Len(fs) /\ Len(fs) \in Nat /\ Len(fs2) = n /\ n \in Nat
      /\ d \in Nat /\ d \in 0 .. Len(fs[n].blocks) /\ Len(fs[n].blocks) \in Nat
      /\ Len(fs2[n].blocks) \in Nat /\ MaxBlocks \in Nat
      /\ \A f \in 1 .. n - 1 : fs2[f] = fs[f]
      /\ \A i \in 1 .. d : fs2[n].blocks[i] = fs[n].blocks[i]
  BY NumbersIn DEF Keeps, ExceptionConstants
<1>2. ASSUME p[1] \in Nat, p[2] \in Nat, p[1] >= 1, p[2] >= 1
      PROVE  /\ p[1] <= Len(fs) /\ p[1] <= Len(fs2)
             /\ p[2] <= Len(fs[p[1]].blocks) <=> p[2] <= Len(fs2[p[1]].blocks)
             /\ p[2] <= Len(fs[p[1]].blocks) => fs[p[1]].blocks[p[2]] = fs2[p[1]].blocks[p[2]]
  <2>1. CASE p[1] < n
    <3>1. p[1] \in 1 .. n - 1 /\ p[1] <= Len(fs) /\ p[1] <= Len(fs2) BY <1>1, <1>2, <2>1
    <3>2. fs2[p[1]] = fs[p[1]] BY <1>1, <3>1
    <3> QED BY <3>1, <3>2
  <2>2. CASE p[1] = n /\ p[2] <= d BY <1>1, <1>2, <2>2
  <2> QED BY <2>1, <2>2 DEF Below
<1>3. ASSUME p \in Tries(fs)
      PROVE  p \in Tries(fs2) /\ CatcherIn(fs2, p) = CatcherIn(fs, p)
  <2>1. /\ p = <<p[1], p[2]>> /\ p[1] \in 1 .. Len(fs) /\ p[1] \in Nat /\ p[2] \in Nat
        /\ p[2] \in 1 .. MaxBlocks /\ p[2] \in 1 .. Len(fs[p[1]].blocks)
        /\ fs[p[1]].blocks[p[2]].kind = "try"
    BY <1>3, TryIs
  <2>2. /\ p[1] \in 1 .. Len(fs2) /\ p[2] <= Len(fs2[p[1]].blocks)
        /\ fs[p[1]].blocks[p[2]] = fs2[p[1]].blocks[p[2]]
    BY <1>1, <1>2, <2>1
  <2> QED BY <2>1, <2>2 DEF Tries, CatcherIn
<1>4. ASSUME p \in Tries(fs2) PROVE p \in Tries(fs)
  <2>1. /\ p = <<p[1], p[2]>> /\ p[1] \in 1 .. Len(fs2) /\ p[1] \in Nat /\ p[2] \in Nat
        /\ p[2] \in 1 .. MaxBlocks /\ p[2] \in 1 .. Len(fs2[p[1]].blocks)
        /\ fs2[p[1]].blocks[p[2]].kind = "try"
    BY <1>4, TryIs
  <2>2. /\ p[1] \in 1 .. Len(fs) /\ p[2] <= Len(fs[p[1]].blocks)
        /\ fs[p[1]].blocks[p[2]] = fs2[p[1]].blocks[p[2]]
    BY <1>1, <1>2, <2>1
  <2> QED BY <2>1, <2>2 DEF Tries
<1> QED BY <1>3, <1>4

LEMMA TriesCut ==
    ASSUME ExceptionConstants, NEW fs, FramesTyped(fs), NEW n, NEW d, NEW fs2,
           IsCut(fs, n, d, fs2), FramesTyped(fs2)
    PROVE  /\ Tries(fs2) = {p \in Tries(fs) : Below(p, n, d)}
           /\ \A p \in Tries(fs2) : CatcherIn(fs2, p) = CatcherIn(fs, p)
<1>1. /\ Keeps(fs, n, d, fs2) /\ Len(fs2[n].blocks) = d /\ Len(fs2) = n /\ n \in Nat /\ d \in Nat
  BY NumbersIn DEF IsCut, Keeps
<1>2. d <= Len(fs2[n].blocks) BY <1>1
<1>3. ASSUME NEW p \in Tries(fs2) PROVE Below(p, n, d)
  <2>1. p[1] \in 1 .. Len(fs2) /\ p[2] \in 1 .. Len(fs2[p[1]].blocks) BY TryIs
  <2> QED BY <1>1, <2>1 DEF Below
<1> QED BY <1>1, <1>2, <1>3, TriesKept

LEMMA TriesPut ==
    ASSUME ExceptionConstants, NEW fs, FramesTyped(fs), NEW n, NEW d, NEW b, NEW fs2,
           IsPut(fs, n, d, b, fs2), FramesTyped(fs2), NEW p0, p0 = <<n, d + 1>>
    PROVE  /\ b.kind = "catch" => Tries(fs2) = {p \in Tries(fs) : Below(p, n, d)}
           /\ b.kind = "try" =>
                 Tries(fs2) = {p \in Tries(fs) : Below(p, n, d)} \cup {p0}
           /\ ~ Below(p0, n, d)
           /\ \A p \in Tries(fs2) : Below(p, n, d) => CatcherIn(fs2, p) = CatcherIn(fs, p)
           /\ CatcherIn(fs2, p0) =
                 [frame |-> n, depth |-> d, height |-> b.height, types |-> b.types]
<1>1. /\ Keeps(fs, n, d, fs2) /\ Len(fs2[n].blocks) = d + 1 /\ Len(fs2) = n /\ n \in Nat
      /\ d \in Nat /\ n \in 1 .. Len(fs2) /\ fs2[n].blocks[d + 1] = b /\ MaxBlocks \in Nat
      /\ d + 1 <= MaxBlocks
  <2>1. Keeps(fs, n, d, fs2) /\ Len(fs2[n].blocks) = d + 1 /\ fs2[n].blocks[d + 1] = b
    BY DEF IsPut
  <2>2. Len(fs2) = n /\ n \in 1 .. Len(fs) /\ d \in 0 .. Len(fs[n].blocks) BY <2>1 DEF Keeps
  <2>3. Len(fs) \in Nat /\ Len(fs[n].blocks) \in Nat BY <2>2, NumbersIn
  <2>4. n \in Nat /\ d \in Nat /\ n \in 1 .. Len(fs2) BY <2>2, <2>3
  <2>5. Len(fs2[n].blocks) <= MaxBlocks /\ MaxBlocks \in Nat
    BY <2>4 DEF FramesTyped, ExceptionConstants
  <2> QED BY <2>1, <2>2, <2>4, <2>5
<1>2. d <= Len(fs2[n].blocks) BY <1>1
<1>3. \A p : Below(p, n, d) =>
         /\ p \in Tries(fs) <=> p \in Tries(fs2)
         /\ p \in Tries(fs) => CatcherIn(fs2, p) = CatcherIn(fs, p)
  BY <1>1, <1>2, TriesKept
<1>4. ASSUME NEW p \in Tries(fs2) PROVE Below(p, n, d) \/ p = <<n, d + 1>>
  <2>1. p[1] \in 1 .. Len(fs2) /\ p[2] \in 1 .. Len(fs2[p[1]].blocks) /\ p = <<p[1], p[2]>>
    BY TryIs
  <2>2. CASE p[1] = n
    <3>1. p[2] \in 1 .. d + 1 BY <1>1, <2>1, <2>2
    <3>2. p[2] <= d \/ p[2] = d + 1 BY <1>1, <3>1
    <3> QED BY <2>1, <2>2, <3>2 DEF Below
  <2>3. CASE p[1] # n BY <1>1, <2>1, <2>3 DEF Below
  <2> QED BY <2>2, <2>3
<1>5. <<n, d + 1>> \in Tries(fs2) <=> b.kind = "try"
  <2>1. <<n, d + 1>>[1] = n /\ <<n, d + 1>>[2] = d + 1
        /\ <<n, d + 1>> \in (1 .. Len(fs2)) \X (1 .. MaxBlocks)
    BY <1>1
  <2> QED BY <1>1, <2>1 DEF Tries
<1>6. ~ Below(<<n, d + 1>>, n, d)
  BY <1>1 DEF Below
<1>7. CatcherIn(fs2, <<n, d + 1>>) =
         [frame |-> n, depth |-> d, height |-> b.height, types |-> b.types]
  <2>1. (d + 1) - 1 = d BY <1>1
  <2> QED BY <1>1, <2>1 DEF CatcherIn
<1> QED BY <1>3, <1>4, <1>5, <1>6, <1>7

LEMMA TriesPutCatch ==
    ASSUME ExceptionConstants, NEW fs, FramesTyped(fs), NEW n, NEW d, NEW b, NEW fs2,
           IsPut(fs, n, d, b, fs2), FramesTyped(fs2), b.kind = "catch"
    PROVE  /\ Tries(fs2) = {p \in Tries(fs) : Below(p, n, d)}
           /\ \A p \in Tries(fs2) : CatcherIn(fs2, p) = CatcherIn(fs, p)
<1> DEFINE p0 == <<n, d + 1>>
<1>1. p0 = <<n, d + 1>> OBVIOUS
<1> HIDE DEF p0
<1>2. Tries(fs2) = {p \in Tries(fs) : Below(p, n, d)}
  BY <1>1, TriesPut
<1>3. \A p \in Tries(fs2) : Below(p, n, d) => CatcherIn(fs2, p) = CatcherIn(fs, p)
  BY <1>1, TriesPut
<1> QED BY <1>2, <1>3

LEMMA TriesCall ==
    ASSUME ExceptionConstants, NEW fs, FramesTyped(fs), NEW fr, NEW fs2,
           IsCall(fs, fr, fs2), FramesTyped(fs2)
    PROVE  /\ Tries(fs2) = Tries(fs)
           /\ \A p \in Tries(fs2) : CatcherIn(fs2, p) = CatcherIn(fs, p)
<1>1. /\ Len(fs) \in Nat /\ Len(fs2) = Len(fs) + 1 /\ fs2[Len(fs) + 1].blocks = <<>>
      /\ \A f \in 1 .. Len(fs) : fs2[f] = fs[f] /\ f \in 1 .. Len(fs2)
  BY NumbersIn DEF IsCall
<1>2. ASSUME NEW p \in Tries(fs2) PROVE p \in Tries(fs) /\ CatcherIn(fs2, p) = CatcherIn(fs, p)
  <2>1. /\ p = <<p[1], p[2]>> /\ p[1] \in 1 .. Len(fs2) /\ p[2] \in 1 .. MaxBlocks
        /\ p[2] \in Nat /\ p[2] \in 1 .. Len(fs2[p[1]].blocks)
        /\ fs2[p[1]].blocks[p[2]].kind = "try"
    BY TryIs
  <2>2. p[1] # Len(fs) + 1 BY <1>1, <2>1
  <2>3. p[1] \in 1 .. Len(fs) /\ fs2[p[1]] = fs[p[1]] BY <1>1, <2>1, <2>2
  <2> QED BY <2>1, <2>3 DEF Tries, CatcherIn
<1>3. ASSUME NEW p \in Tries(fs) PROVE p \in Tries(fs2)
  <2>1. /\ p = <<p[1], p[2]>> /\ p[1] \in 1 .. Len(fs) /\ p[2] \in 1 .. MaxBlocks
        /\ p[2] \in Nat /\ p[2] \in 1 .. Len(fs[p[1]].blocks)
        /\ fs[p[1]].blocks[p[2]].kind = "try"
    BY TryIs
  <2> QED BY <1>1, <2>1 DEF Tries
<1> QED BY <1>2, <1>3

\* Catchers are freed from the head of the stack, and statements are left with
\* them: those that remain had their places below.
LEMMA PlacesShift ==
    ASSUME ExceptionConstants, NEW fs, NEW fs2, NEW cs \in Seq(Catchers), NEW k \in 0 .. Len(cs),
           NEW g, Placed(g, fs, cs),
           Tries(fs2) \subseteq Tries(fs),
           \A p \in Tries(fs2) : g[p] > k /\ CatcherIn(fs2, p) = CatcherIn(fs, p)
    PROVE  LET cs2 == SubSeq(cs, k + 1, Len(cs)) IN
           /\ Registered(fs2, cs2)
           /\ FilledBy(g, fs, cs) /\ (\A p \in Tries(fs) : g[p] > k => p \in Tries(fs2))
                 => Filled(fs2, cs2)
<1> DEFINE cs2 == SubSeq(cs, k + 1, Len(cs))
           g2 == [p \in Tries(fs2) |-> g[p] - k]
<1>1. /\ Len(cs) \in Nat /\ k \in Nat /\ k <= Len(cs)
      /\ Len(cs2) = Len(cs) - k /\ Len(cs2) \in Nat
      /\ \A i \in 1 .. Len(cs2) : cs2[i] = cs[i + k]
  OBVIOUS
<1>2. /\ \A p \in Tries(fs) : g[p] \in 1 .. Len(cs) /\ g[p] \in Nat /\ cs[g[p]] = CatcherIn(fs, p)
      /\ \A p, q \in Tries(fs) : Inside(p, q) => g[p] < g[q]
  BY <1>1 DEF Placed
<1> HIDE DEF cs2
<1>3. ASSUME NEW p \in Tries(fs2)
      PROVE  /\ g[p] - k \in 1 .. Len(cs2) /\ cs2[g[p] - k] = CatcherIn(fs2, p)
             /\ p \in Tries(fs) /\ g[p] \in Nat /\ g[p] \in k + 1 .. Len(cs)
  <2>1. p \in Tries(fs) /\ g[p] \in Nat /\ g[p] \in k + 1 .. Len(cs) BY <1>1, <1>2
  <2>2. g[p] - k \in 1 .. Len(cs2) /\ (g[p] - k) + k = g[p] BY <1>1, <2>1
  <2>3. cs2[g[p] - k] = cs[g[p]] BY <1>1, <2>2
  <2> QED BY <1>2, <2>1, <2>2, <2>3
<1>4. g2 \in [Tries(fs2) -> 1 .. Len(cs2)] /\ \A p \in Tries(fs2) : g2[p] = g[p] - k
  BY <1>3
<1>5. ASSUME NEW p \in Tries(fs2), NEW q \in Tries(fs2), Inside(p, q) PROVE g2[p] < g2[q]
  BY <1>1, <1>2, <1>3, <1>4, <1>5
<1> HIDE DEF g2
<1>6. Placed(g2, fs2, cs2)
  BY <1>3, <1>4, <1>5 DEF Placed
<1>7. Registered(fs2, cs2)
  BY <1>4, <1>6 DEF Registered
<1>8. ASSUME FilledBy(g, fs, cs), \A p \in Tries(fs) : g[p] > k => p \in Tries(fs2)
      PROVE  Filled(fs2, cs2)
  <2>1. ASSUME NEW i \in 1 .. Len(cs2) PROVE \E p \in Tries(fs2) : g2[p] = i
    <3>1. i + k \in 1 .. Len(cs) /\ i + k > k /\ (i + k) - k = i BY <1>1
    <3>2. PICK p \in Tries(fs) : g[p] = i + k BY <1>8, <3>1 DEF FilledBy
    <3>3. p \in Tries(fs2) BY <1>8, <3>1, <3>2
    <3> QED BY <1>4, <3>1, <3>2, <3>3
  <2> QED BY <1>4, <1>6, <2>1 DEF Filled, FilledBy
<1> QED BY <1>7, <1>8 DEF cs2

\* A statement is entered: it takes the place at the head, the others move down.
LEMMA PlacesGrow ==
    ASSUME ExceptionConstants, NEW fs, NEW fs2, NEW cs \in Seq(Catchers), NEW c \in Catchers,
           NEW g, Placed(g, fs, cs), NEW p0, p0 \notin Tries(fs),
           Tries(fs2) = Tries(fs) \cup {p0}, CatcherIn(fs2, p0) = c,
           \A p \in Tries(fs) :
              /\ CatcherIn(fs2, p) = CatcherIn(fs, p)
              /\ Inside(p0, p) /\ ~ Inside(p, p0),
           ~ Inside(p0, p0)
    PROVE  LET cs2 == <<c>> \o cs IN
           Registered(fs2, cs2) /\ (FilledBy(g, fs, cs) => Filled(fs2, cs2))
<1> DEFINE cs2 == <<c>> \o cs
           g2 == [p \in Tries(fs2) |-> IF p = p0 THEN 1 ELSE g[p] + 1]
<1>1. /\ Len(cs) \in Nat /\ Len(cs2) = Len(cs) + 1 /\ cs2[1] = c
      /\ \A i \in 1 .. Len(cs) : cs2[i + 1] = cs[i]
  OBVIOUS
<1>2. /\ \A p \in Tries(fs) : g[p] \in 1 .. Len(cs) /\ g[p] \in Nat /\ cs[g[p]] = CatcherIn(fs, p)
      /\ \A p, q \in Tries(fs) : Inside(p, q) => g[p] < g[q]
  BY <1>1 DEF Placed
<1> HIDE DEF cs2
<1>3. p0 \in Tries(fs2) /\ g2[p0] = 1 /\ 1 \in 1 .. Len(cs2)
  BY <1>1
<1>4. ASSUME NEW p \in Tries(fs)
      PROVE  /\ p \in Tries(fs2) /\ g2[p] = g[p] + 1 /\ g[p] + 1 \in 1 .. Len(cs2)
             /\ cs2[g[p] + 1] = CatcherIn(fs2, p)
  BY <1>1, <1>2
<1>5. ASSUME NEW p \in Tries(fs2) PROVE p = p0 \/ p \in Tries(fs)
  OBVIOUS
<1>6. g2 \in [Tries(fs2) -> 1 .. Len(cs2)]
  <2>1. ASSUME NEW p \in Tries(fs2)
        PROVE  (IF p = p0 THEN 1 ELSE g[p] + 1) \in 1 .. Len(cs2)
    BY <1>3, <1>4, <1>5
  <2> QED BY <2>1
<1> HIDE DEF g2
<1>7. ASSUME NEW p \in Tries(fs2) PROVE cs2[g2[p]] = CatcherIn(fs2, p)
  <2>1. CASE p = p0 BY <1>1, <1>3, <2>1
  <2>2. CASE p # p0 BY <1>4, <1>5, <2>2
  <2> QED BY <2>1, <2>2
<1>8. ASSUME NEW p \in Tries(fs2), NEW q \in Tries(fs2), Inside(p, q) PROVE g2[p] < g2[q]
  <2>1. CASE p = p0
    <3>1. q \in Tries(fs) BY <1>5, <1>8, <2>1
    <3> QED BY <1>2, <1>3, <1>4, <2>1, <3>1
  <2>2. CASE p # p0
    <3>1. p \in Tries(fs) /\ q \in Tries(fs) BY <1>5, <1>8, <2>2
    <3> QED BY <1>2, <1>4, <1>8, <3>1
  <2> QED BY <2>1, <2>2
<1>9. Placed(g2, fs2, cs2)
  BY <1>6, <1>7, <1>8 DEF Placed
<1>10. Registered(fs2, cs2)
  BY <1>6, <1>9 DEF Registered
<1>11. ASSUME FilledBy(g, fs, cs) PROVE Filled(fs2, cs2)
  <2>1. ASSUME NEW i \in 1 .. Len(cs2) PROVE \E p \in Tries(fs2) : g2[p] = i
    <3>1. CASE i = 1 BY <1>3, <3>1
    <3>2. CASE i # 1
      <4>1. i - 1 \in 1 .. Len(cs) /\ (i - 1) + 1 = i BY <1>1, <3>2
      <4>2. PICK p \in Tries(fs) : g[p] = i - 1 BY <1>11, <4>1 DEF FilledBy
      <4> QED BY <1>4, <4>1, <4>2
    <3> QED BY <3>1, <3>2
  <2> QED BY <1>6, <1>9, <2>1 DEF Filled, FilledBy
<1> QED BY <1>10, <1>11 DEF cs2

\* Frames are cut back and the catch stack stays as it is.
LEMMA PlacesCut ==
    ASSUME ExceptionConstants, Typed, FramesTyped(frames'), catchers' = catchers,
           NEW n, NEW d, IsCut(frames, n, d, frames'), NEW g, Placed(g, frames, catchers)
    PROVE  /\ Registered(frames', catchers')
           /\ FilledBy(g, frames, catchers) /\ Tries(frames) \subseteq Tries(frames')
                 => Filled(frames', catchers')
<1>1. catchers \in Seq(Catchers) /\ Len(catchers) \in Nat /\ 0 \in 0 .. Len(catchers)
      /\ FramesTyped(frames) /\ catchers' = SubSeq(catchers, 0 + 1, Len(catchers))
  BY DEF Typed
<1>2. /\ Tries(frames') \subseteq Tries(frames)
      /\ \A p \in Tries(frames') : CatcherIn(frames', p) = CatcherIn(frames, p)
  BY <1>1, TriesCut
<1>3. \A p \in Tries(frames') : g[p] > 0 /\ CatcherIn(frames', p) = CatcherIn(frames, p)
  <2>1. \A p \in Tries(frames) : g[p] \in 1 .. Len(catchers) BY DEF Placed
  <2>2. \A p \in Tries(frames) : g[p] > 0 BY <1>1, <2>1
  <2> QED BY <1>2, <2>2
<1>4. LET cs2 == SubSeq(catchers, 0 + 1, Len(catchers)) IN
      /\ Registered(frames', cs2)
      /\ FilledBy(g, frames, catchers) /\ (\A p \in Tries(frames) : g[p] > 0 => p \in Tries(frames'))
            => Filled(frames', cs2)
  <2>1. Tries(frames') \subseteq Tries(frames) BY <1>2
  <2> QED BY <1>1, <1>3, <2>1, PlacesShift
<1> QED BY <1>1, <1>2, <1>4

LEMMA PlacesCall ==
    ASSUME ExceptionConstants, Typed, FramesTyped(frames'), catchers' = catchers,
           NEW fr, IsCall(frames, fr, frames'), NEW g, Placed(g, frames, catchers)
    PROVE  /\ Registered(frames', catchers')
           /\ FilledBy(g, frames, catchers) => Filled(frames', catchers')
<1>1. catchers \in Seq(Catchers) /\ Len(catchers) \in Nat /\ 0 \in 0 .. Len(catchers)
      /\ FramesTyped(frames) /\ catchers' = SubSeq(catchers, 0 + 1, Len(catchers))
  BY DEF Typed
<1>2. /\ Tries(frames') = Tries(frames)
      /\ \A p \in Tries(frames') : CatcherIn(frames', p) = CatcherIn(frames, p)
  BY <1>1, TriesCall
<1>3. \A p \in Tries(frames') : g[p] > 0 /\ CatcherIn(frames', p) = CatcherIn(frames, p)
  <2>1. \A p \in Tries(frames) : g[p] \in 1 .. Len(catchers) BY DEF Placed
  <2>2. \A p \in Tries(frames) : g[p] > 0 BY <1>1, <2>1
  <2> QED BY <1>2, <2>2
<1>4. LET cs2 == SubSeq(catchers, 0 + 1, Len(catchers)) IN
      /\ Registered(frames', cs2)
      /\ FilledBy(g, frames, catchers) /\ (\A p \in Tries(frames) : g[p] > 0 => p \in Tries(frames'))
            => Filled(frames', cs2)
  <2>1. Tries(frames') \subseteq Tries(frames) BY <1>2
  <2> QED BY <1>1, <1>3, <2>1, PlacesShift
<1> QED BY <1>1, <1>2, <1>4

LEMMA PlacesNone ==
    ASSUME ExceptionConstants, NEW cs \in Seq(Catchers)
    PROVE  Registered(<<>>, cs)
<1> DEFINE g == [p \in Tries(<<>>) |-> 1]
<1>1. Tries(<<>>) = {} BY DEF Tries
<1>2. g \in [Tries(<<>>) -> 1 .. Len(cs)] /\ Placed(g, <<>>, cs)
  BY <1>1 DEF Placed
<1> QED BY <1>2 DEF Registered

\* The catcher of the statement that is entered.
LEMMA PlacesEnter ==
    ASSUME ExceptionConstants, Typed, NEW types \in CatchLists, EnterTry(types),
           NEW g, Placed(g, frames, catchers)
    PROVE  /\ Registered(frames', catchers')
           /\ FilledBy(g, frames, catchers) => Filled(frames', catchers')
<1> DEFINE n == Len(frames)
           d == Len(frames[n].blocks)
           b == Try(types)
           c == [frame |-> n, depth |-> d, height |-> height, types |-> types]
           p0 == <<n, d + 1>>
<1>1. /\ Typed' /\ Running /\ IsPut(frames, n, d, b, frames') /\ catchers' = <<c>> \o catchers
  BY EnterTryIs
<1>2. /\ FramesTyped(frames) /\ FramesTyped(frames') /\ catchers \in Seq(Catchers)
      /\ frames # <<>>
  BY <1>1 DEF Typed
<1>3. /\ n \in Nat /\ n \in 1 .. Len(frames) /\ d \in Nat
  BY <1>2, ActiveIs
<1>4. c \in Catchers /\ b.kind = "try" /\ b.height = height /\ b.types = types
  BY <1>3 DEF Catchers, Try, Typed, ExceptionConstants
<1>5. ASSUME NEW p \in Tries(frames)
      PROVE  Below(p, n, d) /\ Inside(p0, p) /\ ~ Inside(p, p0)
  <2>1. /\ p[1] \in 1 .. Len(frames) /\ p[1] \in Nat /\ p[2] \in Nat
        /\ p[2] \in 1 .. Len(frames[p[1]].blocks)
    BY <1>2, TryIs
  <2>2. p0[1] = n /\ p0[2] = d + 1 OBVIOUS
  <2>3. p[1] < n \/ (p[1] = n /\ p[2] <= d) BY <1>3, <2>1
  <2> HIDE DEF n, d, p0
  <2> QED BY <1>3, <2>1, <2>2, <2>3 DEF Below, Inside
<1>6. /\ Tries(frames') = Tries(frames) \cup {p0} /\ p0 \notin Tries(frames)
      /\ \A p \in Tries(frames) : CatcherIn(frames', p) = CatcherIn(frames, p)
      /\ CatcherIn(frames', p0) = [frame |-> n, depth |-> d, height |-> b.height, types |-> b.types]
  <2>0. p0 = <<n, d + 1>> OBVIOUS
  <2> HIDE DEF n, d, b, p0
  <2>1. /\ Tries(frames') = {p \in Tries(frames) : Below(p, n, d)} \cup {p0}
        /\ ~ Below(p0, n, d)
        /\ \A p \in Tries(frames') : Below(p, n, d) => CatcherIn(frames', p) = CatcherIn(frames, p)
        /\ CatcherIn(frames', p0) = [frame |-> n, depth |-> d, height |-> b.height, types |-> b.types]
    BY <1>1, <1>2, <1>3, <1>4, <2>0, TriesPut
  <2> QED BY <1>5, <2>1
<1>7. CatcherIn(frames', p0) = c
  BY <1>4, <1>6
<1>8. ~ Inside(p0, p0)
  <2>1. p0[1] = n /\ p0[2] = d + 1 /\ n \in Nat /\ d + 1 \in Nat BY <1>3
  <2> HIDE DEF n, d, p0
  <2> QED BY <2>1 DEF Inside
<1> HIDE DEF n, d, b, c, p0
<1> QED BY <1>1, <1>2, <1>4, <1>5, <1>6, <1>7, <1>8, PlacesGrow

\* The end of a try part: its catcher is the one at the head.
LEMMA PlacesLeaveTry ==
    ASSUME ExceptionConstants, Typed, LeaveTry, NEW g, Placed(g, frames, catchers)
    PROVE  /\ Registered(frames', catchers')
           /\ FilledBy(g, frames, catchers) => Filled(frames', catchers')
<1> DEFINE n == Len(frames)
           d == Len(Active.blocks) - 1
           p0 == <<n, d + 1>>
<1>1. /\ Typed' /\ Running /\ Leaves(d) /\ Active.blocks[d + 1].kind = "try"
      /\ catchers' = (IF catchers = <<>> THEN <<>> ELSE Tail(catchers))
  BY LeaveTryIs
<1>2. /\ FramesTyped(frames) /\ FramesTyped(frames') /\ catchers \in Seq(Catchers)
      /\ frames # <<>> /\ Len(catchers) \in Nat
  BY <1>1 DEF Typed
<1>3. /\ n \in Nat /\ n \in 1 .. Len(frames) /\ Active = frames[n]
      /\ Len(Active.blocks) \in Nat /\ Len(Active.blocks) <= MaxBlocks /\ MaxBlocks \in Nat
  BY <1>2, ActiveIs
<1>4. IsCut(frames, n, d, frames') /\ d \in Nat /\ d + 1 = Len(frames[n].blocks)
      /\ d + 1 \in 1 .. MaxBlocks
  BY <1>1, <1>3 DEF Leaves
<1>5. p0 \in Tries(frames) /\ p0[1] = n /\ p0[2] = d + 1
  <2>1. p0[1] = n /\ p0[2] = d + 1 /\ p0 \in (1 .. Len(frames)) \X (1 .. MaxBlocks)
    BY <1>3, <1>4
  <2> HIDE DEF p0, d
  <2> QED BY <1>1, <1>3, <1>4, <2>1 DEF Tries
<1> HIDE DEF d, p0
<1>6. /\ Tries(frames') = {p \in Tries(frames) : Below(p, n, d)}
      /\ \A p \in Tries(frames') : CatcherIn(frames', p) = CatcherIn(frames, p)
  BY <1>2, <1>4, TriesCut
<1>7. ASSUME NEW p \in Tries(frames), p # p0 PROVE Below(p, n, d) /\ Inside(p0, p)
  <2>1. /\ p[1] \in 1 .. Len(frames) /\ p[1] \in Nat /\ p[2] \in Nat /\ p = <<p[1], p[2]>>
        /\ p[2] \in 1 .. Len(frames[p[1]].blocks)
    BY <1>2, TryIs
  <2>2. p[1] = n => p[2] # d + 1 BY <1>5, <1>7, <2>1 DEF p0
  <2>3. p[1] < n \/ (p[1] = n /\ p[2] <= d) BY <1>3, <1>4, <2>1, <2>2
  <2> HIDE DEF n
  <2> QED BY <1>3, <1>4, <1>5, <2>1, <2>3 DEF Below, Inside
<1>8. p0 \notin Tries(frames')
  <2>1. ~ Below(p0, n, d) BY <1>3, <1>4, <1>5 DEF Below
  <2> QED BY <1>6, <2>1
<1>9. /\ \A p \in Tries(frames) : g[p] \in 1 .. Len(catchers) /\ g[p] \in Nat /\ g[p] >= 1
      /\ \A p, q \in Tries(frames) : Inside(p, q) => g[p] < g[q]
  BY <1>2 DEF Placed
<1>10. 1 \in 0 .. Len(catchers) /\ catchers' = SubSeq(catchers, 1 + 1, Len(catchers))
  <2>1. 1 \in 0 .. Len(catchers) /\ catchers # <<>> BY <1>2, <1>5, <1>9
  <2>2. Tail(catchers) = SubSeq(catchers, 2, Len(catchers)) BY <1>2, <2>1, TailIsSubSeq
  <2> QED BY <1>1, <2>1, <2>2
<1>11. \A p \in Tries(frames') : p \in Tries(frames) /\ p # p0 /\ g[p] > 1
  BY <1>5, <1>6, <1>7, <1>8, <1>9
<1>12. \A p \in Tries(frames) : g[p] > 1 => (FilledBy(g, frames, catchers) => p \in Tries(frames'))
  <2> SUFFICES ASSUME NEW p \in Tries(frames), g[p] > 1, FilledBy(g, frames, catchers)
               PROVE  p \in Tries(frames')
    OBVIOUS
  <2>1. 1 \in 1 .. Len(catchers) BY <1>2, <1>10
  <2>2. PICK q \in Tries(frames) : g[q] = 1 BY <2>1 DEF FilledBy
  <2>3. q = p0
    <3>1. ~ (g[p0] < g[q]) BY <1>5, <1>9, <2>2
    <3> QED BY <1>5, <1>7, <1>9, <3>1
  <2>4. p # p0 BY <2>2, <2>3
  <2> QED BY <1>6, <1>7, <2>4
<1>13. \A p \in Tries(frames') : g[p] > 1 /\ CatcherIn(frames', p) = CatcherIn(frames, p)
  BY <1>6, <1>11
<1>14. Tries(frames') \subseteq Tries(frames)
  BY <1>6
<1> QED BY <1>2, <1>10, <1>12, <1>13, <1>14, PlacesShift

\* An exception is caught: the statement that catches it is left with all the
\* statements inside of it, and their catchers were before its own. When no place
\* is left over, the catcher that is found is the statement's own.
LEMMA PlacesCaught ==
    ASSUME ExceptionConstants, Typed, Typed', NEW e \in Exceptions, NEW hs,
           Caught(FirstMatch(e), e, hs), NEW g, Placed(g, frames, catchers)
    PROVE  /\ Registered(frames', catchers')
           /\ FilledBy(g, frames, catchers) =>
                 /\ Filled(frames', catchers')
                 /\ g[<<catchers[FirstMatch(e)].frame, catchers[FirstMatch(e)].depth + 1>>]
                       = FirstMatch(e)
<1> DEFINE k == FirstMatch(e)
           c == catchers[k]
           n == c.frame
           d == c.depth
           p0 == <<n, d + 1>>
           b == Handler(c.height, e)
<1>1. /\ k \in 1 .. Len(catchers) /\ IsLive(c)
      /\ catchers' = SubSeq(catchers, k + 1, Len(catchers))
      /\ IsPut(frames, n, d, b, frames') /\ b.kind = "catch"
  BY DEF Caught, Handler
<1>2. /\ FramesTyped(frames) /\ FramesTyped(frames') /\ catchers \in Seq(Catchers)
      /\ Len(catchers) \in Nat /\ k \in 0 .. Len(catchers) /\ k \in Nat /\ c \in Catchers
  BY <1>1 DEF Typed
<1>3. n \in Nat /\ d \in Nat /\ p0 \in Tries(frames) /\ c = CatcherIn(frames, p0)
      /\ p0[1] = n /\ p0[2] = d + 1
  BY <1>1, <1>2, LiveIs DEF Catchers
<1> HIDE DEF p0, d, n, b
<1>4. /\ Tries(frames') = {p \in Tries(frames) : Below(p, n, d)}
      /\ \A p \in Tries(frames') : CatcherIn(frames', p) = CatcherIn(frames, p)
  <2>1. /\ Tries(frames') = {p \in Tries(frames) : Below(p, n, d)}
        /\ \A p \in Tries(frames') : Below(p, n, d) => CatcherIn(frames', p) = CatcherIn(frames, p)
    <3>1. IsPut(frames, n, d, b, frames') /\ b.kind = "catch" BY <1>1
    <3>2. FramesTyped(frames) /\ FramesTyped(frames') BY <1>2
    <3> HIDE DEF c, k
    <3> QED BY <3>1, <3>2, TriesPutCatch
  <2> QED BY <2>1
<1>5. \A p \in Tries(frames) : Below(p, n, d) <=> Inside(p0, p)
  <2> SUFFICES ASSUME NEW p \in Tries(frames) PROVE Below(p, n, d) <=> Inside(p0, p)
    OBVIOUS
  <2>1. p[1] \in Nat /\ p[2] \in Nat BY <1>2, TryIs
  <2> QED BY <1>3, <2>1 DEF Below, Inside
<1>6. /\ \A p \in Tries(frames) : g[p] \in 1 .. Len(catchers) /\ g[p] \in Nat
                                  /\ catchers[g[p]] = CatcherIn(frames, p)
      /\ \A p, q \in Tries(frames) : Inside(p, q) => g[p] < g[q]
  BY <1>2 DEF Placed
<1>7. k <= g[p0]
  <2>1. Matches(c.types, e)
    <3>1. k # 0 BY <1>1, <1>2
    <3> QED BY <3>1, FirstMatchIs
  <2>2. Matches(catchers[g[p0]].types, e) /\ g[p0] \in 1 .. Len(catchers)
    BY <1>3, <1>6, <2>1
  <2> QED BY <2>2, FirstMatchIs
<1> HIDE DEF k
<1>8. \A p \in Tries(frames') : g[p] > k /\ CatcherIn(frames', p) = CatcherIn(frames, p)
  <2> SUFFICES ASSUME NEW p \in Tries(frames') PROVE g[p] > k
    BY <1>4
  <2>1. p \in Tries(frames) /\ g[p0] < g[p] /\ g[p0] \in Nat /\ g[p] \in Nat
    BY <1>3, <1>4, <1>5, <1>6
  <2> QED BY <1>2, <1>7, <2>1
<1>9. ASSUME FilledBy(g, frames, catchers) PROVE g[p0] = k
  <2>1. PICK q \in Tries(frames) : g[q] = k BY <1>1, <1>9 DEF FilledBy
  <2>2. CatcherIn(frames, q) = CatcherIn(frames, p0) BY <1>3, <1>6, <2>1
  <2>3. q = p0 BY <1>2, <1>3, <2>2, TriesNest
  <2> QED BY <2>1, <2>3
<1>10. ASSUME FilledBy(g, frames, catchers), NEW p \in Tries(frames), g[p] > k
       PROVE  p \in Tries(frames')
  <2>1. g[p0] = k BY <1>9, <1>10
  <2>2. p # p0 /\ ~ (g[p] < g[p0]) BY <1>2, <1>6, <1>10, <2>1
  <2>3. Inside(p0, p) BY <1>2, <1>3, <1>6, <2>2, TriesNest
  <2> QED BY <1>4, <1>5, <2>3
<1>11. Tries(frames') \subseteq Tries(frames) BY <1>4
<1>12. /\ Registered(frames', catchers')
       /\ FilledBy(g, frames, catchers) => Filled(frames', catchers')
  BY <1>1, <1>2, <1>8, <1>10, <1>11, PlacesShift
<1> QED BY <1>9, <1>12 DEF k, p0, n, d
-----------------------------------------------------------------------------
(* The invariant of every program. *)

LEMMA RegisteredStep ==
    ASSUME ExceptionConstants, Typed, status # "derailed" => Registered(frames, catchers),
           [Next]_vars
    PROVE  status' # "derailed" => Registered(frames', catchers')
<1> SUFFICES ASSUME status' # "derailed" PROVE Registered(frames', catchers')
  OBVIOUS
<1>1. CASE UNCHANGED vars
  <2>1. frames' = frames /\ catchers' = catchers /\ status' = status BY <1>1 DEF vars
  <2> QED BY <2>1
<1>2. ASSUME Next, status # "derailed" PROVE Registered(frames', catchers')
  <2>1. Typed' /\ FramesTyped(frames') /\ catchers' \in Seq(Catchers)
    <3>1. Typed' BY <1>2, TypedStep
    <3> QED BY <3>1 DEF Typed
  <2>2. PICK g \in [Tries(frames) -> 1 .. Len(catchers)] : Placed(g, frames, catchers)
    BY <1>2 DEF Registered
  <2>3. ASSUME NEW e \in Exceptions, NEW hs \in {"running", "stopped"}, Running, Raise(e, hs)
        PROVE  Registered(frames', catchers')
    <3>1. CASE Uncaught BY <2>1, <3>1, PlacesNone DEF Uncaught
    <3>2. CASE Derails(FirstMatch(e)) BY <3>2 DEF Derails
    <3>3. CASE Caught(FirstMatch(e), e, hs) BY <2>1, <2>2, <3>3, PlacesCaught
    <3> QED BY <2>3, <3>1, <3>2, <3>3, RaiseIs
  <2>4. CASE \E types \in CatchLists : EnterTry(types) BY <2>2, <2>4, PlacesEnter
  <2>5. CASE LeaveTry BY <2>2, <2>5, PlacesLeaveTry
  <2>6. CASE LeaveCatch
    <3>1. Leaves(Len(Active.blocks) - 1) /\ catchers' = catchers BY <2>6, LeaveCatchIs
    <3> QED BY <2>1, <2>2, <3>1, PlacesCut DEF Leaves
  <2>7. ASSUME frames # <<>>, NEW n \in 1 .. Len(Active.blocks), NEW h \in 1 .. MaxHeight,
               LeaveLoop(n, h)
        PROVE  Registered(frames', catchers')
    <3>1. Leaves(Len(Active.blocks) - n) /\ catchers' = catchers BY <2>7, LeaveLoopIs
    <3> QED BY <2>1, <2>2, <3>1, PlacesCut DEF Leaves
  <2>8. CASE Declare \/ EndBlock
    <3>1. frames' = frames /\ catchers' = catchers BY <2>8, StackIs
    <3> QED BY <1>2, <3>1
  <2>9. ASSUME NEW fr, IsCall(frames, fr, frames'), catchers' = catchers
        PROVE  Registered(frames', catchers')
    BY <2>1, <2>2, <2>9, PlacesCall
  <2>10. CASE Call BY <2>9, <2>10, CallActionIs
  <2>11. CASE \E m \in Modules : Import(m) BY <2>9, <2>11, ImportIs
  <2>12. CASE NextLine BY <2>9, <2>12, NextLineIs
  <2>13. CASE Return
    <3>1. (Returns \/ Ends) /\ catchers' = catchers BY <2>13, ReturnIs
    <3>2. CASE Ends BY <2>1, <3>2, PlacesNone DEF Ends
    <3>3. CASE Returns BY <2>1, <2>2, <3>1, <3>3, PlacesCut DEF Returns
    <3> QED BY <3>1, <3>2, <3>3
  <2> QED
    BY <1>2, <2>3, <2>4, <2>5, <2>6, <2>7, <2>8, <2>10, <2>11, <2>12, <2>13, NextCases
<1>3. ASSUME Next, status = "derailed" PROVE FALSE
  <2>1. ~ Running /\ ~ (status \in {"done", "uncaught", "stopped"}) BY <1>3
  <2>2. CASE NextLine BY <2>1, <2>2 DEF NextLine
  <2>3. CASE ~ NextLine
    <3>1. \/ Structured \/ EarlyExit
          \/ \E e \in Exceptions : RaiseAgain(e) \/ ImportFails(e)
      BY <1>3, <2>3 DEF Next
    <3>2. ~ EarlyExit BY <2>1 DEF EarlyExit
    <3>3. ~ \E e \in Exceptions : RaiseNew(e) \/ RaiseAgain(e) \/ ImportFails(e)
      BY <2>1 DEF RaiseNew, RaiseAgain, ImportFails
    <3>4. ~ Structured
      BY <2>1, <3>3 DEF Structured, EnterTry, LeaveTry, LeaveCatch, Declare, EndBlock, Call,
                        Import, Return
    <3> QED BY <3>1, <3>2, <3>3, <3>4
  <2> QED BY <2>2, <2>3
<1> QED BY <1>1, <1>2, <1>3

\* Every part of the invariant holds at first.
LEMMA CatchInit == ExceptionConstants /\ Init => CatchInv
<1> SUFFICES ASSUME ExceptionConstants, Init PROVE CatchInv
  OBVIOUS
<1>1. Typed BY TypedInit
<1> DEFINE fr == [blocks |-> <<>>, base |-> 0, module |-> Main, saved |-> None]
<1>2. frames = <<fr>> /\ height = 1 /\ catchers = <<>> /\ fr.base = 0 /\ fr.blocks = <<>>
  BY DEF Init
<1> HIDE DEF fr
<1>3. Len(frames) = 1 /\ frames[1] = fr /\ \A f \in 1 .. Len(frames) : f = 1
  BY <1>2
<1>4. HeightsRise(frames)
  BY <1>2, <1>3 DEF HeightsRise
<1>5. BelowTop(frames, height)
  BY <1>2, <1>3 DEF BelowTop
<1>6. Tries(frames) = {}
  BY <1>1, <1>2, <1>3, TryIs DEF Typed
<1>7. Registered(frames, catchers)
  <2> DEFINE g == [p \in Tries(frames) |-> 1]
  <2>1. g \in [Tries(frames) -> 1 .. Len(catchers)] /\ Placed(g, frames, catchers)
    BY <1>6 DEF Placed
  <2> QED BY <2>1 DEF Registered
<1> QED BY <1>1, <1>4, <1>5, <1>7 DEF CatchInv

LEMMA CatchStep == ExceptionConstants /\ CatchInv /\ [Next]_vars => CatchInv'
<1> SUFFICES ASSUME ExceptionConstants, CatchInv, [Next]_vars PROVE CatchInv'
  OBVIOUS
<1>1. Typed' BY TypedStep DEF CatchInv
<1>2. Heights' BY HeightsStep DEF CatchInv, Heights
<1>3. (status # "derailed" => Registered(frames, catchers))'
  BY RegisteredStep DEF CatchInv
<1> QED BY <1>1, <1>2, <1>3 DEF CatchInv, Heights

\* The types, the heights and the places are kept by every program: whatever it
\* calls, imports, raises and jumps out of (vm.c:70, 320, 947, 1318).
THEOREM CatchInvariant == ASSUME ExceptionConstants PROVE Spec => []CatchInv
<1>1. Init => CatchInv BY CatchInit
<1>2. CatchInv /\ [Next]_vars => CatchInv' BY CatchStep
<1> QED BY <1>1, <1>2, PTL DEF Spec

\* A call never exceeds the call frames, and every variable has its type (vm.c:320).
THEOREM TypesKept == ASSUME ExceptionConstants PROVE Spec => []TypeOK
<1>1. CatchInv => TypeOK
  <2> SUFFICES ASSUME CatchInv PROVE TypeOK OBVIOUS
  <2>1. Typed BY DEF CatchInv
  <2>2. MaxFrames \in Nat BY DEF ExceptionConstants
  <2>3. Len(frames) \in Nat BY <2>1, NumbersIn DEF Typed
  <2>4. Len(frames) \in 0 .. MaxFrames BY <2>1, <2>2, <2>3 DEF Typed, FramesTyped
  <2>5. \A f \in 1 .. Len(frames) : Len(frames[f].blocks) <= MaxBlocks
    BY <2>1 DEF Typed, FramesTyped
  <2> QED BY <2>1, <2>4, <2>5 DEF Typed, TypeOK
<1> QED BY <1>1, CatchInvariant, PTL

\* The catcher of every try statement control is inside of is on the catch stack,
\* whatever jumps leave others behind (vm.c:76-91, 947).
THEOREM TriesAreRegistered == ASSUME ExceptionConstants PROVE Spec => []EveryLiveTryRegistered
<1>1. CatchInv => EveryLiveTryRegistered
  <2> SUFFICES ASSUME CatchInv, status \in {"running", "stopped"}, NEW p \in LiveTries
               PROVE  CatcherOf(p) \in ToSet(catchers)
    BY DEF EveryLiveTryRegistered
  <2>1. p \in Tries(frames) /\ CatcherOf(p) = CatcherIn(frames, p)
    BY DEF LiveTries, Tries, CatcherOf, CatcherIn
  <2>2. PICK g \in [Tries(frames) -> 1 .. Len(catchers)] : Placed(g, frames, catchers)
    BY DEF CatchInv, Registered
  <2>3. g[p] \in 1 .. Len(catchers) /\ catchers[g[p]] = CatcherIn(frames, p)
    BY <2>1, <2>2 DEF Placed
  <2> QED BY <2>1, <2>3 DEF ToSet
<1> QED BY <1>1, CatchInvariant, PTL

\* The values of the stack below a frame and below its try statements are never
\* popped while they are there (vm.c:100, 699, 1318).
THEOREM StackStaysAbove == ASSUME ExceptionConstants PROVE Spec => []HeightAboveBlocks
<1>1. CatchInv => HeightAboveBlocks
  <2> SUFFICES ASSUME CatchInv, NEW f \in 1 .. Len(frames)
               PROVE  /\ frames[f].base < height
                      /\ \A b \in ToSet(frames[f].blocks) : b.height <= height
    BY DEF HeightAboveBlocks
  <2>1. /\ frames[f].base < height
        /\ \A d \in 1 .. Len(frames[f].blocks) : frames[f].blocks[d].height <= height
    BY DEF CatchInv, BelowTop
  <2> QED BY <2>1 DEF ToSet
<1> QED BY <1>1, CatchInvariant, PTL
-----------------------------------------------------------------------------
(* Programs that leave try statements only at their ends and by exceptions. *)

HandledIn(fs) == (UNION {{b.exc : b \in ToSet(fs[f].blocks)} : f \in 1 .. Len(fs)}) \ {None}

LEMMA HandledIs ==
    ASSUME NEW fs, NEW x
    PROVE  x \in HandledIn(fs) <=>
              /\ x # None
              /\ \E f \in 1 .. Len(fs) : \E d \in 1 .. Len(fs[f].blocks) : fs[f].blocks[d].exc = x
<1> DEFINE E(f) == {b.exc : b \in ToSet(fs[f].blocks)}
<1>1. ASSUME NEW f \in 1 .. Len(fs)
      PROVE  x \in E(f) <=> \E d \in 1 .. Len(fs[f].blocks) : fs[f].blocks[d].exc = x
  BY DEF ToSet
<1>2. HandledIn(fs) = (UNION {E(f) : f \in 1 .. Len(fs)}) \ {None}
  BY DEF HandledIn
<1> HIDE DEF E
<1>3. x \in UNION {E(f) : f \in 1 .. Len(fs)} <=> \E f \in 1 .. Len(fs) : x \in E(f)
  OBVIOUS
<1> DEFINE U == UNION {E(f) : f \in 1 .. Len(fs)}
<1>4. x \in HandledIn(fs) <=> x # None /\ x \in U
  <2> HIDE DEF U
  <2>1. HandledIn(fs) = U \ {None} BY <1>2 DEF U
  <2> QED BY <2>1
<1>5. x \in U <=> \E f \in 1 .. Len(fs) : x \in E(f)
  BY <1>3
<1> HIDE DEF U
<1> QED BY <1>1, <1>4, <1>5

\* The exceptions that are bound stay bound while no block of a frame is left.
LEMMA HandledGrows ==
    ASSUME NEW fs, NEW fs2, NEW x \in HandledIn(fs),
           \A f \in 1 .. Len(fs) : \A d \in 1 .. Len(fs[f].blocks) :
              /\ f \in 1 .. Len(fs2) /\ d \in 1 .. Len(fs2[f].blocks)
              /\ fs2[f].blocks[d] = fs[f].blocks[d]
    PROVE  x \in HandledIn(fs2)
<1>1. x # None BY HandledIs
<1>2. PICK f \in 1 .. Len(fs) : \E d \in 1 .. Len(fs[f].blocks) : fs[f].blocks[d].exc = x
  BY HandledIs
<1>3. PICK d \in 1 .. Len(fs[f].blocks) : fs[f].blocks[d].exc = x BY <1>2
<1>4. f \in 1 .. Len(fs2) /\ d \in 1 .. Len(fs2[f].blocks) /\ fs2[f].blocks[d].exc = x
  BY <1>3
<1> QED BY <1>1, <1>4, HandledIs

\* What raise does when no place on the catch stack is left over: it never derails,
\* and the catcher it takes stands for the innermost statement that lists the error.
LEMMA RaiseIsExact ==
    ASSUME ExceptionConstants, Typed, Typed', Running, Filled(frames, catchers),
           NEW e \in Exceptions, Raise(e, "running")
    PROVE  /\ Uncaught \/ (Caught(FirstMatch(e), e, "running") /\ Filled(frames', catchers'))
           /\ RaisedTo(e)
<1> DEFINE k == FirstMatch(e)
           Lists(p) == Matches(frames[p[1]].blocks[p[2]].types, e)
<1>1. PICK g \in [Tries(frames) -> 1 .. Len(catchers)] : FilledBy(g, frames, catchers)
  BY DEF Filled
<1>2. /\ Placed(g, frames, catchers) /\ FramesTyped(frames) /\ FramesTyped(frames')
      /\ catchers \in Seq(Catchers) /\ Len(catchers) \in Nat
  BY <1>1 DEF FilledBy, Typed
<1>3. /\ \A p \in Tries(frames) : g[p] \in 1 .. Len(catchers) /\ g[p] \in Nat
                                  /\ catchers[g[p]] = CatcherIn(frames, p)
      /\ \A p, q \in Tries(frames) : Inside(p, q) => g[p] < g[q]
      /\ \A i \in 1 .. Len(catchers) : \E p \in Tries(frames) : g[p] = i
  BY <1>1, <1>2 DEF FilledBy, Placed
<1>4. ASSUME NEW p \in Tries(frames), Lists(p) PROVE k # 0 /\ k <= g[p]
  <2>1. catchers[g[p]].types = frames[p[1]].blocks[p[2]].types
    <3>1. catchers[g[p]] = CatcherIn(frames, p) BY <1>3
    <3>2. CatcherIn(frames, p).types = frames[p[1]].blocks[p[2]].types BY DEF CatcherIn
    <3> QED BY <3>1, <3>2
  <2>2. g[p] \in 1 .. Len(catchers) /\ Matches(catchers[g[p]].types, e) BY <1>3, <1>4, <2>1
  <2> QED BY <2>2, FirstMatchIs
<1>5. ~ Derails(k)
  <2> SUFFICES ASSUME Derails(k) PROVE FALSE OBVIOUS
  <2>1. k \in 1 .. Len(catchers) /\ ~ IsLive(catchers[k]) BY DEF Derails
  <2>2. PICK p \in Tries(frames) : g[p] = k BY <1>3, <2>1
  <2>3. catchers[k] = CatcherIn(frames, p) BY <1>3, <2>2
  <2>4. IsLive(CatcherIn(frames, p))
    <3>1. /\ p[1] \in 1 .. Len(frames) /\ p[2] \in Nat /\ p[2] \in 1 .. Len(frames[p[1]].blocks)
          /\ frames[p[1]].blocks[p[2]].kind = "try"
      BY <1>2, TryIs
    <3>2. (p[2] - 1) + 1 = p[2] /\ Len(frames[p[1]].blocks) > p[2] - 1
      <4>1. Len(frames[p[1]].blocks) \in Nat BY <1>2, <3>1, NumbersIn
      <4> QED BY <3>1, <4>1
    <3> QED BY <3>1, <3>2 DEF CatcherIn, IsLive
  <2> QED BY <2>1, <2>3, <2>4
<1>6. LiveTries = Tries(frames)
  BY DEF LiveTries, Tries
<1>7. CASE k = 0 /\ Uncaught
  <2>1. {p \in LiveTries : Lists(p)} = {} BY <1>4, <1>6, <1>7
  <2>2. RaisedTo(e) BY <1>7, <2>1 DEF RaisedTo, Uncaught
  <2> QED BY <1>7, <2>2
<1>8. CASE Caught(k, e, "running")
  <2> DEFINE c == catchers[k]
             n == c.frame
             d == c.depth
             p0 == <<n, d + 1>>
             b == Handler(c.height, e)
             bs == frames[n].blocks
  <2>1. /\ k \in 1 .. Len(catchers) /\ IsLive(c) /\ height' = c.height + 1
        /\ IsPut(frames, n, d, b, frames')
    BY <1>8 DEF Caught
  <2>2. c \in Catchers BY <1>2, <2>1
  <2>3. /\ p0 \in Tries(frames) /\ c = CatcherIn(frames, p0) /\ n \in 1 .. Len(frames)
        /\ d \in Nat /\ d + 1 <= Len(bs) /\ d \in 0 .. Len(bs) /\ d < MaxBlocks
    BY <2>1, <2>2, LiveIs
  <2>4. Filled(frames', catchers') /\ g[p0] = k
    BY <1>1, <1>2, <1>8, PlacesCaught
  <2>5. p0[1] = n /\ p0[2] = d + 1 /\ p0[2] - 1 = d
        /\ bs[p0[2]].types = c.types /\ bs[p0[2]].height = c.height
    BY <2>1, <2>3 DEF IsLive
  <2>6. Matches(c.types, e)
    <3>1. k # 0 BY <1>2, <2>1
    <3> QED BY <3>1, FirstMatchIs
  <2>7. Lists(p0)
    BY <2>5, <2>6
  <2>8. ASSUME NEW q \in Tries(frames), Lists(q), q # p0 PROVE Inside(p0, q)
    <3>1. k <= g[q] BY <1>4, <2>8
    <3>2. ~ (g[q] < g[p0]) BY <1>3, <2>3, <2>4, <3>1
    <3>3. p0 = q \/ Inside(p0, q) \/ Inside(q, p0) BY <1>2, <2>3, TriesNest
    <3> QED BY <1>3, <2>3, <2>8, <3>2, <3>3
  <2>9. Len(frames') = n
    BY <2>1 DEF IsPut, Keeps
  <2>10. frames'[n].blocks = Append(SubSeq(bs, 1, d), b)
    <3> DEFINE ap == Append(SubSeq(frames[n].blocks, 1, d), b)
               bs2 == frames'[n].blocks
    <3>1. b \in Blocks
      BY <2>2 DEF Handler, Blocks, Catchers
    <3> HIDE DEF b, c, d, n
    <3>2. /\ ap \in Seq(Blocks) /\ Len(ap) = d + 1 /\ ap[d + 1] = b
          /\ \A i \in 1 .. d : ap[i] = frames[n].blocks[i]
      BY <1>2, <2>3, <3>1, AppendBlock
    <3>3. /\ Len(bs2) = d + 1 /\ bs2[d + 1] = b /\ n \in 1 .. Len(frames')
          /\ \A i \in 1 .. d : bs2[i] = frames[n].blocks[i]
      <4>1. /\ Len(bs2) = d + 1 /\ bs2[d + 1] = b
            /\ \A i \in 1 .. d : bs2[i] = frames[n].blocks[i]
        BY <2>1 DEF IsPut, Keeps
      <4>2. Len(frames) \in Nat BY <1>2, NumbersIn
      <4>3. n \in 1 .. Len(frames') BY <2>3, <2>9, <4>2
      <4> QED BY <4>1, <4>3
    <3>4. bs2 \in Seq(Blocks)
      <4>1. frames' \in Seq(CallFrames) BY <1>2 DEF FramesTyped
      <4>2. frames'[n] \in CallFrames BY <3>3, <4>1
      <4> QED BY <4>2 DEF CallFrames
    <3> HIDE DEF ap, bs2
    <3>5. \A i \in 1 .. Len(bs2) : bs2[i] = ap[i]
      <4>1. \A i \in 1 .. d + 1 : i \in 1 .. d \/ i = d + 1 BY <2>3
      <4> QED BY <3>2, <3>3, <4>1
    <3>6. bs2 = ap
      BY <3>2, <3>3, <3>4, <3>5, SeqEqual
    <3> QED BY <3>6 DEF ap, bs2
  <2> HIDE DEF c, n, d, p0, b
  <2>11. /\ p0 \in {p \in LiveTries : Lists(p)}
         /\ \A q \in {p \in LiveTries : Lists(p)} \ {p0} : Inside(p0, q)
    BY <1>6, <2>3, <2>7, <2>8
  <2>12. /\ Len(frames') = p0[1]
         /\ frames'[p0[1]].blocks =
               Append(SubSeq(frames[p0[1]].blocks, 1, p0[2] - 1),
                      Handler(frames[p0[1]].blocks[p0[2]].height, e))
         /\ height' = frames[p0[1]].blocks[p0[2]].height + 1
    BY <2>1, <2>5, <2>9, <2>10 DEF b
  <2>13. RaisedTo(e)
    BY <2>11, <2>12 DEF RaisedTo
  <2> QED BY <1>8, <2>4, <2>13
<1> QED BY <1>5, <1>7, <1>8, RaiseIs

LEMMA HandledNowIs == HandledNow = HandledIn(frames)
  BY DEF HandledNow, HandledIn

\* Each step of such a program: the places stay filled, and the newest exception is
\* one that a running catch part has bound, or has been forgotten.
LEMMA StructuredStep ==
    ASSUME ExceptionConstants, Typed, StructuredInv, [Structured]_vars
    PROVE  StructuredInv'
<1>1. CASE UNCHANGED vars
  <2>1. /\ frames' = frames /\ catchers' = catchers /\ status' = status /\ head' = head
    BY <1>1 DEF vars
  <2>2. HandledNow' = HandledNow BY <2>1 DEF HandledNow
  <2> QED BY <2>1, <2>2 DEF StructuredInv
<1>2. CASE Structured
  <2>1. Typed' /\ FramesTyped(frames') /\ FramesTyped(frames)
    <3>1. [Next]_vars BY <1>2 DEF Next
    <3>2. Typed' BY <3>1, TypedStep
    <3> QED BY <3>2 DEF Typed
  <2>2. Running => Filled(frames, catchers) /\ head \in HandledIn(frames) \cup {None}
    BY HandledNowIs DEF StructuredInv
  <2>3. (Running => /\ Filled(frames, catchers)
                    /\ head \in HandledIn(frames) \cup {None})'
        /\ status' \in {"running", "done", "uncaught"}
    <3>1. ASSUME NEW e \in Exceptions, Running, Raise(e, "running")
          PROVE  /\ Running' => /\ Filled(frames', catchers')
                                /\ head' \in HandledIn(frames') \cup {None}
                 /\ status' \in {"running", "done", "uncaught"}
      <4>1. Uncaught \/ (Caught(FirstMatch(e), e, "running") /\ Filled(frames', catchers'))
        BY <2>1, <2>2, <3>1, RaiseIsExact
      <4>2. CASE Uncaught BY <4>2 DEF Uncaught
      <4>3. CASE Caught(FirstMatch(e), e, "running") /\ Filled(frames', catchers')
        <5> DEFINE c == catchers[FirstMatch(e)]
                   n == c.frame
                   d == c.depth
                   b == Handler(c.height, e)
        <5>1. status' = "running" /\ IsPut(frames, n, d, b, frames') /\ b.exc = e
              /\ c \in Catchers
          BY <4>3 DEF Caught, Handler, Typed
        <5>2. n \in 1 .. Len(frames) /\ d \in Nat /\ n \in Nat
          BY <5>1 DEF IsPut, Keeps, Catchers
        <5> HIDE DEF b, n, d
        <5>3. /\ n \in 1 .. Len(frames') /\ d + 1 \in 1 .. Len(frames'[n].blocks)
              /\ frames'[n].blocks[d + 1].exc = e
          <6>1. Len(frames') = n /\ Len(frames'[n].blocks) = d + 1
                /\ frames'[n].blocks[d + 1] = b
            BY <5>1 DEF IsPut, Keeps
          <6> QED BY <5>1, <5>2, <6>1
        <5>4. e # None BY DEF ExceptionConstants
        <5>5. e \in HandledIn(frames')
          BY <5>3, <5>4, HandledIs
        <5>6. head' = e
          BY <3>1 DEF Raise
        <5> QED BY <4>3, <5>1, <5>5, <5>6
      <4> QED BY <4>1, <4>2, <4>3
    <3>2. ASSUME NEW types \in CatchLists, EnterTry(types)
          PROVE  /\ Filled(frames', catchers') /\ head' \in HandledIn(frames') \cup {None}
                 /\ status' = status /\ Running
      <4> DEFINE n == Len(frames)
                 d == Len(frames[n].blocks)
                 b == Try(types)
      <4>1. Running /\ IsPut(frames, n, d, b, frames') /\ UNCHANGED <<head, status>>
        BY <3>2, EnterTryIs
      <4>2. PICK g \in [Tries(frames) -> 1 .. Len(catchers)] : FilledBy(g, frames, catchers)
        BY <2>2, <4>1 DEF Filled
      <4>3. Filled(frames', catchers')
        <5>1. Placed(g, frames, catchers) BY <4>2 DEF FilledBy
        <5> QED BY <3>2, <4>2, <5>1, PlacesEnter
      <4>4. \A f \in 1 .. Len(frames) : \A i \in 1 .. Len(frames[f].blocks) :
               /\ f \in 1 .. Len(frames') /\ i \in 1 .. Len(frames'[f].blocks)
               /\ frames'[f].blocks[i] = frames[f].blocks[i]
        <5>1. /\ Len(frames) \in Nat /\ n \in Nat /\ d \in Nat /\ Len(frames') = n
              /\ \A f \in 1 .. n - 1 : frames'[f] = frames[f]
              /\ Len(frames'[n].blocks) = d + 1
              /\ \A i \in 1 .. d : frames'[n].blocks[i] = frames[n].blocks[i]
          <6>1. n \in 1 .. Len(frames) BY <4>1 DEF IsPut, Keeps
          <6> QED BY <2>1, <4>1, <6>1, NumbersIn DEF IsPut, Keeps
        <5> SUFFICES ASSUME NEW f \in 1 .. Len(frames), NEW i \in 1 .. Len(frames[f].blocks)
                     PROVE  /\ f \in 1 .. Len(frames') /\ i \in 1 .. Len(frames'[f].blocks)
                            /\ frames'[f].blocks[i] = frames[f].blocks[i]
          OBVIOUS
        <5>2. CASE f = n BY <5>1, <5>2
        <5>3. CASE f # n
          <6>1. f \in 1 .. n - 1 /\ f \in 1 .. Len(frames') BY <5>1, <5>3
          <6>2. frames'[f] = frames[f] BY <5>1, <6>1
          <6> QED BY <6>1, <6>2
        <5> QED BY <5>2, <5>3
      <4>5. head' \in HandledIn(frames') \cup {None}
        <5>1. head' = head /\ head \in HandledIn(frames) \cup {None} BY <2>2, <4>1
        <5>2. CASE head = None BY <5>1, <5>2
        <5>3. CASE head \in HandledIn(frames)
          <6>1. head \in HandledIn(frames') BY <4>4, <5>3, HandledGrows
          <6> QED BY <5>1, <6>1
        <5> QED BY <5>1, <5>2, <5>3
      <4> QED BY <4>1, <4>3, <4>5
    <3>3. CASE LeaveTry
      <4>1. Running /\ head' = None /\ status' = status BY <3>3, LeaveTryIs
      <4>2. PICK g \in [Tries(frames) -> 1 .. Len(catchers)] : FilledBy(g, frames, catchers)
        BY <2>2, <4>1 DEF Filled
      <4>3. Filled(frames', catchers')
        <5>1. Placed(g, frames, catchers) BY <4>2 DEF FilledBy
        <5> QED BY <3>3, <4>2, <5>1, PlacesLeaveTry
      <4> QED BY <4>1, <4>3
    <3>4. CASE LeaveCatch
      <4> DEFINE d == Len(Active.blocks) - 1
                 n == Len(frames)
      <4>1. /\ Running /\ head' = None /\ status' = status /\ catchers' = catchers
            /\ Leaves(d) /\ Active.blocks[d + 1].kind = "catch"
        BY <3>4, LeaveCatchIs
      <4>2. PICK g \in [Tries(frames) -> 1 .. Len(catchers)] : FilledBy(g, frames, catchers)
        BY <2>2, <4>1 DEF Filled
      <4>3. IsCut(frames, n, d, frames') /\ frames # <<>>
        BY <4>1 DEF Leaves, Typed
      <4>4. Tries(frames) \subseteq Tries(frames')
        <5> SUFFICES ASSUME NEW p \in Tries(frames) PROVE Below(p, n, d)
          BY <2>1, <4>3, TriesCut
        <5>1. /\ p[1] \in 1 .. Len(frames) /\ p[1] \in Nat /\ p[2] \in Nat
              /\ p[2] \in 1 .. Len(frames[p[1]].blocks)
              /\ frames[p[1]].blocks[p[2]].kind = "try"
          BY <2>1, TryIs
        <5>2. n \in Nat /\ Active = frames[n] /\ Len(Active.blocks) \in Nat
          BY <4>3, ActiveIs
        <5>3. d \in Nat /\ d + 1 = Len(Active.blocks)
          BY <4>1, <5>2 DEF Leaves
        <5>4. p[1] = n => p[2] # d + 1
          <6> SUFFICES ASSUME p[1] = n, p[2] = d + 1 PROVE FALSE OBVIOUS
          <6>1. Active.blocks[d + 1].kind = "try" BY <5>1, <5>2
          <6> QED BY <4>1, <6>1
        <5> HIDE DEF d
        <5>5. p[1] = n => p[2] <= d BY <5>1, <5>2, <5>3, <5>4
        <5>6. p[1] # n => p[1] < n BY <5>1, <5>2
        <5> QED BY <5>5, <5>6 DEF Below
      <4>5. Filled(frames', catchers')
        <5>1. Placed(g, frames, catchers) BY <4>2 DEF FilledBy
        <5> HIDE DEF d, n
        <5> QED BY <2>1, <4>1, <4>2, <4>3, <4>4, <5>1, PlacesCut
      <4> QED BY <4>1, <4>5
    <3>5. CASE Declare \/ EndBlock
      <4>1. Running /\ frames' = frames /\ catchers' = catchers /\ head' = head /\ status' = status
        BY <3>5, StackIs
      <4> QED BY <2>2, <4>1
    <3>6. ASSUME NEW fr, IsCall(frames, fr, frames'), catchers' = catchers, head' = head,
                 status' = status, Running
          PROVE  /\ Filled(frames', catchers') /\ head' \in HandledIn(frames') \cup {None}
                 /\ status' = status /\ Running
      <4>1. PICK g \in [Tries(frames) -> 1 .. Len(catchers)] : FilledBy(g, frames, catchers)
        BY <2>2, <3>6 DEF Filled
      <4>2. Filled(frames', catchers')
        <5>1. Placed(g, frames, catchers) BY <4>1 DEF FilledBy
        <5> QED BY <2>1, <3>6, <4>1, <5>1, PlacesCall
      <4>3. \A f \in 1 .. Len(frames) : \A i \in 1 .. Len(frames[f].blocks) :
               /\ f \in 1 .. Len(frames') /\ i \in 1 .. Len(frames'[f].blocks)
               /\ frames'[f].blocks[i] = frames[f].blocks[i]
        <5>1. /\ Len(frames) \in Nat /\ Len(frames') = Len(frames) + 1
              /\ \A f \in 1 .. Len(frames) : frames'[f] = frames[f]
          BY <2>1, <3>6, NumbersIn DEF IsCall
        <5> QED BY <5>1
      <4>4. head' \in HandledIn(frames') \cup {None}
        <5>1. head' = head /\ head \in HandledIn(frames) \cup {None} BY <2>2, <3>6
        <5>2. CASE head = None BY <5>1, <5>2
        <5>3. CASE head \in HandledIn(frames)
          <6>1. head \in HandledIn(frames') BY <4>3, <5>3, HandledGrows
          <6> QED BY <5>1, <6>1
        <5> QED BY <5>1, <5>2, <5>3
      <4> QED BY <3>6, <4>2, <4>4
    <3>7. CASE Call BY <3>6, <3>7, CallActionIs DEF StructuredInv
    <3>8. CASE \E m \in Modules : Import(m) BY <3>6, <3>8, ImportIs DEF StructuredInv
    <3>9. CASE Active.blocks = <<>> /\ Return
      <4>1. Running /\ (Returns \/ Ends) /\ catchers' = catchers /\ head' = head
        BY <3>9, ReturnIs
      <4>2. CASE Ends BY <4>2 DEF Ends
      <4>3. CASE Returns
        <5> DEFINE m == Len(frames)
                   n == m - 1
                   d == Len(frames[n].blocks)
        <5>1. m > 1 /\ m \in Nat /\ status' = status /\ IsCut(frames, n, d, frames')
              /\ frames[m].blocks = <<>>
          <6>1. frames # <<>> BY <4>1 DEF Typed
          <6>2. m \in Nat /\ Active = frames[m] BY <6>1, ActiveIs
          <6> QED BY <3>9, <4>3, <6>2 DEF Returns
        <5>2. PICK g \in [Tries(frames) -> 1 .. Len(catchers)] : FilledBy(g, frames, catchers)
          BY <2>2, <4>1 DEF Filled
        <5>3. n \in Nat /\ n \in 1 .. Len(frames) /\ Len(frames) = n + 1 /\ d \in Nat
          <6>1. n \in Nat /\ n \in 1 .. Len(frames) /\ Len(frames) = n + 1 BY <5>1
          <6> QED BY <2>1, <6>1, NumbersIn
        <5>4. \A f \in 1 .. Len(frames) : \A i \in 1 .. Len(frames[f].blocks) :
                 /\ f \in 1 .. n /\ (f = n => i <= d)
          <6> SUFFICES ASSUME NEW f \in 1 .. Len(frames), NEW i \in 1 .. Len(frames[f].blocks)
                       PROVE  f \in 1 .. n /\ (f = n => i <= d)
            OBVIOUS
          <6>1. f # m /\ m = Len(frames) BY <5>1
          <6> HIDE DEF d, n, m
          <6>2. f \in 1 .. n BY <5>3, <6>1
          <6>3. Len(frames[f].blocks) \in Nat BY <2>1, NumbersIn
          <6> QED BY <6>2, <6>3 DEF d
        <5> HIDE DEF d, n, m
        <5>5. Tries(frames) \subseteq Tries(frames')
          <6> SUFFICES ASSUME NEW p \in Tries(frames) PROVE Below(p, n, d)
            BY <2>1, <5>1, TriesCut
          <6>1. /\ p[1] \in 1 .. Len(frames) /\ p[1] \in Nat /\ p[2] \in Nat
                /\ p[2] \in 1 .. Len(frames[p[1]].blocks)
            BY <2>1, TryIs
          <6>2. p[1] \in 1 .. n /\ (p[1] = n => p[2] <= d) BY <5>4, <6>1
          <6> QED BY <5>3, <6>1, <6>2 DEF Below
        <5>6. Filled(frames', catchers')
          <6>1. Placed(g, frames, catchers) BY <5>2 DEF FilledBy
          <6> QED BY <2>1, <4>1, <5>1, <5>2, <5>5, <6>1, PlacesCut
        <5>7. \A f \in 1 .. Len(frames) : \A i \in 1 .. Len(frames[f].blocks) :
                 /\ f \in 1 .. Len(frames') /\ i \in 1 .. Len(frames'[f].blocks)
                 /\ frames'[f].blocks[i] = frames[f].blocks[i]
          <6>1. /\ Len(frames') = n /\ \A f \in 1 .. n - 1 : frames'[f] = frames[f]
                /\ Len(frames'[n].blocks) = d
                /\ \A i \in 1 .. d : frames'[n].blocks[i] = frames[n].blocks[i]
            BY <5>1 DEF IsCut, Keeps
          <6> SUFFICES ASSUME NEW f \in 1 .. Len(frames), NEW i \in 1 .. Len(frames[f].blocks)
                       PROVE  /\ f \in 1 .. Len(frames') /\ i \in 1 .. Len(frames'[f].blocks)
                              /\ frames'[f].blocks[i] = frames[f].blocks[i]
            OBVIOUS
          <6>2. f \in 1 .. n /\ (f = n => i <= d) /\ i \in Nat /\ i >= 1
            <7>1. Len(frames[f].blocks) \in Nat BY <2>1, NumbersIn
            <7> QED BY <5>4, <7>1
          <6>3. CASE f = n
            <7>1. i \in 1 .. d BY <5>3, <6>2, <6>3
            <7> QED BY <6>1, <6>2, <6>3, <7>1
          <6>4. CASE f # n
            <7>1. f \in 1 .. n - 1 BY <5>3, <6>2, <6>4
            <7>2. frames'[f] = frames[f] BY <6>1, <7>1
            <7> QED BY <6>1, <6>2, <7>2
          <6> QED BY <6>3, <6>4
        <5>8. head' \in HandledIn(frames') \cup {None}
          <6>1. head' = head /\ head \in HandledIn(frames) \cup {None} BY <2>2, <4>1
          <6>2. CASE head = None BY <6>1, <6>2
          <6>3. CASE head \in HandledIn(frames)
            <7>1. head \in HandledIn(frames') BY <5>7, <6>3, HandledGrows
            <7> QED BY <6>1, <7>1
          <6> QED BY <6>1, <6>2, <6>3
        <5> QED BY <4>1, <5>1, <5>6, <5>8
      <4> QED BY <4>1, <4>2, <4>3
    <3> QED
      BY <1>2, <3>1, <3>2, <3>3, <3>4, <3>5, <3>7, <3>8, <3>9, StructuredCases DEF StructuredInv
  <2>4. HandledNow' = HandledIn(frames')
    BY DEF HandledNow, HandledIn
  <2> QED BY <2>3, <2>4 DEF StructuredInv
<1> QED BY <1>1, <1>2

LEMMA StructuredInit == ExceptionConstants /\ Init => StructuredInv
<1> SUFFICES ASSUME ExceptionConstants, Init PROVE StructuredInv
  OBVIOUS
<1>1. /\ catchers = <<>> /\ head = None /\ status = "running"
  BY DEF Init
<1>2. PICK g \in [Tries(frames) -> 1 .. Len(catchers)] : Placed(g, frames, catchers)
  BY <1>1, CatchInit DEF CatchInv, Registered
<1>3. FilledBy(g, frames, catchers)
  <2>1. Len(catchers) = 0 BY <1>1
  <2> QED BY <1>2, <2>1 DEF FilledBy
<1>4. Filled(frames, catchers) BY <1>2, <1>3 DEF Filled
<1> QED BY <1>1, <1>4 DEF StructuredInv

\* Every place is filled while such a program runs, and no exception derails it
\* (vm.c:70-107, 947, 1318).
THEOREM PlacesAreFilled ==
    ASSUME ExceptionConstants PROVE StructuredSpec => [](CatchInv /\ StructuredInv)
<1>1. Init => CatchInv /\ StructuredInv BY CatchInit, StructuredInit
<1>2. CatchInv /\ StructuredInv /\ [Structured]_vars => (CatchInv /\ StructuredInv)'
  <2> SUFFICES ASSUME CatchInv, StructuredInv, [Structured]_vars PROVE (CatchInv /\ StructuredInv)'
    OBVIOUS
  <2>1. [Next]_vars BY DEF Next
  <2>2. CatchInv' BY <2>1, CatchStep
  <2>3. StructuredInv' BY StructuredStep DEF CatchInv
  <2> QED BY <2>2, <2>3
<1> QED BY <1>1, <1>2, PTL DEF StructuredSpec

\* A set that is numbered from 1 to n, each of its members once, has n members.
LEMMA Counted ==
    ASSUME NEW S, NEW n \in Nat, NEW g, \A q \in S : g[q] \in 1 .. n,
           \A q, r \in S : g[q] = g[r] => q = r,
           \A i \in 1 .. n : \E q \in S : g[q] = i
    PROVE  Cardinality(S) = n
<1> DEFINE At(i) == CHOOSE q \in S : g[q] = i
           h == [i \in 1 .. n |-> At(i)]
<1>1. \A i \in 1 .. n : At(i) \in S /\ g[At(i)] = i
  OBVIOUS
<1> HIDE DEF At
<1>2. h \in [1 .. n -> S] /\ \A i, j \in 1 .. n : h[i] = h[j] => i = j
  BY <1>1
<1>3. \A q \in S : \E i \in 1 .. n : h[i] = q
  <2> SUFFICES ASSUME NEW q \in S PROVE g[q] \in 1 .. n /\ h[g[q]] = q
    OBVIOUS
  <2> QED BY <1>1
<1> HIDE DEF h
<1>4. h \in Bijection(1 .. n, S)
  BY <1>2, <1>3 DEF Bijection, Injection, IsInjective, Surjection
<1> QED BY <1>4, FS_CountingElements DEF ExistsBijection

\* A place is the number of try statements inside, and one.
LEMMA PlaceCounts ==
    ASSUME ExceptionConstants, Typed, NEW g, FilledBy(g, frames, catchers)
    PROVE  /\ Cardinality(Tries(frames)) = Len(catchers)
           /\ \A p \in Tries(frames) :
                 Cardinality({q \in Tries(frames) : Inside(q, p)}) = g[p] - 1
<1> DEFINE T == Tries(frames)
<1>1. FramesTyped(frames) /\ Len(catchers) \in Nat
  BY DEF Typed
<1>2. /\ \A q \in T : g[q] \in 1 .. Len(catchers) /\ g[q] \in Nat
      /\ \A q, r \in T : Inside(q, r) => g[q] < g[r]
      /\ \A i \in 1 .. Len(catchers) : \E q \in T : g[q] = i
      /\ \A q, r \in T : q = r \/ Inside(q, r) \/ Inside(r, q)
  BY <1>1, TriesNest DEF FilledBy, Placed
<1> HIDE DEF T
<1>3. \A q, r \in T : g[q] = g[r] => q = r
  BY <1>2
<1>4. Cardinality(T) = Len(catchers)
  <2> DEFINE n == Len(catchers)
  <2>1. /\ n \in Nat /\ \A q \in T : g[q] \in 1 .. n
        /\ \A i \in 1 .. n : \E q \in T : g[q] = i
    BY <1>1, <1>2
  <2> HIDE DEF n
  <2>2. Cardinality(T) = n BY <1>3, <2>1, Counted
  <2> QED BY <2>2 DEF n
<1>5. ASSUME NEW p \in T PROVE Cardinality({q \in T : Inside(q, p)}) = g[p] - 1
  <2> DEFINE S == {q \in T : Inside(q, p)}
             k == g[p] - 1
  <2>1. k \in Nat /\ \A i \in 1 .. k : i \in 1 .. Len(catchers) /\ i < g[p] /\ i \in Nat
    BY <1>1, <1>2
  <2>2. \A q \in S : q \in T /\ g[q] \in 1 .. k
    BY <1>1, <1>2, <2>1
  <2>3. ASSUME NEW i \in 1 .. k PROVE \E q \in S : g[q] = i
    <3>1. PICK q \in T : g[q] = i BY <1>2, <2>1
    <3>2. q # p /\ ~ (g[p] < g[q]) BY <1>2, <2>1, <3>1
    <3>3. Inside(q, p) BY <1>2, <3>2
    <3> QED BY <3>1, <3>3
  <2>4. \A q, r \in S : g[q] = g[r] => q = r
    BY <1>3
  <2> HIDE DEF S, k
  <2>5. Cardinality(S) = k
    BY <2>1, <2>2, <2>3, <2>4, Counted
  <2> QED BY <2>5 DEF S, k
<1> QED BY <1>4, <1>5 DEF T

\* The catch stack is exactly the try statements control is inside of, innermost
\* first (vm.c:70-107, 947, 1318).
THEOREM CatchStackIsExact == ASSUME ExceptionConstants PROVE StructuredSpec => []CatchersAreLiveTries
<1>1. CatchInv /\ StructuredInv => CatchersAreLiveTries
  <2> SUFFICES ASSUME CatchInv, StructuredInv, Running PROVE CatchersAreLiveTries
    BY DEF CatchersAreLiveTries
  <2>1. PICK g \in [Tries(frames) -> 1 .. Len(catchers)] : FilledBy(g, frames, catchers)
    BY DEF StructuredInv, Filled
  <2>2. Typed BY DEF CatchInv
  <2>3. /\ Cardinality(Tries(frames)) = Len(catchers)
        /\ \A p \in Tries(frames) :
              Cardinality({q \in Tries(frames) : Inside(q, p)}) = g[p] - 1
    BY <2>1, <2>2, PlaceCounts
  <2>4. /\ \A p \in Tries(frames) : catchers[g[p]] = CatcherIn(frames, p)
        /\ \A k \in 1 .. Len(catchers) : \E p \in Tries(frames) : g[p] = k
    BY <2>1 DEF FilledBy, Placed
  <2>5. LiveTries = Tries(frames) /\ \A p \in LiveTries : CatcherOf(p) = CatcherIn(frames, p)
    BY DEF LiveTries, Tries, CatcherOf, CatcherIn
  <2>6. ASSUME NEW k \in 1 .. Len(catchers)
        PROVE  \E p \in LiveTries : /\ catchers[k] = CatcherOf(p)
                                    /\ k = 1 + Cardinality({q \in LiveTries : Inside(q, p)})
    <3>1. PICK p \in Tries(frames) : g[p] = k BY <2>4
    <3>2. catchers[k] = CatcherOf(p) BY <2>4, <2>5, <3>1
    <3>3. Len(catchers) \in Nat /\ k \in Nat BY <2>2 DEF Typed
    <3>4. k = 1 + Cardinality({q \in Tries(frames) : Inside(q, p)})
      BY <2>3, <3>1, <3>3
    <3> QED BY <2>5, <3>2, <3>4
  <2> QED BY <2>3, <2>5, <2>6 DEF CatchersAreLiveTries
<1> QED BY <1>1, PlacesAreFilled, PTL

\* No exception of such a program takes the virtual machine to a statement it is
\* not inside of: raise tells the truth (vm.c:70).
THEOREM NoneDerails == ASSUME ExceptionConstants PROVE StructuredSpec => []HandledByLiveTry
<1>1. StructuredInv => HandledByLiveTry BY DEF StructuredInv, HandledByLiveTry
<1> QED BY <1>1, PlacesAreFilled, PTL

\* An error continues in the innermost statement around it that lists its type, or
\* ends the run (vm.c:76-107).
THEOREM InnermostCatches == ASSUME ExceptionConstants PROVE StructuredSpec => InnermostTryCatches
<1>1. CatchInv /\ StructuredInv /\ CatchInv' /\ [Structured]_vars
         => [\A e \in Exceptions : RaiseNew(e) \/ RaiseAgain(e) => RaisedTo(e)]_vars
  <2> SUFFICES ASSUME CatchInv, StructuredInv, CatchInv', NEW e \in Exceptions,
                      RaiseNew(e) \/ RaiseAgain(e)
               PROVE  RaisedTo(e)
    OBVIOUS
  <2>1. Running /\ Raise(e, "running") BY DEF RaiseNew, RaiseAgain
  <2>2. Typed /\ Typed' /\ Filled(frames, catchers) BY <2>1 DEF CatchInv, StructuredInv
  <2> QED BY <2>1, <2>2, RaiseIsExact
<1> QED BY <1>1, PlacesAreFilled, PTL DEF StructuredSpec, InnermostTryCatches

\* The exception that stacktrace says was being handled when the newest one was
\* raised was bound by a catch part that ran then (vm.c:43-46, 71-75).
THEOREM ChainsWhatWasHandled == ASSUME ExceptionConstants PROVE StructuredSpec => RaisedDuringHandling
<1>1. CatchInv /\ StructuredInv /\ [Structured]_vars
         => [head' # head /\ head' # None => next'[head'] \in HandledNow \cup {None}]_vars
  <2> SUFFICES ASSUME CatchInv, StructuredInv, Structured, head' # head, head' # None
               PROVE  next'[head'] \in HandledNow \cup {None}
    BY DEF vars
  <2>1. Typed BY DEF CatchInv
  <2>2. CASE \E e \in Exceptions : Running /\ Raise(e, "running")
    <3>1. PICK e \in Exceptions : Running /\ Raise(e, "running") BY <2>2
    <3>2. head' = e /\ next' = [next EXCEPT ![e] = head] BY <3>1 DEF Raise
    <3>3. next'[e] = head BY <2>1, <3>2 DEF Typed
    <3> QED BY <3>1, <3>2, <3>3 DEF StructuredInv
  <2>3. CASE ~ \E e \in Exceptions : Running /\ Raise(e, "running")
    <3>1. CASE \E types \in CatchLists : EnterTry(types) BY <3>1 DEF EnterTry
    <3>2. CASE LeaveTry \/ LeaveCatch BY <3>2 DEF LeaveTry, LeaveCatch
    <3>3. CASE Declare \/ EndBlock BY <3>3 DEF Declare, EndBlock
    <3>4. CASE Call BY <3>4 DEF Call
    <3>5. CASE \E m \in Modules : Import(m) BY <3>5 DEF Import
    <3>6. CASE Return BY <3>6 DEF Return
    <3> QED BY <2>3, <3>1, <3>2, <3>3, <3>4, <3>5, <3>6, StructuredCases
  <2> QED BY <2>2, <2>3
<1> QED BY <1>1, PlacesAreFilled, PTL DEF StructuredSpec, RaisedDuringHandling
-----------------------------------------------------------------------------
(* The chain of exceptions. *)

\* A set that next does not lead out of.
IsClosed(S, nx) == S \subseteq Exceptions \cup {None} /\ \A e \in S \ {None} : nx[e] \in S

\* The chain ends: every closed set its head is in has None.
EndsFrom(h, nx) == \A S : IsClosed(S, nx) /\ h \in S => None \in S

LEMMA ReachIs ==
    ASSUME NEW h \in Exceptions \cup {None}, NEW x \in Exceptions \cup {None}
    PROVE  x \in Reach({h}) <=> \A S : IsClosed(S, next) /\ h \in S => x \in S
<1>1. ASSUME x \in Reach({h}), NEW S, IsClosed(S, next), h \in S PROVE x \in S
  <2>1. S \in SUBSET (Exceptions \cup {None}) BY <1>1 DEF IsClosed
  <2> QED BY <1>1, <2>1 DEF Reach, IsClosed
<1>2. ASSUME \A S : IsClosed(S, next) /\ h \in S => x \in S PROVE x \in Reach({h})
  <2>1. ASSUME NEW S \in SUBSET (Exceptions \cup {None}), {h} \subseteq S,
               \A e \in S \ {None} : next[e] \in S
        PROVE  x \in S
    BY <1>2, <2>1 DEF IsClosed
  <2> QED BY <2>1 DEF Reach
<1> QED BY <1>1, <1>2

LEMMA ChainEndsIs == Typed => (ChainEnds <=> EndsFrom(head, next))
<1> SUFFICES ASSUME Typed PROVE ChainEnds <=> EndsFrom(head, next)
  OBVIOUS
<1>1. head \in Exceptions \cup {None} BY DEF Typed
<1> QED BY <1>1, ReachIs DEF ChainEnds, EndsFrom

\* An exception that the chain's head does not lead to has a closed set around
\* the chain that it is not in.
LEMMA ApartIs ==
    ASSUME Typed, NEW e \in Exceptions,
           e \notin Reach({head}) \/ e \notin Reach({head} \cup HandledNow)
    PROVE  \E C : IsClosed(C, next) /\ head \in C /\ e \notin C
<1>1. head \in Exceptions \cup {None} BY DEF Typed
<1>2. CASE e \notin Reach({head})
  BY <1>1, <1>2, ReachIs
<1>3. CASE e \notin Reach({head} \cup HandledNow)
  <2>1. PICK S \in SUBSET (Exceptions \cup {None}) :
            /\ {head} \cup HandledNow \subseteq S /\ \A d \in S \ {None} : next[d] \in S
            /\ e \notin S
    BY <1>3 DEF Reach
  <2> QED BY <2>1 DEF IsClosed
<1> QED BY <1>2, <1>3

\* Such an exception can be put at the chain's head.
LEMMA ChainGrows ==
    ASSUME NEW h, NEW nx \in [Exceptions -> Exceptions \cup {None}], NEW e \in Exceptions,
           None \notin Exceptions, EndsFrom(h, nx),
           NEW C, IsClosed(C, nx), h \in C, e \notin C
    PROVE  EndsFrom(e, [nx EXCEPT ![e] = h])
<1> SUFFICES ASSUME NEW S, IsClosed(S, [nx EXCEPT ![e] = h]), e \in S
             PROVE  None \in S
  BY DEF EndsFrom
<1>1. h \in S
  BY DEF IsClosed
<1>2. IsClosed(S \cap C, nx)
  <2>1. ASSUME NEW d \in (S \cap C) \ {None} PROVE nx[d] \in S \cap C
    <3>1. d \in Exceptions /\ d # e BY <2>1 DEF IsClosed
    <3>2. [nx EXCEPT ![e] = h][d] = nx[d] BY <3>1
    <3> QED BY <2>1, <3>2 DEF IsClosed
  <2> QED BY <2>1 DEF IsClosed
<1> QED BY <1>1, <1>2 DEF EndsFrom

\* The chain of exceptions that stacktrace follows ends, whatever is raised again
\* during the handling of something else (vm.c:38-48, 69-75).
THEOREM ChainsEnd == ASSUME ExceptionConstants PROVE StructuredSpec => []ChainEnds
<1> DEFINE Inv == Typed /\ EndsFrom(head, next)
<1>1. Init => Inv
  <2> SUFFICES ASSUME Init PROVE Inv
    OBVIOUS
  <2>1. head = None BY DEF Init
  <2> QED BY <2>1, TypedInit DEF EndsFrom
<1>2. Inv /\ [Structured]_vars => Inv'
  <2> SUFFICES ASSUME Inv, [Structured]_vars PROVE Inv'
    OBVIOUS
  <2>1. Typed' BY TypedStep DEF Next
  <2>2. CASE head' = head /\ next' = next BY <2>1, <2>2
  <2>3. CASE head' = None BY <2>1, <2>3 DEF EndsFrom
  <2>4. ASSUME NEW e \in Exceptions, Raise(e, "running"),
               e = head \/ e \notin Reach({head}) \/ e \notin Reach({head} \cup HandledNow)
        PROVE  Inv'
    <3>1. CASE e = head BY <2>2, <2>4, <3>1 DEF Raise
    <3>2. CASE e # head
      <4>1. head' = e /\ next' = [next EXCEPT ![e] = head] BY <2>4, <3>2 DEF Raise
      <4>2. PICK C : IsClosed(C, next) /\ head \in C /\ e \notin C BY <2>4, <3>2, ApartIs
      <4>3. EndsFrom(e, [next EXCEPT ![e] = head])
        <5>1. None \notin Exceptions BY DEF ExceptionConstants
        <5>2. next \in [Exceptions -> Exceptions \cup {None}] BY DEF Typed
        <5> QED BY <4>2, <5>1, <5>2, ChainGrows
      <4> QED BY <2>1, <4>1, <4>3
    <3> QED BY <3>1, <3>2
  <2>5. CASE UNCHANGED vars BY <2>2, <2>5 DEF vars
  <2>6. CASE Structured
    <3>1. ASSUME NEW e \in Exceptions, RaiseNew(e) PROVE Inv'
      BY <2>4, <3>1 DEF RaiseNew, Fresh
    <3>2. ASSUME NEW e \in Exceptions,
                 RaiseAgain(e) /\ (e = head \/ e \notin Reach({head}))
          PROVE  Inv'
      BY <2>4, <3>2 DEF RaiseAgain
    <3>3. CASE \E types \in CatchLists : EnterTry(types) BY <2>2, <3>3 DEF EnterTry
    <3>4. CASE LeaveTry BY <2>3, <3>4 DEF LeaveTry
    <3>5. CASE LeaveCatch BY <2>3, <3>5 DEF LeaveCatch
    <3>6. CASE Declare \/ EndBlock BY <2>2, <3>6 DEF Declare, EndBlock
    <3>7. CASE Call BY <2>2, <3>7 DEF Call
    <3>8. CASE \E m \in Modules : Import(m) BY <2>2, <3>8 DEF Import
    <3>9. CASE Return BY <2>2, <3>9 DEF Return
    <3> QED BY <2>6, <3>1, <3>2, <3>3, <3>4, <3>5, <3>6, <3>7, <3>8, <3>9 DEF Structured
  <2> QED BY <2>5, <2>6
<1>3. Inv => ChainEnds
  BY ChainEndsIs
<1> QED BY <1>1, <1>2, <1>3, PTL DEF StructuredSpec
-----------------------------------------------------------------------------
(* The source path. *)

ModulesIn(fs) == {f \in 1 .. Len(fs) : fs[f].module \in Modules}

Within(fs, f) == {g \in ModulesIn(fs) : g <= f}

Latest(S) == CHOOSE g \in S : \A h \in S : h <= g

PathIn(fs, f) == IF Within(fs, f) = {} THEN Main ELSE fs[Latest(Within(fs, f))].module

PathsRightIn(fs, p) ==
    /\ p = PathIn(fs, Len(fs))
    /\ \A f \in ModulesIn(fs) : fs[f].saved = PathIn(fs, f - 1)

LEMMA PathsRightIs ==
    /\ PathsRight <=> (Running => PathsRightIn(frames, path))
    /\ ModuleFrames = ModulesIn(frames)
<1>1. ModuleFrames = ModulesIn(frames)
  BY DEF ModuleFrames, ModulesIn
<1>2. ASSUME NEW f PROVE PathAt(f) = PathIn(frames, f)
  BY DEF PathAt, PathIn, Within, Latest, ModuleFrames, ModulesIn
<1> QED BY <1>1, <1>2 DEF PathsRight, PathsRightIn

\* A nonempty set of naturals with a bound has a greatest member.
LEMMA LatestIs ==
    ASSUME NEW f \in Nat, NEW S, S \subseteq 0 .. f, S # {}
    PROVE  Latest(S) \in S /\ \A h \in S : h <= Latest(S)
<1> DEFINE D == {f - g : g \in S}
<1>1. D \subseteq Nat /\ D # {}
  <2>1. \A g \in S : g \in Nat /\ f - g \in Nat OBVIOUS
  <2> QED BY <2>1
<1>2. Min(D) \in D /\ \A x \in D : Min(D) <= x
  BY <1>1, MinIs
<1>3. PICK g \in S : Min(D) = f - g
  BY <1>2
<1>4. ASSUME NEW h \in S PROVE h <= g
  <2>1. f - h \in D OBVIOUS
  <2>2. f - g <= f - h BY <1>2, <1>3, <2>1
  <2>3. h \in Int /\ g \in Int OBVIOUS
  <2> QED BY <2>2, <2>3
<1> QED BY <1>4 DEF Latest

\* Frames with the same modules have the same paths.
LEMMA PathSame ==
    ASSUME NEW fs, NEW fs2, NEW f, NEW f2, NEW m \in Nat,
           Within(fs, f) = Within(fs2, f2), Within(fs, f) \subseteq 0 .. m,
           \A g \in Within(fs, f) : fs2[g].module = fs[g].module
    PROVE  PathIn(fs2, f2) = PathIn(fs, f)
<1>1. CASE Within(fs, f) = {} BY <1>1 DEF PathIn
<1>2. CASE Within(fs, f) # {}
  <2> DEFINE S == Within(fs, f)
  <2>1. Latest(S) \in S BY <1>2, LatestIs
  <2>2. fs2[Latest(S)].module = fs[Latest(S)].module BY <2>1
  <2> QED BY <1>2, <2>2 DEF PathIn
<1> QED BY <1>1, <1>2

\* At a module's frame the path is its own, at another the one of the frame below.
LEMMA PathSteps ==
    ASSUME ExceptionConstants, NEW fs, FramesTyped(fs), NEW f \in 1 .. Len(fs)
    PROVE  /\ f \in ModulesIn(fs) => PathIn(fs, f) = fs[f].module
           /\ f \notin ModulesIn(fs) => PathIn(fs, f) = PathIn(fs, f - 1)
<1>1. Len(fs) \in Nat /\ f \in Nat /\ ModulesIn(fs) \subseteq 1 .. Len(fs)
  BY NumbersIn DEF ModulesIn
<1>2. \A g \in ModulesIn(fs) : g \in Nat /\ g >= 1
  BY <1>1
<1>3. ASSUME f \in ModulesIn(fs) PROVE PathIn(fs, f) = fs[f].module
  <2> DEFINE S == Within(fs, f)
  <2>1. S \subseteq 0 .. f /\ f \in S /\ S # {} BY <1>1, <1>2, <1>3 DEF Within
  <2>2. \A h \in S : h <= f BY DEF Within
  <2> HIDE DEF S
  <2>3. Latest(S) \in S /\ f <= Latest(S) /\ Latest(S) <= f BY <1>1, <2>1, <2>2, LatestIs
  <2>4. Latest(S) \in Nat
    <3>1. \A h \in S : h \in Nat BY <1>1, <2>1
    <3> QED BY <2>3, <3>1
  <2>5. Latest(S) = f BY <1>1, <2>3, <2>4
  <2> QED BY <2>1, <2>5 DEF PathIn, S
<1>4. ASSUME f \notin ModulesIn(fs) PROVE PathIn(fs, f) = PathIn(fs, f - 1)
  <2>1. \A g \in ModulesIn(fs) : g <= f <=> g <= f - 1 BY <1>1, <1>2, <1>4
  <2>2. Within(fs, f) = Within(fs, f - 1) BY <2>1 DEF Within
  <2> QED BY <2>2 DEF PathIn
<1> QED BY <1>3, <1>4

\* The paths of the frames that are kept are as they were.
LEMMA PathsBelow ==
    ASSUME ExceptionConstants, NEW fs, FramesTyped(fs), NEW fs2, NEW n \in Nat,
           n <= Len(fs), n <= Len(fs2), Len(fs2) \in Nat,
           \A f \in 1 .. n : fs2[f].module = fs[f].module,
           NEW f \in 0 .. n
    PROVE  PathIn(fs2, f) = PathIn(fs, f) /\ Within(fs2, f) = Within(fs, f)
<1>1. Len(fs) \in Nat /\ f \in Nat
  BY NumbersIn
<1>2. \A g : g \in Within(fs, f) <=> g \in 1 .. f /\ fs[g].module \in Modules
  BY <1>1 DEF Within, ModulesIn
<1>3. \A g : g \in Within(fs2, f) <=> g \in 1 .. f /\ fs2[g].module \in Modules
  BY <1>1 DEF Within, ModulesIn
<1>4. \A g \in 1 .. f : fs2[g].module = fs[g].module
  BY <1>1
<1>5. Within(fs2, f) = Within(fs, f)
  BY <1>2, <1>3, <1>4
<1>6. Within(fs, f) \subseteq 0 .. f /\ \A g \in Within(fs, f) : fs2[g].module = fs[g].module
  BY <1>1, <1>2, <1>4
<1> QED BY <1>1, <1>5, <1>6, PathSame

\* Frames are cut back, and none of a module is left.
LEMMA PathsKept ==
    ASSUME ExceptionConstants, NEW fs, FramesTyped(fs), NEW n, NEW d, NEW fs2, FramesTyped(fs2),
           Keeps(fs, n, d, fs2), NEW p, PathsRightIn(fs, p), ModulesIn(fs2) = ModulesIn(fs)
    PROVE  PathsRightIn(fs2, p)
<1>1. /\ n \in 1 .. Len(fs) /\ Len(fs) \in Nat /\ n \in Nat /\ Len(fs2) = n /\ n <= Len(fs)
      /\ \A f \in 1 .. n : fs2[f].module = fs[f].module /\ fs2[f].saved = fs[f].saved
  <2>1. /\ n \in 1 .. Len(fs) /\ Len(fs2) = n
        /\ \A f \in 1 .. n - 1 : fs2[f] = fs[f]
        /\ fs2[n].module = fs[n].module /\ fs2[n].saved = fs[n].saved
    BY DEF Keeps
  <2>2. Len(fs) \in Nat BY NumbersIn
  <2>3. n \in Nat /\ n <= Len(fs) BY <2>1, <2>2
  <2>4. \A f \in 1 .. n : f = n \/ f \in 1 .. n - 1 BY <2>3
  <2> QED BY <2>1, <2>2, <2>3, <2>4
<1>2. ModulesIn(fs2) \subseteq 1 .. n
  BY <1>1 DEF ModulesIn
<1>3. PathIn(fs2, n) = PathIn(fs, Len(fs))
  <2>1. Within(fs, Len(fs)) = ModulesIn(fs) /\ Within(fs2, n) = ModulesIn(fs)
    BY <1>1, <1>2 DEF Within
  <2>2. Within(fs, Len(fs)) \subseteq 0 .. n
        /\ \A g \in Within(fs, Len(fs)) : fs2[g].module = fs[g].module
    BY <1>1, <1>2, <2>1
  <2>3. Within(fs, Len(fs)) = Within(fs2, n) BY <2>1
  <2> QED BY <1>1, <2>2, <2>3, PathSame
<1>4. ASSUME NEW f \in ModulesIn(fs2) PROVE fs2[f].saved = PathIn(fs2, f - 1)
  <2>1. f \in 1 .. n /\ f - 1 \in 0 .. n /\ f \in ModulesIn(fs) BY <1>1, <1>2
  <2>2. fs[f].saved = PathIn(fs, f - 1) BY <2>1 DEF PathsRightIn
  <2>3. PathIn(fs2, f - 1) = PathIn(fs, f - 1)
    <3>1. n <= Len(fs2) /\ Len(fs2) \in Nat /\ n \in Nat /\ n <= Len(fs)
      BY <1>1
    <3>2. \A i \in 1 .. n : fs2[i].module = fs[i].module
      BY <1>1
    <3>3. \A i \in 0 .. n : PathIn(fs2, i) = PathIn(fs, i)
      <4> SUFFICES ASSUME NEW i \in 0 .. n PROVE PathIn(fs2, i) = PathIn(fs, i)
        OBVIOUS
      <4> QED BY <3>1, <3>2, PathsBelow
    <3> QED BY <2>1, <3>3
  <2> QED BY <1>1, <2>1, <2>2, <2>3
<1> QED BY <1>1, <1>3, <1>4 DEF PathsRightIn

\* No frame is left.
LEMMA ModulesKept ==
    ASSUME ExceptionConstants, NEW fs, FramesTyped(fs), NEW d, NEW fs2, Keeps(fs, Len(fs), d, fs2)
    PROVE  ModulesIn(fs2) = ModulesIn(fs)
<1> DEFINE n == Len(fs)
<1>1. Len(fs2) = n /\ n \in Nat
      /\ \A f \in 1 .. n : f = n \/ f \in 1 .. n - 1
  BY NumbersIn DEF Keeps
<1>2. \A f \in 1 .. n : fs2[f].module = fs[f].module
  BY <1>1 DEF Keeps
<1> QED BY <1>1, <1>2 DEF ModulesIn

\* A frame is added: a module's, which saves the path, or another.
LEMMA PathsCalled ==
    ASSUME ExceptionConstants, NEW fs, FramesTyped(fs), NEW fr, NEW fs2, FramesTyped(fs2),
           IsCall(fs, fr, fs2), NEW p, PathsRightIn(fs, p), NEW p2,
           IF fr.module \in Modules THEN p2 = fr.module /\ fr.saved = p ELSE p2 = p
    PROVE  PathsRightIn(fs2, p2)
<1> DEFINE n == Len(fs) + 1
<1>1. /\ Len(fs) \in Nat /\ Len(fs2) = n /\ n \in Nat /\ n \in 1 .. Len(fs2) /\ fs2[n] = fr
      /\ \A f \in 1 .. Len(fs) : fs2[f] = fs[f]
      /\ n - 1 = Len(fs) /\ Len(fs) <= Len(fs2) /\ Len(fs2) \in Nat
  BY NumbersIn DEF IsCall
<1> HIDE DEF n
<1>2. \A f \in 0 .. Len(fs) : PathIn(fs2, f) = PathIn(fs, f)
  <2>1. \A f \in 1 .. Len(fs) : fs2[f].module = fs[f].module BY <1>1
  <2>2. Len(fs) <= Len(fs) BY <1>1
  <2> SUFFICES ASSUME NEW f \in 0 .. Len(fs) PROVE PathIn(fs2, f) = PathIn(fs, f)
    OBVIOUS
  <2> QED BY <1>1, <2>1, <2>2, PathsBelow
<1>3. PathIn(fs2, n - 1) = p
  <2>1. Len(fs) \in 0 .. Len(fs) BY <1>1
  <2> QED BY <1>1, <1>2, <2>1 DEF PathsRightIn
<1>4. n \in ModulesIn(fs2) <=> fr.module \in Modules
  BY <1>1 DEF ModulesIn
<1>5. PathIn(fs2, n) = p2
  BY <1>1, <1>3, <1>4, PathSteps
<1>6. ASSUME NEW f \in ModulesIn(fs2) PROVE fs2[f].saved = PathIn(fs2, f - 1)
  <2>1. CASE f = n BY <1>1, <1>3, <1>4, <2>1
  <2>2. CASE f # n
    <3>1. f \in 1 .. n BY <1>1 DEF ModulesIn
    <3>2. f \in 1 .. Len(fs) /\ f - 1 \in 0 .. Len(fs) BY <1>1, <2>2, <3>1
    <3>3. f \in ModulesIn(fs) BY <1>1, <3>2 DEF ModulesIn
    <3>4. fs[f].saved = PathIn(fs, f - 1) BY <3>3 DEF PathsRightIn
    <3> QED BY <1>1, <1>2, <3>2, <3>4
  <2> QED BY <2>1, <2>2
<1> QED BY <1>1, <1>5, <1>6 DEF PathsRightIn

\* The last frame is left, and the path is the one it saved if it was a module's.
LEMMA PathsReturned ==
    ASSUME ExceptionConstants, NEW fs, FramesTyped(fs), Len(fs) > 1, NEW d, NEW fs2,
           FramesTyped(fs2), IsCut(fs, Len(fs) - 1, d, fs2), NEW p, PathsRightIn(fs, p)
    PROVE  PathsRightIn(fs2, IF fs[Len(fs)].module \in Modules THEN fs[Len(fs)].saved ELSE p)
<1> DEFINE m == Len(fs)
           n == m - 1
           p2 == IF fs[m].module \in Modules THEN fs[m].saved ELSE p
<1>1. /\ m \in Nat /\ n \in Nat /\ n \in 1 .. m /\ m \in 1 .. m /\ n <= m /\ m = n + 1
      /\ Len(fs2) = n
  BY NumbersIn DEF IsCut, Keeps
<1>2. \A f \in 1 .. n : fs2[f].module = fs[f].module /\ fs2[f].saved = fs[f].saved
  <2>1. /\ \A f \in 1 .. n - 1 : fs2[f] = fs[f]
        /\ fs2[n].module = fs[n].module /\ fs2[n].saved = fs[n].saved
    BY DEF IsCut, Keeps
  <2> HIDE DEF n
  <2>2. \A f \in 1 .. n : f = n \/ f \in 1 .. n - 1 BY <1>1
  <2> QED BY <2>1, <2>2
<1>3. p2 = PathIn(fs, n)
  <2>1. m \in ModulesIn(fs) <=> fs[m].module \in Modules BY <1>1 DEF ModulesIn
  <2>2. p = PathIn(fs, m) /\ (m \in ModulesIn(fs) => fs[m].saved = PathIn(fs, n))
    BY DEF PathsRightIn
  <2>3. m \notin ModulesIn(fs) => PathIn(fs, m) = PathIn(fs, n)
    BY <1>1, PathSteps
  <2> QED BY <2>1, <2>2, <2>3
<1> HIDE DEF n, m, p2
<1>4. \A f \in 0 .. n : PathIn(fs2, f) = PathIn(fs, f)
  <2> SUFFICES ASSUME NEW f \in 0 .. n PROVE PathIn(fs2, f) = PathIn(fs, f)
    OBVIOUS
  <2>1. \A i \in 1 .. n : fs2[i].module = fs[i].module BY <1>2
  <2>2. n <= Len(fs) /\ n <= Len(fs2) /\ Len(fs2) \in Nat BY <1>1 DEF m
  <2> QED BY <1>1, <2>1, <2>2, PathsBelow
<1>5. p2 = PathIn(fs2, Len(fs2))
  BY <1>1, <1>3, <1>4
<1>6. ASSUME NEW f \in ModulesIn(fs2) PROVE fs2[f].saved = PathIn(fs2, f - 1)
  <2>1. f \in 1 .. n /\ f - 1 \in 0 .. n /\ f \in 1 .. m BY <1>1 DEF ModulesIn
  <2>2. f \in ModulesIn(fs)
    <3>1. fs[f].module \in Modules BY <1>2, <2>1 DEF ModulesIn
    <3> QED BY <2>1, <3>1 DEF ModulesIn, m
  <2>3. fs[f].saved = PathIn(fs, f - 1) BY <2>2 DEF PathsRightIn
  <2> QED BY <1>2, <1>4, <2>1, <2>3
<1> QED BY <1>5, <1>6 DEF PathsRightIn, p2, m

\* source_path is the file that runs, and each module's frame has saved the one it
\* gives back, over calls, imports, returns and exceptions that leave no module
\* (vm.c:253, 699, 715).
THEOREM PathIsKept == ASSUME ExceptionConstants PROVE StructuredSpec => PathKept
<1>1. CatchInv /\ StructuredInv /\ CatchInv' /\ [Structured]_vars
         => [PathsRight /\ ~ LeavesModuleByError => PathsRight']_vars
  <2> SUFFICES ASSUME CatchInv, StructuredInv, CatchInv', Structured,
                      PathsRight, ~ LeavesModuleByError
               PROVE  PathsRight'
    BY DEF vars
  <2>1. Typed /\ FramesTyped(frames) /\ FramesTyped(frames')
    BY DEF CatchInv, Typed
  <2>2. /\ PathsRight' <=> (Running' => PathsRightIn(frames', path'))
        /\ ModuleFrames' = ModulesIn(frames') /\ ModuleFrames = ModulesIn(frames)
    BY DEF PathsRight, PathsRightIn, PathAt, PathIn, Within, Latest, ModuleFrames, ModulesIn
  <2>3. Running => PathsRightIn(frames, path)
    BY PathsRightIs
  <2> SUFFICES ASSUME Running' PROVE PathsRightIn(frames', path')
    BY <2>2
  <2>4. CASE \E e \in Exceptions : RaiseNew(e) \/ RaiseAgain(e)
    <3>1. PICK e \in Exceptions : Running /\ Raise(e, "running")
      BY <2>4 DEF RaiseNew, RaiseAgain
    <3>2. Caught(FirstMatch(e), e, "running")
      BY <2>1, <3>1, RaiseIs DEF Uncaught, Derails
    <3>3. path' = path BY <3>1 DEF Raise
    <3>4. ModulesIn(frames') = ModulesIn(frames)
      BY <2>2, <2>4 DEF LeavesModuleByError
    <3> DEFINE c == catchers[FirstMatch(e)]
    <3>5. Keeps(frames, c.frame, c.depth, frames')
      BY <3>2 DEF Caught, IsPut
    <3> HIDE DEF c
    <3> QED BY <2>1, <2>3, <3>1, <3>3, <3>4, <3>5, PathsKept
  <2>5. ASSUME NEW d, Keeps(frames, Len(frames), d, frames'), path' = path, Running
        PROVE  PathsRightIn(frames', path')
    <3>1. ModulesIn(frames') = ModulesIn(frames) BY <2>1, <2>5, ModulesKept
    <3>2. PathsRightIn(frames, path) BY <2>3, <2>5
    <3> DEFINE n == Len(frames)
    <3>3. Keeps(frames, n, d, frames') BY <2>5
    <3> HIDE DEF n
    <3>4. PathsRightIn(frames', path) BY <2>1, <3>1, <3>2, <3>3, PathsKept
    <3> QED BY <2>5, <3>4
  <2>6. CASE \E types \in CatchLists : EnterTry(types)
    <3>1. PICK types \in CatchLists : EnterTry(types) BY <2>6
    <3>2. path' = path BY <3>1 DEF EnterTry
    <3> QED BY <2>1, <2>5, <3>1, <3>2, EnterTryIs DEF IsPut
  <2>7. CASE LeaveTry \/ LeaveCatch
    <3>1. Running /\ Leaves(Len(Active.blocks) - 1) /\ path' = path
      BY <2>1, <2>7, LeaveTryIs, LeaveCatchIs
    <3> QED BY <2>5, <3>1 DEF Leaves, IsCut
  <2>8. CASE Declare \/ EndBlock
    <3>1. Running /\ frames' = frames /\ path' = path BY <2>1, <2>8, StackIs
    <3> QED BY <2>3, <3>1
  <2>9. CASE Call
    <3> DEFINE fr == Frame(None, None)
    <3>1. Running /\ IsCall(frames, fr, frames') /\ path' = path BY <2>1, <2>9, CallActionIs
    <3>2. fr.module \notin Modules BY DEF Frame, ExceptionConstants
    <3> HIDE DEF fr
    <3> QED BY <2>1, <2>3, <3>1, <3>2, PathsCalled
  <2>10. CASE \E m \in Modules : Import(m)
    <3>1. PICK m \in Modules : Import(m) BY <2>10
    <3> DEFINE fr == Frame(m, path)
    <3>2. Running /\ IsCall(frames, fr, frames') /\ path' = m BY <2>1, <3>1, ImportIs
    <3>3. fr.module = m /\ fr.saved = path BY DEF Frame
    <3> HIDE DEF fr
    <3> QED BY <2>1, <2>3, <3>2, <3>3, PathsCalled
  <2>11. CASE Return
    <3>1. Running /\ (Returns \/ Ends) /\ status' = "running" /\ frames # <<>>
          /\ path' = (IF Active.module \in Modules THEN Active.saved ELSE path)
      BY <2>1, <2>11, ReturnIs DEF Typed
    <3>2. /\ Len(frames) > 1
          /\ IsCut(frames, Len(frames) - 1, Len(frames[Len(frames) - 1].blocks), frames')
      BY <3>1 DEF Returns, Ends
    <3>3. Active = frames[Len(frames)] BY <2>1, <3>1, ActiveIs
    <3>4. PathsRightIn(frames', IF frames[Len(frames)].module \in Modules
                                THEN frames[Len(frames)].saved ELSE path)
      BY <2>1, <2>3, <3>1, <3>2, PathsReturned
    <3> QED BY <3>1, <3>3, <3>4
  <2> QED BY <2>4, <2>6, <2>7, <2>8, <2>9, <2>10, <2>11 DEF Structured
<1> QED BY <1>1, PlacesAreFilled, PTL DEF StructuredSpec, PathKept
===============================================================================
