------------------------------ MODULE Exceptions ------------------------------
(***************************************************************************)
(* try, catch and raise: the code compiler.c emits for a try statement, and *)
(* the catch stack, the exception chain, the call frames and the source     *)
(* path that src/vm.c keeps for it at run time.                             *)
(*                                                                         *)
(* A frame's instruction pointer is abstracted to the try statements it is  *)
(* inside of: its blocks, outermost first, each a try part or a catch part. *)
(* A catch address is the number of blocks around its try statement.        *)
(***************************************************************************)
EXTENDS Integers, Sequences, SequencesExt, FiniteSets

CONSTANTS Types,              \* error types
          Exceptions, TypeOf, \* exception objects and the type of each
          CatchLists,         \* the type lists of the program's catch clauses
          Main, Modules,      \* source files: the script, what it imports
          None,
          MaxFrames,          \* FRAMES_MAX, 1024 in the code
          MaxBlocks,          \* bound on the try statements around a statement
          MaxHeight,          \* bound on the stack's length
          MaxCatchers         \* bound on the catch stack

ASSUME ExceptionConstants ==
    /\ TypeOf \in [Exceptions -> Types] /\ CatchLists \subseteq SUBSET Types
    /\ Main \notin Modules /\ None \notin Exceptions \cup Modules \cup {Main}
    /\ {MaxFrames, MaxBlocks, MaxHeight, MaxCatchers} \subseteq Nat \ {0}

VARIABLES frames,    \* the call stack, the last frame active; the module a file's
                     \* frame runs, or None, and the source path it saved
          height,    \* STACK_LEN
          catchers,  \* catch_stack, head first
          head,      \* exception_stack, the newest exception
          next,      \* each exception's next field
          path,      \* source_path
          status     \* running, or how run() ended: done, uncaught, stopped, derailed

vars == <<frames, height, catchers, head, next, path, status>>
-----------------------------------------------------------------------------
Matches(types, e) == types = {} \/ TypeOf[e] \in types

Try(types)       == [kind |-> "try", types |-> types, height |-> height, exc |-> None]
Handler(h, e)    == [kind |-> "catch", types |-> {}, height |-> h, exc |-> e]
Frame(m, saved)  == [blocks |-> <<>>, base |-> height, module |-> m, saved |-> saved]

Active == frames[Len(frames)]
SetBlocks(bs) == frames' = [frames EXCEPT ![Len(frames)].blocks = bs]

\* The lowest height a statement with d blocks of the active frame around it sees.
Floor(d) == IF d = 0 THEN Active.base + 1 ELSE Active.blocks[d].height

\* The exceptions bound by the catch parts that are running.
HandledNow ==
    (UNION {{b.exc : b \in ToSet(frames[f].blocks)} : f \in 1 .. Len(frames)}) \ {None}

\* What is reached from some exceptions along next: what every set has that holds
\* those and, with each exception, the next one.
Reach(from) ==
    {x \in Exceptions \cup {None} :
        \A S \in SUBSET (Exceptions \cup {None}) :
            from \subseteq S /\ (\A e \in S \ {None} : next[e] \in S) => x \in S}

\* Any exception nothing refers to stands for a new one.
Fresh(e) == e \notin Reach({head} \cup HandledNow)

\* A catcher names a live try statement when the frame it was registered in is
\* still inside that statement.
IsLive(c) ==
    /\ c.frame \in 1 .. Len(frames)
    /\ LET bs == frames[c.frame].blocks
       IN  /\ Len(bs) > c.depth
           /\ bs[c.depth + 1].kind = "try"
           /\ bs[c.depth + 1].types = c.types
           /\ bs[c.depth + 1].height = c.height

\* The first catcher that wants an exception, 0 if none does.
FirstMatch(e) == SelectInSeq(catchers, LAMBDA c : Matches(c.types, e))

\* The call stack in the catch part of a catcher's try statement.
Unwound(c, e) ==
    [SubSeq(frames, 1, c.frame) EXCEPT ![c.frame].blocks =
        Append(SubSeq(@, 1, c.depth), Handler(c.height, e))]

FreedCatcher == [frame |-> 0, depth |-> 0, height |-> 0, types |-> {}]

Init == /\ frames = <<[blocks |-> <<>>, base |-> 0, module |-> Main, saved |-> None]>>
        /\ height = 1
        /\ catchers = <<>>
        /\ head = None /\ next = [e \in Exceptions |-> None]
        /\ path = Main
        /\ status = "running"

Running == status = "running"

\* Faults: an exception is chained to itself when it is raised again; the stack
\* is cut back to the frame and not to the try statement.
Raise_ChainsAgain(e, handledStatus) ==
    /\ head' = e /\ next' = [next EXCEPT ![e] = head]
    /\ LET k == FirstMatch(e)
           c == catchers[k]
       IN  IF k = 0 THEN status' = "uncaught" /\ catchers' = <<>> /\ frames' = <<>> /\ height' = 0
           ELSE /\ catchers' = SubSeq(catchers, k + 1, Len(catchers))
                /\ status' = handledStatus /\ height' = c.height + 1
                /\ frames' = Unwound(c, e)
    /\ UNCHANGED path

Raise_CutsToFrame(e, handledStatus) ==
    /\ IF e = head THEN UNCHANGED <<head, next>>
       ELSE head' = e /\ next' = [next EXCEPT ![e] = head]
    /\ LET k == FirstMatch(e)
           c == catchers[k]
       IN  IF k = 0 \/ ~IsLive(c)
           THEN status' = "uncaught" /\ catchers' = <<>> /\ frames' = <<>> /\ height' = 0
           ELSE /\ catchers' = SubSeq(catchers, k + 1, Len(catchers))
                /\ status' = handledStatus /\ height' = frames[c.frame].base + 2
                /\ frames' = Unwound(c, e)
    /\ UNCHANGED path

\* raise: chain the exception, free the catchers that do not want it, and
\* continue in the catch part of the one that does; without one, print the
\* chain and leave run(), with catch_stack pointing at what was freed.
Raise(e, handledStatus) ==
    /\ IF e = head THEN UNCHANGED <<head, next>>
       ELSE head' = e /\ next' = [next EXCEPT ![e] = head]
    /\ LET k == FirstMatch(e)
           c == catchers[k]
       IN  IF k = 0
           THEN /\ status' = "uncaught"
                /\ catchers' = IF catchers = <<>> THEN <<>> ELSE <<FreedCatcher>>
                /\ frames' = <<>> /\ height' = 0
           ELSE /\ catchers' = SubSeq(catchers, k + 1, Len(catchers))
                /\ IF IsLive(c)
                   THEN /\ status' = handledStatus
                        /\ height' = c.height + 1
                        /\ frames' = Unwound(c, e)
                   ELSE status' = "derailed" /\ UNCHANGED <<frames, height>>
    /\ UNCHANGED path

\* runtime_error in any instruction, or a raise statement on a new exception.
RaiseNew(e) ==
    /\ Running /\ Fresh(e)
    /\ Raise(e, "running")

\* A raise statement on the exception an enclosing catch part has bound.
RaiseAgain(e) ==
    /\ Running /\ e \in HandledNow
    /\ Raise(e, "running")

\* OP_IMPORT of a file that cannot be read: read_import_file raises, and run()
\* returns an error whether or not a catcher took the exception.
ImportFails(e) ==
    /\ Running /\ Fresh(e)
    /\ Raise(e, "stopped")

\* Fault: the catcher is registered behind the ones of the statements around it.
EnterTry_Behind(types) ==
    /\ Running /\ Len(Active.blocks) < MaxBlocks /\ Len(catchers) < MaxCatchers
    /\ SetBlocks(Append(Active.blocks, Try(types)))
    /\ catchers' = Append(catchers, [frame |-> Len(frames), depth |-> Len(Active.blocks),
                                     height |-> height, types |-> types])
    /\ UNCHANGED <<height, head, next, path, status>>

\* OP_REGISTER_CATCH, before the statement of the try part.
EnterTry(types) ==
    /\ Running /\ Len(Active.blocks) < MaxBlocks /\ Len(catchers) < MaxCatchers
    /\ SetBlocks(Append(Active.blocks, Try(types)))
    /\ catchers' = <<[frame |-> Len(frames), depth |-> Len(Active.blocks),
                      height |-> height, types |-> types]>> \o catchers
    /\ UNCHANGED <<height, head, next, path, status>>

\* The end of the try part: its locals are popped, OP_UNREGISTER_CATCH takes the
\* head of the catch stack, OP_MARK_ERRORS_HANDLED forgets every exception.
LeaveTry ==
    /\ Running /\ Active.blocks # <<>> /\ Last(Active.blocks).kind = "try"
    /\ SetBlocks(Front(Active.blocks))
    /\ height' = Last(Active.blocks).height
    /\ catchers' = IF catchers = <<>> THEN <<>> ELSE Tail(catchers)
    /\ head' = None
    /\ UNCHANGED <<next, path, status>>

\* Faults: the jump leads to OP_UNREGISTER_CATCH; it leads past
\* OP_MARK_ERRORS_HANDLED too.
LeaveCatch_Unregisters ==
    /\ Running /\ Active.blocks # <<>> /\ Last(Active.blocks).kind = "catch"
    /\ SetBlocks(Front(Active.blocks))
    /\ height' = Last(Active.blocks).height
    /\ catchers' = IF catchers = <<>> THEN <<>> ELSE Tail(catchers)
    /\ head' = None
    /\ UNCHANGED <<next, path, status>>

LeaveCatch_KeepsErrors ==
    /\ Running /\ Active.blocks # <<>> /\ Last(Active.blocks).kind = "catch"
    /\ SetBlocks(Front(Active.blocks))
    /\ height' = Last(Active.blocks).height
    /\ UNCHANGED <<catchers, head, next, path, status>>

\* The end of the catch part, which the jump leads past OP_UNREGISTER_CATCH.
LeaveCatch ==
    /\ Running /\ Active.blocks # <<>> /\ Last(Active.blocks).kind = "catch"
    /\ SetBlocks(Front(Active.blocks))
    /\ height' = Last(Active.blocks).height
    /\ head' = None
    /\ UNCHANGED <<catchers, next, path, status>>

\* break and continue: the n innermost try statements are left by a jump, the
\* locals of the loop's body are popped, and nothing is unregistered.
LeaveLoop(n, h) ==
    /\ Running
    /\ LET d == Len(Active.blocks) - n
       IN  /\ h \in Floor(d) .. Active.blocks[d + 1].height
           /\ SetBlocks(SubSeq(Active.blocks, 1, d))
    /\ height' = h
    /\ UNCHANGED <<catchers, head, next, path, status>>

Declare ==
    /\ Running /\ height < MaxHeight
    /\ height' = height + 1
    /\ UNCHANGED <<frames, catchers, head, next, path, status>>

EndBlock ==
    /\ Running /\ height > Floor(Len(Active.blocks))
    /\ height' = height - 1
    /\ UNCHANGED <<frames, catchers, head, next, path, status>>

\* Fault: no test of FRAMES_MAX.
Call_Unchecked ==
    /\ Running /\ height < MaxHeight
    /\ frames' = Append(frames, Frame(None, None))
    /\ height' = height + 1
    /\ UNCHANGED <<catchers, head, next, path, status>>

\* The callee is pushed, and becomes slot 0 of the new frame.
Call ==
    /\ Running /\ Len(frames) < MaxFrames /\ height < MaxHeight
    /\ frames' = Append(frames, Frame(None, None))
    /\ height' = height + 1
    /\ UNCHANGED <<catchers, head, next, path, status>>

\* OP_IMPORT of a file: the module's code runs in a frame of its own.
Import(m) ==
    /\ Running /\ Len(frames) < MaxFrames /\ height < MaxHeight
    /\ frames' = Append(frames, Frame(m, path))
    /\ height' = height + 1
    /\ path' = m
    /\ UNCHANGED <<catchers, head, next, status>>

\* Fault: a module leaves its path in place.
Return_KeepsPath ==
    /\ Running
    /\ Active.module # None => Active.blocks = <<>>
    /\ IF Len(frames) = 1
       THEN status' = "done" /\ frames' = <<>> /\ height' = 0
       ELSE frames' = Front(frames) /\ height' = Active.base + 1 /\ UNCHANGED status
    /\ UNCHANGED <<catchers, head, next, path>>

\* OP_RETURN of a function, from inside any of its blocks, or the end of a file.
Return ==
    /\ Running
    /\ Active.module # None => Active.blocks = <<>>
    /\ path' = IF Active.module \in Modules THEN Active.saved ELSE path
    /\ IF Len(frames) = 1
       THEN status' = "done" /\ frames' = <<>> /\ height' = 0
       ELSE frames' = Front(frames) /\ height' = Active.base + 1 /\ UNCHANGED status
    /\ UNCHANGED <<catchers, head, next>>

\* The REPL interprets its next line on the same VM, above whatever frames an
\* import that failed has left.
NextLine ==
    /\ status \in {"done", "uncaught", "stopped"}
    /\ Len(frames) < MaxFrames /\ height < MaxHeight
    /\ frames' = Append(frames, Frame(Main, None))
    /\ height' = height + 1 /\ status' = "running"
    /\ UNCHANGED <<catchers, head, next, path>>

\* Control leaves each try statement at its end or by an exception.
Structured ==
    \/ \E e \in Exceptions : \/ RaiseNew(e)
                             \/ RaiseAgain(e) /\ (e = head \/ e \notin Reach({head}))
    \/ \E types \in CatchLists : EnterTry(types)
    \/ LeaveTry \/ LeaveCatch
    \/ Declare \/ EndBlock \/ Call \/ \E m \in Modules : Import(m)
    \/ Running /\ Active.blocks = <<>> /\ Return

\* ... or by a return, a break or a continue.
EarlyExit ==
    /\ Running /\ Active.blocks # <<>>
    /\ \/ Return
       \/ \E n \in 1 .. Len(Active.blocks), h \in 1 .. MaxHeight : LeaveLoop(n, h)

Next == \/ Structured \/ EarlyExit
        \/ \E e \in Exceptions : RaiseAgain(e) \/ ImportFails(e)
        \/ NextLine

Spec           == Init /\ [][Next]_vars
StructuredSpec == Init /\ [][Structured]_vars
EarlyExitSpec  == Init /\ [][Structured \/ EarlyExit]_vars
--------------------------------------------------------------------------------
\* The try statements control is inside of, each a frame and a depth in it.
LiveTries == {p \in (1 .. Len(frames)) \X (1 .. MaxBlocks) :
                 p[2] <= Len(frames[p[1]].blocks) /\ frames[p[1]].blocks[p[2]].kind = "try"}

Inside(p, q) == p[1] > q[1] \/ (p[1] = q[1] /\ p[2] > q[2])

CatcherOf(p) == LET b == frames[p[1]].blocks[p[2]]
                IN  [frame |-> p[1], depth |-> p[2] - 1, height |-> b.height, types |-> b.types]

\* Types, and the limit on the call frames (vm.c:320): a call never exceeds it.
TypeOK ==
    /\ Len(frames) \in 0 .. MaxFrames /\ height \in Nat
    /\ \A f \in 1 .. Len(frames) : Len(frames[f].blocks) <= MaxBlocks
    /\ Len(catchers) <= MaxCatchers
    /\ head \in Exceptions \cup {None} /\ next \in [Exceptions -> Exceptions \cup {None}]
    /\ path \in Modules \cup {Main}
    /\ status \in {"running", "done", "uncaught", "stopped", "derailed"}

\* Whatever jumps are taken, the catcher of a try statement that control is
\* inside of is still on the catch stack, until an exception derails the VM:
\* an error it lists never passes it by (vm.c:76-91, 947).
EveryLiveTryRegistered ==
    status \in {"running", "stopped"} =>
        \A p \in LiveTries : CatcherOf(p) \in ToSet(catchers)

\* The values of the stack below a try statement stay below its frame's top.
HeightAboveBlocks ==
    status = "running" =>
        \A f \in 1 .. Len(frames) : /\ frames[f].base < height
                                    /\ \A b \in ToSet(frames[f].blocks) : b.height <= height

\* Control leaving try statements only at their ends and by exceptions, the
\* catch stack is exactly the try statements control is inside of, innermost
\* first, over calls, nested handlers and errors that nobody catches.
CatchersAreLiveTries ==
    status = "running" =>
        /\ \A k \in 1 .. Len(catchers) :
              \E p \in LiveTries : /\ catchers[k] = CatcherOf(p)
                                   /\ k = 1 + Cardinality({q \in LiveTries : Inside(q, p)})
        /\ Len(catchers) = Cardinality(LiveTries)

\* An exception continues in the catch part of the innermost statement around
\* it that lists its type, with the stack and the frames of that statement, or
\* ends the run when there is none.
RaisedTo(e) ==
    LET able == {p \in LiveTries : Matches(frames[p[1]].blocks[p[2]].types, e)}
    IN  IF able = {} THEN status' = "uncaught"
        ELSE \E p \in able :
                LET b == frames[p[1]].blocks[p[2]]
                IN  /\ \A q \in able \ {p} : Inside(p, q)
                    /\ Len(frames') = p[1]
                    /\ frames'[p[1]].blocks =
                           Append(SubSeq(frames[p[1]].blocks, 1, p[2] - 1), Handler(b.height, e))
                    /\ height' = b.height + 1

InnermostTryCatches ==
    [][\A e \in Exceptions : RaiseNew(e) \/ RaiseAgain(e) => RaisedTo(e)]_vars

\* stacktrace (vm.c:43-46) follows next to its end.
ChainEnds == None \in Reach({head})

\* stacktrace prints of each exception of the chain that the one before "was
\* encountered during the handling of" it: so it was, when that one was raised.
RaisedDuringHandling ==
    [][head' # head /\ head' # None => next'[head'] \in HandledNow \cup {None}]_vars

\* raise answers "whether or not the exception is handled" (vm.c:70): when it
\* says so, some try statement that control is inside of handles it.
HandledByLiveTry == status # "derailed"

ModuleFrames == {f \in 1 .. Len(frames) : frames[f].module \in Modules}

\* The file that runs in frame f: the last module imported, or else the script.
PathAt(f) ==
    LET within == {g \in ModuleFrames : g <= f}
    IN  IF within = {} THEN Main
        ELSE frames[CHOOSE g \in within : \A h \in within : h <= g].module

PathsRight ==
    status = "running" =>
        /\ path = PathAt(Len(frames))
        /\ \A f \in ModuleFrames : frames[f].saved = PathAt(f - 1)

LeavesModuleByError ==
    /\ ModuleFrames' # ModuleFrames
    /\ \E e \in Exceptions : RaiseNew(e) \/ RaiseAgain(e)

\* resolve_import_path looks in the "directory containing the script file
\* performing the import" (vm.c:253): source_path is that file, and every step keeps
\* it so, but for an exception that leaves a module, whose path nothing restores.
PathKept == [][PathsRight /\ ~LeavesModuleByError => PathsRight']_vars
================================================================================
