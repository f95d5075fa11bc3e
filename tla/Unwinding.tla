----------------------------- MODULE Unwinding -----------------------------
(***************************************************************************)
(* Leaving blocks: the cleanup code the assembler emits for the normal     *)
(* end of a block, return, break, continue, throw, catch and finally       *)
(* (core/src/processes/assembler.cpp), and the instructions of the virtual *)
(* machine that move an exception through the call stack                   *)
(* (core/src/runtime.cpp).                                                 *)
(*                                                                         *)
(* The program is any program: at each point of a function it opens a      *)
(* block, declares the variable of the innermost one, calls, throws or     *)
(* leaves.  What the assembler emits for a statement that leaves blocks is *)
(* put in the frame's todo and executed from there.  The scopes of a frame *)
(* are the blocks that enclose the program counter, which are those whose  *)
(* exception_cleanup_patches the assembler had open there.                 *)
(*                                                                         *)
(* A block declares at most one variable, which holds a reference.         *)
(***************************************************************************)
EXTENDS Naturals, Sequences, FiniteSets, SequencesExt

CONSTANTS
  Obj,        \* addresses of objects
  Null,
  Try,        \* the try statements with a finally clause
  Programs    \* the programs that may run

(* What a program does that a careful one does not (habits):
   late        leaves a loop body before the declaration of a variable that
               an earlier iteration has declared
   local       throws the object of a local variable
   jump        leaves a try statement with a finally clause by break or
               continue
   overlap     throws while another exception is in flight
   and lets an exception out of
   operator    an overloaded operator        destructor  a destructor
   initializer what the initializer of a field calls
   operand     a call, with a new object on the operand stack of the caller
   finally     a finally block that a return statement runs
   catch       a catch clause, unless the exception is the caught one; also
               leaves it by return, break or continue
   Bounds: in all frames at most `blocks' blocks are open, a body being one,
   and at most `tries' statements of Try. *)
Program ==
  [habits : SUBSET {"late", "local", "jump", "overlap", "operator", "destructor",
                    "initializer", "operand", "finally", "catch"},
   blocks : Nat, tries : Nat]
ASSUME ProgramsAssumption == Programs \subseteq Program
ASSUME NullAssumption == Null \notin Obj \cup Try

VARIABLES
  program,           \* the program that runs
  frames,            \* call_stack, each frame with its locals and code
  ref_count,         \* 0: free memory
  active_exception,
  runs,              \* how often the finally block of a statement was entered
  ended              \* how the program ended

vars == <<program, frames, ref_count, active_exception, runs, ended>>

(* A block, with the slot of its variable.  DEC_REF_SLOT does not change the
   slot: owns tells whether the variable still has its reference.  A catch
   clause has the exception in a slot of its own; a try, catch or finally
   block belongs to a statement, Null if it has no finally clause; code that
   follows a finally block is in after. *)
Scope(kind, of, exc, after) ==
  [kind |-> kind, slot |-> Null, owns |-> FALSE, declared |-> FALSE,
   of |-> of, exc |-> exc, after |-> after]

(* A frame is pushed by a call in a block, by a call that registers no cleanup
   of its caller (of an overloaded operator, or in the initializer of a
   field), or as a destructor: by invoke_destructor, or by the destructor of
   a derived class, which keeps the object (obj is Null). *)
Frame(how, obj) ==
  [how |-> how, obj |-> obj, operand |-> Null, todo |-> <<>>,
   scopes |-> <<Scope("body", Null, Null, <<>>)>>]

(* The code that leaves blocks. *)
DecRefSlot(i) == [op |-> "DEC_REF_SLOT", scope |-> i]
Finally(i) == [op |-> "finally", scope |-> i]
Leave == [op |-> "leave", scope |-> 0]       \* the normal end of a block
Unwind == [op |-> "unwind", scope |-> 0]     \* the end of its exception cleanup
ReturnOp == [op |-> "RETURN", scope |-> 0]
CallSuper == [op |-> "CALL_SUPER", scope |-> 0]
DropOperand == [op |-> "DEC_REF_OPERAND", scope |-> 0]
ReleaseCaught == [op |-> "DEC_REF_CAUGHT", scope |-> 0]

Top == frames[Len(frames)]
Scopes == Top.scopes
Inner == Len(Scopes)
Callers == Front(frames)
WithTop(f) == [frames EXCEPT ![Len(frames)] = f]
In(scopes, todo) == WithTop([Top EXCEPT !.scopes = scopes, !.todo = todo])

(* The exception cleanup of the innermost block of n, and one that takes the
   wrong slot. *)
CleanupBeyond(n) == <<DecRefSlot(n + 1), Unwind>>
CleanupOf(n) == <<DecRefSlot(n), Unwind>>

Init ==
  /\ program \in Programs
  /\ frames = <<Frame("main", Null)>>
  /\ ref_count = [o \in Obj |-> 0]
  /\ active_exception = Null
  /\ runs = [t \in Try |-> 1]
  /\ ended = "no"

-----------------------------------------------------------------------------
(* Which programs are careful. *)

Habits == program.habits

(* A finally block that a return statement runs. *)
Returning(scope) == scope.kind = "finally" /\ scope.after # <<>>
                    /\ Last(scope.after) = ReturnOp

Before(p, q) == p[1] < q[1] \/ (p[1] = q[1] /\ p[2] < q[2])
Positions(fs) == UNION {{<<f, i>> : i \in DOMAIN fs[f].scopes} : f \in DOMAIN fs}
KindAt(fs, p) == fs[p[1]].scopes[p[2]].kind

Barrier(fs, p) ==
  LET how == fs[p[1]].how
  IN  \/ KindAt(fs, p) = "body" /\ how \in {"operator", "initializer", "destructor"} \ Habits
      \/ /\ KindAt(fs, p) = "body" /\ p[1] > 1 /\ "operand" \notin Habits
         /\ fs[p[1] - 1].operand # Null
      \/ Returning(fs[p[1]].scopes[p[2]]) /\ "finally" \notin Habits
      \/ KindAt(fs, p) = "catch" /\ "catch" \notin Habits

(* An exception that may not be caught before it meets a barrier. *)
Careful(fs) ==
  LET barriers == {p \in Positions(fs) : Barrier(fs, p)}
  IN  barriers = {} \/ \E p \in Positions(fs) : /\ KindAt(fs, p) = "try"
                                                /\ \A q \in barriers : Before(q, p)

(* The variable of an enclosing block has a value from an earlier iteration. *)
Late == \E i \in DOMAIN Scopes : ~Scopes[i].declared /\ Scopes[i].slot # Null

MayLeave == "late" \in Habits \/ ~Late
MayThrow == MayLeave /\ (active_exception # Null => "overlap" \in Habits)

(* The blocks from i on are left by a statement that is not a throw. *)
MayExit(i) ==
  /\ MayLeave
  /\ \A j \in i .. Inner : /\ Scopes[j].kind # "finally"
                           /\ Scopes[j].kind = "catch" => "catch" \in Habits

-----------------------------------------------------------------------------
(* Statements. *)

Ready == ended = "no" /\ Top.todo = <<>>
Room == Cardinality(Positions(frames)) < program.blocks
Fresh == {o \in Obj : ref_count[o] = 0}

Open == {frames[p[1]].scopes[p[2]].of : p \in Positions(frames)} \ {Null}

OpenBlock(kind, t) ==
  /\ Ready /\ Room
  /\ kind # "try" => t = Null
  /\ t # Null => t \notin Open /\ Cardinality(Open) < program.tries
  /\ frames' = In(Append(Scopes, Scope(kind, t, Null, <<>>)), <<>>)
  /\ runs' = [u \in Try |-> IF u = t THEN 0 ELSE runs[u]]
  /\ UNCHANGED <<program, ref_count, active_exception, ended>>

(* T x = new T() *)
Declare(o) ==
  /\ Ready /\ o \in Fresh
  /\ ~Scopes[Inner].declared
  /\ ref_count' = [ref_count EXCEPT ![o] = 1]
  /\ frames' = In([Scopes EXCEPT ![Inner].slot = o, ![Inner].owns = TRUE,
                                 ![Inner].declared = TRUE], <<>>)
  /\ UNCHANGED <<program, active_exception, runs, ended>>

(* A constructor first evaluates the initializers of the fields.  What one
   evaluates to goes into the field. *)
Initializes(operand) ==
  Top.how \in {"call", "initializer"} /\ Scopes = Frame("call", Null).scopes /\ operand = Null

(* new T(f()): the call is made with the new object on the operand stack. *)
Call(how, operand) ==
  /\ Ready /\ MayLeave /\ Room
  /\ operand \in Fresh \cup {Null}
  /\ how = "initializer" => Initializes(operand)
  /\ ref_count' = [o \in Obj |-> IF o = operand THEN 1 ELSE ref_count[o]]
  /\ frames' = Append(WithTop([Top EXCEPT !.operand = operand]), Frame(how, Null))
  /\ UNCHANGED <<program, active_exception, runs, ended>>

(* The closing brace of the innermost block. *)
EndBlock ==
  LET kind == Scopes[Inner].kind
      then == CASE kind = "body" -> <<ReturnOp>>
                [] kind = "catch" -> <<ReleaseCaught, Leave>>
                [] OTHER -> <<Leave>>
  IN  /\ Ready /\ ~Late
      /\ frames' = In(Scopes, <<DecRefSlot(Inner)>> \o then)
      /\ UNCHANGED <<program, ref_count, active_exception, runs, ended>>

(* The closing brace of a destructor whose class has a base with a destructor. *)
EndDestructor ==
  /\ Ready /\ ~Late /\ Room
  /\ Inner = 1 /\ Top.how = "destructor"
  /\ frames' = In(Scopes, <<DecRefSlot(1), CallSuper, ReturnOp>>)
  /\ UNCHANGED <<program, ref_count, active_exception, runs, ended>>

(* A return statement runs the finally blocks on its way.  As if it ran none,
   and as if it released nothing before one. *)
HasFinally(scope) == scope.kind \in {"try", "catch"} /\ scope.of # Null
NotRun(i) == <<DecRefSlot(i)>>
NotReleased(i) == IF HasFinally(Scopes[i]) THEN <<Finally(i)>> ELSE <<DecRefSlot(i)>>
ExitCode(i) == <<DecRefSlot(i)>> \o (IF HasFinally(Scopes[i]) THEN <<Finally(i)>> ELSE <<>>)

Return ==
  /\ Ready /\ MayExit(1)
  /\ frames' = In(Scopes, FlattenSeq([k \in 1 .. Inner |-> ExitCode(Inner + 1 - k)])
                          \o <<ReturnOp>>)
  /\ UNCHANGED <<program, ref_count, active_exception, runs, ended>>

(* break and continue release the variables of the blocks they leave, the
   body of the loop included, and look for no finally. *)
Loop == {j \in DOMAIN Scopes : /\ Scopes[j].kind = "loop"
                               /\ \A i \in j + 1 .. Inner : Scopes[i].kind # "loop"}

BreakOrContinue(op) ==
  /\ Ready
  /\ \E j \in Loop :
    /\ MayExit(j)
    /\ (\E i \in j .. Inner : HasFinally(Scopes[i])) => "jump" \in Habits
    /\ frames' = In(Scopes, [k \in 1 .. Inner + 1 - j |-> DecRefSlot(Inner + 1 - k)]
                            \o <<[op |-> op, scope |-> j]>>)
  /\ UNCHANGED <<program, ref_count, active_exception, runs, ended>>

(* THROW_EXCEPTION retains the exception once more, for the catch clause.  As
   if it did not, and as if active_exception were not set. *)
RaiseUnretained(o, count) ==
  /\ ref_count' = [ref_count EXCEPT ![o] = count - 1]
  /\ active_exception' = o
  /\ UNCHANGED <<program, runs, ended>>
RaiseSilently(o, count) ==
  /\ ref_count' = [ref_count EXCEPT ![o] = count]
  /\ UNCHANGED <<program, active_exception, runs, ended>>
Raise(o, count) ==
  /\ ref_count' = [ref_count EXCEPT ![o] = count]
  /\ active_exception' = o
  /\ UNCHANGED <<program, runs, ended>>

(* throw new E(), or throw x for a variable x. *)
Variables == {Scopes[i].slot : i \in {j \in DOMAIN Scopes : Scopes[j].owns}}

Throw(o) ==
  /\ Ready /\ MayThrow /\ Careful(frames)
  /\ o \in Fresh \cup (IF "local" \in Habits THEN Variables ELSE {})
  /\ frames' = In(Scopes, CleanupOf(Inner))
  /\ Raise(o, IF o \in Fresh THEN 2 ELSE ref_count[o] + 1)

(* throw e in the clause that caught e: nothing that follows releases the
   variable e, whose reference becomes the one of the exception. *)
Rethrow(i) ==
  LET left == [Top EXCEPT !.scopes = SubSeq(Scopes, 1, i - 1)]
  IN  /\ Ready /\ MayThrow
      /\ i \in DOMAIN Scopes /\ Scopes[i].exc # Null
      /\ \A j \in i + 1 .. Inner : Scopes[j].kind \notin {"try", "catch", "finally"}
      /\ Careful(WithTop(left))
      /\ frames' = In([Scopes EXCEPT ![i].exc = Null], CleanupOf(Inner))
      /\ Raise(Scopes[i].exc, ref_count[Scopes[i].exc] + 1)

-----------------------------------------------------------------------------
(* Instructions. *)

Executes(op) == ended = "no" /\ Top.todo # <<>> /\ Head(Top.todo).op = op
Next1 == Head(Top.todo).scope

Decreased(o) == IF o = Null THEN ref_count ELSE [ref_count EXCEPT ![o] = IF @ > 0 THEN @ - 1 ELSE 0]

(* decrease_reference; the last reference may run a destructor, in a frame of
   its own. *)
Drop(o, frame) ==
  \/ frames' = WithTop(frame) /\ ref_count' = Decreased(o)
  \/ /\ o # Null /\ ref_count[o] = 1 /\ Room
     /\ frames' = Append(WithTop(frame), Frame("destructor", o))
     /\ UNCHANGED ref_count

ReleaseSlot ==
  /\ Executes("DEC_REF_SLOT")
  /\ Drop(Scopes[Next1].slot,
          [Top EXCEPT !.todo = Tail(@), !.scopes[Next1].owns = FALSE])
  /\ UNCHANGED <<program, active_exception, runs, ended>>

ReleaseCaughtException ==
  /\ Executes("DEC_REF_CAUGHT")
  /\ Drop(Scopes[Inner].exc, [Top EXCEPT !.todo = Tail(@), !.scopes[Inner].exc = Null])
  /\ UNCHANGED <<program, active_exception, runs, ended>>

ReleaseOperand ==
  /\ Executes("DEC_REF_OPERAND")
  /\ Drop(Top.operand, [Top EXCEPT !.todo = Tail(@), !.operand = Null])
  /\ UNCHANGED <<program, active_exception, runs, ended>>

(* The destructor of the base is called as a function. *)
SuperDestructor ==
  /\ Executes("CALL_SUPER")
  /\ frames' = Append(WithTop([Top EXCEPT !.todo = Tail(@)]), Frame("destructor", Null))
  /\ UNCHANGED <<program, ref_count, active_exception, runs, ended>>

(* Into the finally block of statement t, which ends with the code after. *)
FinallyBlock(scopes, t, after) ==
  /\ frames' = In(Append(scopes, Scope("finally", t, Null, after)), <<>>)
  /\ runs' = [runs EXCEPT ![t] = @ + 1]
  /\ UNCHANGED <<program, ref_count, active_exception, ended>>

RunFinally ==
  /\ Executes("finally")
  /\ FinallyBlock(Scopes, Scopes[Next1].of, Tail(Top.todo))

Left == Front(Scopes)

LeaveBlock ==
  /\ Executes("leave") /\ ~HasFinally(Last(Scopes))
  /\ frames' = In(Left, Last(Scopes).after)
  /\ UNCHANGED <<program, ref_count, active_exception, runs, ended>>

LeaveTry ==
  /\ Executes("leave") /\ HasFinally(Last(Scopes))
  /\ FinallyBlock(Left, Last(Scopes).of, <<>>)

(* The loop goes round again: its variables are not declared any more, and
   their slots are what they were. *)
Again(j) == [SubSeq(Scopes, 1, j) EXCEPT ![j].declared = FALSE, ![j].owns = FALSE]

Iterate ==
  /\ Executes("leave") /\ Last(Scopes).kind = "loop"
  /\ frames' = In(Again(Inner), <<>>)
  /\ UNCHANGED <<program, ref_count, active_exception, runs, ended>>

Break ==
  /\ Executes("break")
  /\ frames' = In(SubSeq(Scopes, 1, Next1 - 1), <<>>)
  /\ UNCHANGED <<program, ref_count, active_exception, runs, ended>>

Continue ==
  /\ Executes("continue")
  /\ frames' = In(Again(Next1), <<>>)
  /\ UNCHANGED <<program, ref_count, active_exception, runs, ended>>

(* RETURN.  A destructor returns into Memory::decrease_reference. *)
ReturnFrame ==
  /\ Executes("RETURN")
  /\ IF Len(frames) = 1
       THEN ended' = "returned" /\ frames' = <<>>
       ELSE /\ UNCHANGED ended
            /\ frames' = [Callers EXCEPT ![Len(Callers)].todo =
                            (IF Top.how # "destructor" /\ frames[Len(frames) - 1].operand # Null
                               THEN <<DropOperand>> ELSE <<>>) \o @]
  /\ ref_count' = Decreased(Top.obj)
  /\ UNCHANGED <<program, active_exception, runs>>

-----------------------------------------------------------------------------
(* The end of the exception cleanup of a block. *)

(* In the catch clause of a statement: SET_LOCAL, CLEAR_EXCEPTION. *)
CatchException ==
  /\ Executes("unwind") /\ Last(Scopes).kind = "try"
  /\ active_exception # Null
  /\ frames' = In(Append(Left, Scope("catch", Last(Scopes).of, active_exception, <<>>)), <<>>)
  /\ ref_count' = Decreased(active_exception)
  /\ active_exception' = Null
  /\ UNCHANGED <<program, runs, ended>>

(* No clause matches, or there is none. *)
NotCaught ==
  \/ Last(Scopes).kind \notin {"body", "try"}
  \/ /\ Last(Scopes).kind = "try"
     /\ Careful(In(Left, <<>>)) \/ active_exception = Null

UnwindTry ==
  /\ Executes("unwind") /\ NotCaught
  /\ HasFinally(Last(Scopes))
  /\ FinallyBlock(Left, Last(Scopes).of, CleanupOf(Inner - 1))

UnwindBlock ==
  /\ Executes("unwind") /\ NotCaught
  /\ ~HasFinally(Last(Scopes))
  /\ frames' = In(Left, CleanupOf(Inner - 1))
  /\ UNCHANGED <<program, ref_count, active_exception, runs, ended>>

(* REGISTER_RETURN_CLEANUP comes before the calls of functions, methods and
   constructors that are compiled in a block: the initializers of fields are
   outside any, the call of an operator and of the destructor of the base have
   none anywhere. *)
Registered(frame) == frame.how = "call"

(* JMP_TO_OUTER_CLEANUP: the frame is popped, with its operands, and the
   caller continues with the cleanup it registered. *)
UnwindFrame ==
  LET caller == Last(Callers)
  IN  /\ Executes("unwind") /\ Last(Scopes).kind = "body" /\ Registered(Top)
      /\ frames' = [Callers EXCEPT ![Len(Callers)] =
                      [caller EXCEPT !.operand = Null, !.todo = CleanupOf(Len(caller.scopes))]]
      /\ UNCHANGED <<program, ref_count, active_exception, runs, ended>>

Unhandled ==
  /\ Executes("unwind") /\ Last(Scopes).kind = "body" /\ Top.how = "main"
  /\ frames' = <<>>
  /\ ref_count' = Decreased(active_exception)
  /\ active_exception' = Null
  /\ ended' = "unhandled"
  /\ UNCHANGED <<program, runs>>

(* Nothing is registered for the popped frame: the search goes on with the
   return addresses of its callers, and takes the first cleanup it finds
   although the caller whose return address it is has not been popped.  What
   follows in the wrong frame is not modelled. *)
Escape ==
  /\ Executes("unwind") /\ Last(Scopes).kind = "body"
  /\ Top.how # "main" /\ ~Registered(Top)
  /\ ended' = IF \E f \in DOMAIN Callers : Registered(Callers[f])
                THEN "misframed" ELSE "unhandled"
  /\ UNCHANGED <<program, frames, ref_count, active_exception, runs>>

-----------------------------------------------------------------------------
Next ==
  \/ \E kind \in {"block", "loop", "try"}, t \in Try \cup {Null} : OpenBlock(kind, t)
  \/ \E o \in Obj : Declare(o) \/ Throw(o)
  \/ \E how \in {"call", "operator", "initializer"}, o \in Obj \cup {Null} : Call(how, o)
  \/ EndBlock \/ EndDestructor \/ Return
  \/ \E op \in {"break", "continue"} : BreakOrContinue(op)
  \/ \E i \in 1 .. program.blocks : Rethrow(i)
  \/ ReleaseSlot \/ ReleaseCaughtException \/ ReleaseOperand \/ SuperDestructor
  \/ RunFinally \/ LeaveBlock \/ LeaveTry \/ Iterate \/ Break \/ Continue \/ ReturnFrame
  \/ CatchException \/ UnwindTry \/ UnwindBlock \/ UnwindFrame \/ Unhandled \/ Escape

Spec == Init /\ [][Next]_vars

-----------------------------------------------------------------------------
(* Properties. *)

Kinds == {"body", "block", "loop", "try", "catch", "finally"}
Ops == {"DEC_REF_SLOT", "DEC_REF_CAUGHT", "DEC_REF_OPERAND", "finally", "leave",
        "unwind", "break", "continue", "RETURN", "CALL_SUPER"}
Code == Seq([op : Ops, scope : Nat])

(* Every variable has its type, and the code left to execute refers to open
   blocks. *)
TypeOK ==
  /\ program \in Programs
  /\ \A f \in DOMAIN frames :
       /\ frames[f].how \in {"main", "call", "operator", "initializer", "destructor"}
       /\ frames[f].obj \in Obj \cup {Null} /\ frames[f].operand \in Obj \cup {Null}
       /\ frames[f].todo \in Code /\ frames[f].scopes # <<>>
       /\ \A i \in DOMAIN frames[f].todo : frames[f].todo[i].scope \in 0 .. Len(frames[f].scopes)
       /\ \A i \in DOMAIN frames[f].scopes :
            /\ frames[f].scopes[i].kind \in Kinds
            /\ frames[f].scopes[i].kind = "body" <=> i = 1
            /\ frames[f].scopes[i].slot \in Obj \cup {Null}
            /\ frames[f].scopes[i].exc \in Obj \cup {Null}
            /\ frames[f].scopes[i].of \in Try \cup {Null}
            /\ frames[f].scopes[i].after \in Code
  /\ ref_count \in [Obj -> Nat]
  /\ active_exception \in Obj \cup {Null}
  /\ runs \in [Try -> Nat]
  /\ ended \in {"no", "returned", "unhandled", "misframed"}

(* Who has a reference to o: variables, exceptions that were caught, operands
   of calls, running destructors, and twice the exception in flight. *)
References(frame, o) ==
  LET open == DOMAIN frame.scopes
  IN  {<<"variable", i>> : i \in {j \in open : frame.scopes[j].owns /\ frame.scopes[j].slot = o}}
      \cup {<<"caught", i>> : i \in {j \in open : frame.scopes[j].exc = o}}
      \cup (IF frame.operand = o THEN {<<"operand", 0>>} ELSE {})
      \cup (IF frame.obj = o THEN {<<"destructor", 0>>} ELSE {})
Owners(o) ==
  (UNION {{<<f, x>> : x \in References(frames[f], o)} : f \in DOMAIN frames})
  \cup (IF active_exception = o THEN {<<0, <<"exception", k>>>> : k \in {1, 2}} ELSE {})

(* However blocks are left, every reference is released once: no variable is
   released that has lost its reference, and the count of an object is the number
   of its owners, 0 when nothing refers to it.  Where references are lost no
   object is freed that still has an owner: the variable of a catch clause, for
   one, refers to a live exception. *)
CountExact ==
  /\ Executes("DEC_REF_SLOT") => Scopes[Next1].owns \/ Scopes[Next1].slot = Null
  /\ ended # "unhandled" =>
       \A o \in Obj : /\ ref_count[o] >= Cardinality(Owners(o))
                      /\ Habits = {} => ref_count[o] = Cardinality(Owners(o))

(* docs/wiki/keywords/control_flow/finally.md: "The finally block always
   executes before control finally leaves the enclosing method".  It is
   entered once, whichever way control leaves the statement. *)
FinallyRuns ==
  \A t \in Try :
    /\ runs[t] <= 1
    /\ (\A p \in Positions(frames) : frames[p[1]].scopes[p[2]].of # t) => runs[t] = 1

(* While a cleanup that an exception started is unfinished there is an
   exception for the catch clauses it leads to: it is not lost on the way. *)
Unwinds(code) == \E i \in DOMAIN code : code[i].op = "unwind"
InFlight ==
  Habits = {} /\ ended = "no" /\ active_exception = Null =>
    /\ \A f \in DOMAIN frames : ~Unwinds(frames[f].todo)
    /\ \A p \in Positions(frames) : ~Unwinds(frames[p[1]].scopes[p[2]].after)

(* docs/architecture/exception_unwinding.md: if no catch block matches "the
   current call frame is unwound [...] and the search continues in the
   caller's frame".  No exception is unhandled while a frame is left, and no
   handler runs in a frame that is not its own. *)
SearchContinues == ended \in {"unhandled", "misframed"} => frames = <<>>
=============================================================================
