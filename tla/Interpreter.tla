---------------------------- MODULE Interpreter ----------------------------
(***************************************************************************)
(* RuntimeContext::run_bytecode, core/src/runtime.cpp, for the             *)
(* instructions that CodeGeneration emits: one action for each family of   *)
(* instructions.  Words are integers without bound: the programs checked   *)
(* do not reach 2^63, and where the code narrows a word the model does.    *)
(*                                                                         *)
(* Natives stand outside: `read' answers the next of the given inputs, and *)
(* the program waits for ever when there is none; `print' appends its      *)
(* argument to what was printed.                                           *)
(***************************************************************************)
EXTENDS Integers, Sequences

LOCAL INSTANCE SequencesExt

VARIABLES code,        \* bytecode
          ip,          \* program_counter
          stack,       \* memory.stack up to the stack pointer
          frames,      \* call_stack: return address, frame pointer, arguments
          input,       \* what is still to be read
          printed,     \* what was printed
          status       \* "running", or why it stopped
vm == <<code, ip, stack, frames, input, printed, status>>

Fetched == code[ip]
Running(ops) == status = "running" /\ Fetched.op \in ops

Frame == frames[Len(frames)]

\* The word n below the top of the stack.
Top(n) == stack[Len(stack) - n]

\* The stack with its n upper words replaced by words, and the next
\* instruction.
Replace(n, words) ==
  /\ stack' = SubSeq(stack, 1, Len(stack) - n) \o words
  /\ ip' = ip + 1
  /\ UNCHANGED <<code, frames, input, printed, status>>

Stop(reason) ==
  /\ status' = reason
  /\ UNCHANGED <<code, ip, stack, frames, input, printed>>

Bool(b) == IF b THEN 1 ELSE 0

\* Division rounds towards zero and the remainder has the sign of a.
Quotient(a, b) ==
  LET AbsInt(n) == IF n < 0 THEN -n ELSE n
      q == AbsInt(a) \div AbsInt(b)
  IN  IF (a < 0) = (b < 0) THEN q ELSE -q
Remainder(a, b) == a - b * Quotient(a, b)

NarrowI8(v) == ((v + 128) % 256) - 128

Result(op, a, b) ==
  CASE op = "ADD_I64"        -> a + b
    [] op = "SUB_I64"        -> a - b
    [] op = "MUL_I64"        -> a * b
    [] op = "DIV_I64"        -> Quotient(a, b)
    [] op = "MOD_I64"        -> Remainder(a, b)
    [] op = "EQ_I64"         -> Bool(a = b)
    [] op = "NEQ_I64"        -> Bool(a # b)
    [] op = "LESS_I64"       -> Bool(a < b)
    [] op = "LESS_EQ_I64"    -> Bool(a <= b)
    [] op = "GREATER_I64"    -> Bool(a > b)
    [] op = "GREATER_EQ_I64" -> Bool(a >= b)

Operators == {"ADD_I64", "SUB_I64", "MUL_I64", "DIV_I64", "MOD_I64", "EQ_I64", "NEQ_I64",
              "LESS_I64", "LESS_EQ_I64", "GREATER_I64", "GREATER_EQ_I64"}

Changed(op, a) ==
  CASE op = "LOGICAL_NOT" -> Bool(a = 0)
    [] op = "NEGATE_I64"  -> -a
    [] op = "INC_I64"     -> a + 1
    [] op = "DEC_I64"     -> a - 1
    [] op = "CONV_I8"     -> NarrowI8(a)
    [] op = "CONV_U8"     -> a % 256

Push == Running({"PUSH"}) /\ Replace(0, <<Fetched.arg>>)
Pop  == Running({"POP"}) /\ Replace(1, <<>>)
Dup  == Running({"DUP"}) /\ Replace(0, <<Top(0)>>)

Operate ==
  /\ Running(Operators)
  /\ IF Fetched.op \in {"DIV_I64", "MOD_I64"} /\ Top(0) = 0
     THEN Stop("ArithmeticException")
     ELSE Replace(2, <<Result(Fetched.op, Top(1), Top(0))>>)

Change ==
  /\ Running({"LOGICAL_NOT", "NEGATE_I64", "INC_I64", "DEC_I64", "CONV_I8", "CONV_U8"})
  /\ Replace(1, <<Changed(Fetched.op, Top(0))>>)

GetLocal ==
  /\ Running({"GET_LOCAL"})
  /\ Replace(0, <<stack[Frame.fp + Fetched.arg + 1]>>)

\* The word is popped from the stack the slot is on.
SetLocal ==
  /\ Running({"SET_LOCAL"})
  /\ stack' = [Front(stack) EXCEPT ![Frame.fp + Fetched.arg + 1] = Last(stack)]
  /\ ip' = ip + 1
  /\ UNCHANGED <<code, frames, input, printed, status>>

Jump ==
  /\ \/ Running({"JUMP"}) /\ ip' = Fetched.arg /\ stack' = stack
     \/ /\ Running({"JUMP_IF_FALSE", "JUMP_IF_TRUE"})
        /\ stack' = Front(stack)
        /\ ip' = IF (Top(0) # 0) = (Fetched.op = "JUMP_IF_TRUE") THEN Fetched.arg ELSE ip + 1
  /\ UNCHANGED <<code, frames, input, printed, status>>

\* The arguments stay where they are: they are the first slots of the frame.
Call ==
  /\ Running({"CALL"})
  /\ LET kept == SubSeq(stack, 1, Len(stack) - 2)
     IN  /\ stack' = kept
         /\ frames' = Append(frames, [ret |-> ip + 1, fp |-> Len(kept) - Top(0), argc |-> Top(0)])
         /\ ip' = Top(1)
  /\ UNCHANGED <<code, input, printed, status>>

AllocFrame ==
  /\ Running({"ALLOC_FRAME"})
  /\ Replace(0, [i \in 1..(Fetched.arg - Frame.argc) |-> 0])

\* Everything above the frame pointer goes, whatever was left on the stack.
Return ==
  /\ Running({"RETURN"})
  /\ LET value == IF Len(stack) > Frame.fp THEN Top(0) ELSE 0
     IN  stack' = SubSeq(stack, 1, Frame.fp) \o <<value>>
  /\ frames' = Front(frames)
  /\ ip' = Frame.ret
  /\ UNCHANGED <<code, input, printed, status>>

CallNative ==
  /\ Running({"CALL_NATIVE"})
  /\ \/ /\ Fetched.to = "read" /\ input # <<>>
        /\ stack' = Append(stack, Head(input))
        /\ input' = Tail(input)
        /\ UNCHANGED printed
     \/ /\ Fetched.to = "print"
        /\ stack' = Append(Front(stack), 0)
        /\ printed' = Append(printed, Top(0))
        /\ UNCHANGED input
  /\ ip' = ip + 1
  /\ UNCHANGED <<code, frames, status>>

AssertTrue ==
  /\ Running({"ASSERT"})
  /\ IF Top(0) = 0 THEN Stop("AssertionError") ELSE Replace(1, <<>>)

Exit == Running({"EXIT"}) /\ Stop("exit")
Halt == Running({"HALT"}) /\ Stop("halt")

Step ==
  \/ Push \/ Pop \/ Dup \/ Operate \/ Change \/ GetLocal \/ SetLocal \/ Jump
  \/ Call \/ AllocFrame \/ Return \/ CallNative \/ AssertTrue \/ Exit \/ Halt

Waiting == Running({"CALL_NATIVE"}) /\ Fetched.to = "read" /\ input = <<>>
=============================================================================
