--------------------------- MODULE CodeGeneration ---------------------------
(***************************************************************************)
(* core/src/processes/assembler.cpp for methods whose values are integers  *)
(* and booleans: expressions, statements, functions and the boot sequence. *)
(* What it emits for references, try and throw is in RefCounting and       *)
(* Unwinding, and so are the cleanup segments of blocks.                   *)
(*                                                                         *)
(* An instruction is a record: op, its operand arg, and to, the address    *)
(* that is still to be patched into arg (break, continue or the name of a  *)
(* method), or "".  Until a function is placed the operand of a jump is    *)
(* the distance to its target.                                             *)
(*                                                                         *)
(* scope is what the binder knows of the method: slot[v] is the frame      *)
(* index of variable v, type[v] its type, and native the names of the      *)
(* native methods.                                                         *)
(***************************************************************************)
EXTENDS Integers, Sequences

LOCAL INSTANCE SequencesExt

Emit(op, arg) == <<[op |-> op, arg |-> arg, to |-> ""]>>
EmitPatched(op, to) == <<[op |-> op, arg |-> 0, to |-> to]>>

Jumps == {"JUMP", "JUMP_IF_FALSE", "JUMP_IF_TRUE"}

\* Every jump in code that waits for the address of to goes to the
\* instruction at target.
Patched(code, to, target) ==
  [i \in 1..Len(code) |->
     IF code[i].to = to THEN [code[i] EXCEPT !.arg = target - i, !.to = ""] ELSE code[i]]

\* Mutant: a narrow integer loses its sign.
ConversionUnsigned(type) ==
  CASE type \in {"int8", "bool"} -> Emit("CONV_U8", 0)
    [] OTHER                     -> <<>>

Conversion(type) ==
  CASE type = "int8" -> Emit("CONV_I8", 0)
    [] type = "bool" -> Emit("CONV_U8", 0)
    [] OTHER         -> <<>>

BinaryOp(op) ==
  CASE op \in {"+", "+="} -> "ADD_I64"
    [] op \in {"-", "-="} -> "SUB_I64"
    [] op \in {"*", "*="} -> "MUL_I64"
    [] op \in {"/", "/="} -> "DIV_I64"
    [] op \in {"%", "%="} -> "MOD_I64"
    [] op = "=="  -> "EQ_I64"
    [] op = "!="  -> "NEQ_I64"
    [] op = "<"   -> "LESS_I64"
    [] op = "<="  -> "LESS_EQ_I64"
    [] op = ">"   -> "GREATER_I64"
    [] op = ">="  -> "GREATER_EQ_I64"

RECURSIVE Expression(_, _), Body(_, _)

\* && and || keep the left operand as the value unless the right decides.
Logical(tree, scope) ==
  LET right == Emit("POP", 0) \o Expression(tree.right, scope)
  IN  Expression(tree.left, scope) \o Emit("DUP", 0)
        \o Emit(IF tree.op = "&&" THEN "JUMP_IF_FALSE" ELSE "JUMP_IF_TRUE", Len(right) + 1)
        \o right

Binary(tree, scope) ==
  IF tree.op \in {"&&", "||"} THEN Logical(tree, scope)
  ELSE Expression(tree.left, scope) \o Expression(tree.right, scope) \o Emit(BinaryOp(tree.op), 0)

\* The value of an assignment is the one on the stack before it is narrowed
\* to the type of the variable.
Assignment(tree, scope) ==
  (IF tree.op = "=" THEN Expression(tree.value, scope)
   ELSE Expression(tree.target, scope) \o Expression(tree.value, scope)
          \o Emit(BinaryOp(tree.op), 0))
    \o Emit("DUP", 0) \o Conversion(scope.type[tree.target.name])
    \o Emit("SET_LOCAL", scope.slot[tree.target.name])

Unary(tree, scope) ==
  LET operand == Expression(tree.operand, scope)
      change  == Emit(IF tree.op = "++" THEN "INC_I64" ELSE "DEC_I64", 0)
      keep    == Emit("DUP", 0)
  IN  CASE tree.op = "!" -> operand \o Emit("LOGICAL_NOT", 0)
        [] tree.op = "-" -> operand \o Emit("NEGATE_I64", 0)
        [] OTHER ->
             operand \o (IF tree.prefix THEN change \o keep ELSE keep \o change)
               \o Emit("SET_LOCAL", scope.slot[tree.operand.name])

Ternary(tree, scope) ==
  LET yes == Expression(tree.yes, scope)
      no  == Expression(tree.no, scope)
  IN  Expression(tree.cond, scope) \o Emit("JUMP_IF_FALSE", Len(yes) + 2)
        \o yes \o Emit("JUMP", Len(no) + 1) \o no

MethodCall(tree, scope) ==
  LET args == FlattenSeq([i \in 1..Len(tree.args) |-> Expression(tree.args[i], scope)])
      name == tree.callee.name
  IN  args \o (IF name \in scope.native
               THEN <<[op |-> "CALL_NATIVE", arg |-> Len(tree.args), to |-> name]>>
               ELSE EmitPatched("PUSH", name) \o Emit("PUSH", Len(tree.args)) \o Emit("CALL", 0))

Expression(tree, scope) ==
  CASE tree.node = "num"     -> Emit("PUSH", tree.value)
    [] tree.node = "id"      ->
         (CASE tree.name = "true"  -> Emit("PUSH", 1)
            [] tree.name = "false" -> Emit("PUSH", 0)
            [] OTHER               -> Emit("GET_LOCAL", scope.slot[tree.name]))
    [] tree.node = "binary"  -> Binary(tree, scope)
    [] tree.node = "assign"  -> Assignment(tree, scope)
    [] tree.node = "unary"   -> Unary(tree, scope)
    [] tree.node = "ternary" -> Ternary(tree, scope)
    [] tree.node = "call"    -> MethodCall(tree, scope)
    [] tree.node = "cast"    -> Expression(tree.operand, scope) \o Conversion(tree.type.name)

-----------------------------------------------------------------------------
(* Statements *)

Bodies(trees, scope) == FlattenSeq([i \in 1..Len(trees) |-> Body(trees[i], scope)])

\* A normal end jumps over the segment that exceptions reach.
Block(tree, scope) ==
  Bodies(tree.body, scope) \o Emit("JUMP", 2) \o EmitPatched("JUMP", "cleanup")

Variable(tree, scope) ==
  IF tree.init = <<>> THEN <<>>
  ELSE Expression(tree.init[1], scope) \o Conversion(tree.type.name)
         \o Emit("SET_LOCAL", scope.slot[tree.name])

If(tree, scope) ==
  LET then == Body(tree.then, scope)
      else == Bodies(tree.else, scope)
      skip == IF tree.else = <<>> THEN <<>> ELSE Emit("JUMP", Len(else) + 1)
  IN  Expression(tree.cond, scope) \o Emit("JUMP_IF_FALSE", Len(then \o skip) + 1)
        \o then \o skip \o else

\* break leaves the loop behind its last instruction.
Looping(code, continue) == Patched(Patched(code, "continue", continue), "break", Len(code) + 1)

While(tree, scope) ==
  LET cond == Expression(tree.cond, scope)
      body == Body(tree.body, scope)
  IN  Looping(cond \o Emit("JUMP_IF_FALSE", Len(body) + 2) \o body
                \o Emit("JUMP", -(Len(cond) + Len(body) + 1)), 1)

DoWhile(tree, scope) ==
  LET cond == Expression(tree.cond, scope)
      body == Body(tree.body, scope)
  IN  Looping(body \o cond \o Emit("JUMP_IF_TRUE", -(Len(body) + Len(cond))), Len(body) + 1)

\* Mutant: continue goes to the test and misses the step.
ForMissingStep(tree, scope) ==
  LET step == IF tree.step = <<>> THEN <<>>
              ELSE Expression(tree.step[1], scope) \o Emit("POP", 0)
      body == Body(tree.body, scope)
      cond == IF tree.cond = <<>> THEN <<>>
              ELSE Expression(tree.cond[1], scope)
                     \o Emit("JUMP_IF_FALSE", Len(body) + Len(step) + 2)
  IN  Body(tree.first, scope)
        \o Looping(cond \o body \o step \o Emit("JUMP", -Len(cond \o body \o step)), 1)

For(tree, scope) ==
  LET step == IF tree.step = <<>> THEN <<>>
              ELSE Expression(tree.step[1], scope) \o Emit("POP", 0)
      body == Body(tree.body, scope)
      cond == IF tree.cond = <<>> THEN <<>>
              ELSE Expression(tree.cond[1], scope)
                     \o Emit("JUMP_IF_FALSE", Len(body) + Len(step) + 2)
  IN  Body(tree.first, scope)
        \o Looping(cond \o body \o step \o Emit("JUMP", -Len(cond \o body \o step)),
                   Len(cond \o body) + 1)

\* Where the ways out of a switch lead: to the last instruction, which takes
\* the value from the stack.
\* Mutant: they go behind it.
SwitchExitLate(code) == Len(code) + 1

SwitchExit(code) == Len(code)

\* The value switched on stays on the stack while the tests and the bodies
\* run; default jumps where it stands, in the order of the labels.
Switch(tree, scope) ==
  LET labels == 1..Len(tree.cases)
      value(i)  == Expression(tree.cases[i].value[1], scope)
      tests  == FlattenSeq([i \in labels |->
                  IF tree.cases[i].value = <<>> THEN EmitPatched("JUMP", ToString(i))
                  ELSE Emit("DUP", 0) \o value(i) \o Emit("EQ_I64", 0)
                         \o EmitPatched("JUMP_IF_TRUE", ToString(i))])
      \* no default: leave
      leave  == IF \E i \in labels : tree.cases[i].value = <<>> THEN <<>>
                ELSE EmitPatched("JUMP", "end")
      body   == [i \in labels |-> Bodies(tree.cases[i].body, scope)]
      start(i) == Len(tests \o leave \o FlattenSeq(SubSeq(body, 1, i - 1))) + 1
      code   == tests \o leave \o FlattenSeq(body) \o Emit("POP", 0)
      placed == FoldLeftDomain(LAMBDA c, i : Patched(c, ToString(i), start(i)), code, tree.cases)
  IN  Expression(tree.cond, scope)
        \o Patched(Patched(placed, "end", SwitchExit(code)), "break", SwitchExit(code))

Body(tree, scope) ==
  CASE tree.node = "block"  -> Block(tree, scope)
    [] tree.node = "decls"  -> Bodies(tree.body, scope)
    [] tree.node = "var"    -> Variable(tree, scope)
    [] tree.node = "none"   -> <<>>
    [] tree.node = "expr"   -> Expression(tree.expr, scope) \o Emit("POP", 0)
    [] tree.node = "if"     -> If(tree, scope)
    [] tree.node = "while"  -> While(tree, scope)
    [] tree.node = "do"     -> DoWhile(tree, scope)
    [] tree.node = "for"    -> For(tree, scope)
    [] tree.node = "switch" -> Switch(tree, scope)
    [] tree.node \in {"break", "continue"} -> EmitPatched("JUMP", tree.node)
    [] tree.node = "return" ->
         (IF tree.given = <<>> THEN Emit("PUSH", 0)
          ELSE Expression(tree.given[1], scope) \o Conversion(scope.returns))
           \o Emit("RETURN", 0)
    [] tree.node = "assert" -> Expression(tree.value, scope) \o Emit("ASSERT", 0)
    [] tree.node = "exit"   -> Expression(tree.value, scope) \o Emit("EXIT", 0)

-----------------------------------------------------------------------------
(* Binding: the binder numbers parameters and then variables, in the order *)
(* of their declarations, whatever block they are in; a number is not used *)
(* again.                                                                  *)

RECURSIVE Declared(_)
Declared(tree) ==
  LET all(trees) == FlattenSeq([i \in 1..Len(trees) |-> Declared(trees[i])])
  IN  CASE tree.node = "var" -> <<tree>>
        [] tree.node \in {"block", "decls"} -> all(tree.body)
        [] tree.node = "if" -> Declared(tree.then) \o all(tree.else)
        [] tree.node \in {"while", "do"} -> Declared(tree.body)
        [] tree.node = "for" -> Declared(tree.first) \o Declared(tree.body)
        [] tree.node = "switch" ->
             FlattenSeq([i \in 1..Len(tree.cases) |-> all(tree.cases[i].body)])
        [] OTHER -> <<>>

Scope(method, native) ==
  LET vars  == method.params \o Declared(method.body[1])
      names == {vars[i].name : i \in 1..Len(vars)}
      index(v) == CHOOSE i \in 1..Len(vars) : vars[i].name = v
  IN  [slot |-> [v \in names |-> index(v) - 1], type |-> [v \in names |-> vars[index(v)].type.name],
       frame |-> Len(vars), returns |-> method.type.name, native |-> native]

Function(method, native) ==
  LET scope == Scope(method, native)
  IN  Emit("ALLOC_FRAME", scope.frame) \o Bodies(method.body, scope)
        \o Emit("PUSH", 0) \o Emit("RETURN", 0)

\* compile_boot_sequence: call the entry point, whose code is patched in
\* like that of any other method.
Boot == EmitPatched("PUSH", "main") \o Emit("PUSH", 0) \o Emit("CALL", 0) \o Emit("HALT", 0)

\* The whole program, with the jumps made absolute and the addresses of
\* methods filled in.
Assembled(methods, native) ==
  LET code(i) == Function(methods[i], native)
      all     == Boot \o FlattenSeq([i \in 1..Len(methods) |-> code(i)])
      address(name) ==
        LET n == CHOOSE i \in 1..Len(methods) : methods[i].name = name
        IN  Len(Boot \o FlattenSeq([i \in 1..(n - 1) |-> code(i)])) + 1
      placed(i) == CASE all[i].op \in Jumps -> i + all[i].arg
                     [] all[i].op = "PUSH" /\ all[i].to # "" -> address(all[i].to)
                     [] OTHER -> all[i].arg
  IN  [i \in 1..Len(all) |-> [all[i] EXCEPT !.arg = placed(i)]]
=============================================================================
