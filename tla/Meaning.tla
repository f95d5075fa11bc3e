------------------------------ MODULE Meaning ------------------------------
(***************************************************************************)
(* What a program means, as docs/spec/statements describes it: a           *)
(* structured evaluation of the tree, without instructions, addresses or   *)
(* an operand stack.  A state is the variables, what is left to read, what *)
(* was printed, and how the evaluation goes on: "on", or "break",          *)
(* "continue" or "return" on the way to where these lead, or the reason    *)
(* the program stopped.  Variables hold values of their type.              *)
(***************************************************************************)
EXTENDS Integers, Sequences

Value(v, s) == [v |-> v, s |-> s]
Ended(s, how) == [s EXCEPT !.goes = how]

Truth(b) == IF b THEN 1 ELSE 0
Magnitude(n) == IF n < 0 THEN -n ELSE n
Divided(a, b) ==
  IF (a < 0) = (b < 0) THEN Magnitude(a) \div Magnitude(b) ELSE -(Magnitude(a) \div Magnitude(b))

Held(type, v) == IF type = "int8" THEN ((v + 128) % 256) - 128 ELSE v

Applied(op, a, b) ==
  CASE op \in {"+", "+="} -> a + b
    [] op \in {"-", "-="} -> a - b
    [] op \in {"*", "*="} -> a * b
    [] op \in {"/", "/="} -> Divided(a, b)
    [] op \in {"%", "%="} -> a - b * Divided(a, b)
    [] op = "==" -> Truth(a = b)
    [] op = "!=" -> Truth(a # b)
    [] op = "<"  -> Truth(a < b)
    [] op = "<=" -> Truth(a <= b)
    [] op = ">"  -> Truth(a > b)
    [] op = ">=" -> Truth(a >= b)

\* Evaluate and Execute call one another through Means, which is defined last.
RECURSIVE Means(_, _, _, _), Arguments(_, _, _), InOrder(_, _, _)

\* A value stored in a variable, which is also the value of the expression.
Stored(name, v, s) ==
  Value(v, [s EXCEPT !.vars[name] = Held(s.types[name], v)])

BothApplied(op, left, right) ==
  IF right.s.goes # "on" THEN right
  ELSE IF op \in {"/", "%", "/=", "%="} /\ right.v = 0
  THEN Value(0, Ended(right.s, "ArithmeticException"))
  ELSE Value(Applied(op, left.v, right.v), right.s)

Called(name, args, s, methods) ==
  LET method == methods[CHOOSE i \in 1..Len(methods) : methods[i].name = name]
      params == [i \in 1..Len(method.params) |-> method.params[i].name]
      vars   == [v \in DOMAIN s.all[name] |->
                   IF \E i \in 1..Len(params) : params[i] = v
                   THEN args[CHOOSE i \in 1..Len(params) : params[i] = v] ELSE 0]
      after  == Means("statement", method.body[1],
                        [s EXCEPT !.vars = vars, !.types = s.all[name], !.returns = 0], methods)
      back   == [after EXCEPT !.vars = s.vars, !.types = s.types, !.returns = s.returns]
  IN  CASE after.goes = "return" ->
             Value(Held(method.type.name, after.returns), Ended(back, "on"))
        [] OTHER -> Value(0, back)

\* The values of expressions from left to right.
Arguments(trees, s, methods) ==
  IF trees = <<>> THEN Value(<<>>, s)
  ELSE LET first == Means("expression", Head(trees), s, methods)
           rest  == Arguments(Tail(trees), first.s, methods)
       IN  Value(<<first.v>> \o rest.v, rest.s)

Evaluate(tree, s, methods) ==
  LET E(t, at) == Means("expression", t, at, methods)
      left  == E(tree.left, s)
      cond  == E(tree.cond, s)
      old   == s.vars[tree.operand.name]
      new   == IF tree.op = "++" THEN old + 1 ELSE old - 1
      inner == E(tree.operand, s)
      value == E(tree.value, s)
      args  == Arguments(tree.args, s, methods)
  IN  CASE s.goes # "on" -> Value(0, s)
        [] tree.node = "num" -> Value(tree.value, s)
        [] tree.node = "id" ->
             Value(CASE tree.name = "true" -> 1 [] tree.name = "false" -> 0
                     [] OTHER -> s.vars[tree.name], s)
        [] tree.node = "binary" ->
             IF tree.op \in {"&&", "||"}
             THEN IF (left.v # 0) = (tree.op = "||") THEN left ELSE E(tree.right, left.s)
             ELSE BothApplied(tree.op, left, E(tree.right, left.s))
        [] tree.node = "ternary" -> E(IF cond.v # 0 THEN tree.yes ELSE tree.no, cond.s)
        [] tree.node = "cast" -> Value(Held(tree.type.name, inner.v), inner.s)
        [] tree.node = "unary" ->
             (CASE tree.op = "!" -> Value(Truth(inner.v = 0), inner.s)
                [] tree.op = "-" -> Value(-inner.v, inner.s)
                [] OTHER -> [Stored(tree.operand.name, new, s)
                               EXCEPT !.v = IF tree.prefix THEN new ELSE old])
        [] tree.node = "assign" ->
             LET result == IF tree.op = "=" THEN value
                           ELSE BothApplied(tree.op, E(tree.target, s), value)
             IN  IF result.s.goes # "on" THEN result
                 ELSE Stored(tree.target.name, result.v, result.s)
        [] tree.node = "call" ->
             (CASE args.s.goes # "on" -> Value(0, args.s)
                [] tree.callee.name = "print" ->
                     Value(0, [args.s EXCEPT !.out = Append(@, args.v[1])])
                [] tree.callee.name = "read" ->
                     IF args.s.in = <<>> THEN Value(0, Ended(args.s, "waiting"))
                     ELSE Value(Head(args.s.in), [args.s EXCEPT !.in = Tail(@)])
                [] OTHER -> Called(tree.callee.name, args.v, args.s, methods))

InOrder(trees, s, methods) ==
  IF trees = <<>> \/ s.goes # "on" THEN s
  ELSE InOrder(Tail(trees), Means("statement", Head(trees), s, methods), methods)

\* A loop that is about to test its condition.
Repeat(loop, s, methods) ==
  LET cond  == IF loop.cond = <<>> THEN Value(1, s) ELSE Means("expression", loop.cond[1], s, methods)
      body  == Means("statement", loop.body, cond.s, methods)
      again == IF body.goes = "continue" THEN Ended(body, "on") ELSE body
      step  == IF loop.step = <<>> THEN Value(0, again)
               ELSE Means("expression", loop.step[1], again, methods)
  IN  CASE cond.s.goes # "on" \/ cond.v = 0 -> cond.s
        [] body.goes = "break" -> Ended(body, "on")
        [] again.goes # "on" -> again
        [] OTHER -> Means("loop", loop, step.s, methods)

\* Where a switch begins: at the label equal to the value, wherever default
\* is; at default when no label is; behind the last body without either.
Entry(cases, v, s, methods) ==
  LET equal == {i \in 1..Len(cases) :
                  cases[i].value # <<>> /\ Means("expression", cases[i].value[1], s, methods).v = v}
      other == {i \in 1..Len(cases) : cases[i].value = <<>>}
  IN  CASE equal # {} -> CHOOSE i \in equal : \A j \in equal : i <= j
        [] equal = {} /\ other # {} -> CHOOSE i \in other : TRUE
        [] OTHER -> Len(cases) + 1

RECURSIVE FromCase(_, _, _, _)
FromCase(cases, n, s, methods) ==
  IF n > Len(cases) THEN s
  ELSE FromCase(cases, n + 1, InOrder(cases[n].body, s, methods), methods)

Execute(tree, s, methods) ==
  LET cond  == Means("expression", tree.cond, s, methods)
      value == Means("expression", tree.value, s, methods)
      loop(c, step) == [cond |-> c, step |-> step, body |-> tree.body]
  IN  CASE s.goes # "on" -> s
        [] tree.node \in {"block", "decls"} -> InOrder(tree.body, s, methods)
        [] tree.node = "none" -> s
        [] tree.node = "expr" -> Means("expression", tree.expr, s, methods).s
        [] tree.node = "var" ->
             IF tree.init = <<>> THEN s
             ELSE LET init == Means("expression", tree.init[1], s, methods)
                  IN  IF init.s.goes # "on" THEN init.s ELSE Stored(tree.name, init.v, init.s).s
        [] tree.node = "if" ->
             (CASE cond.s.goes # "on" -> cond.s
                [] cond.s.goes = "on" /\ cond.v # 0 -> Means("statement", tree.then, cond.s, methods)
                [] OTHER -> InOrder(tree.else, cond.s, methods))
        [] tree.node = "while" -> Means("loop", loop(<<tree.cond>>, <<>>), s, methods)
        [] tree.node = "do" ->
             LET first == Means("statement", tree.body, s, methods)
             IN  CASE first.goes = "break" -> Ended(first, "on")
                   [] first.goes \in {"on", "continue"} ->
                        Means("loop", loop(<<tree.cond>>, <<>>), Ended(first, "on"), methods)
                   [] OTHER -> first
        [] tree.node = "for" ->
             Means("loop", loop(tree.cond, tree.step), Means("statement", tree.first, s, methods), methods)
        [] tree.node = "switch" ->
             IF cond.s.goes # "on" THEN cond.s
             ELSE LET after == FromCase(tree.cases, Entry(tree.cases, cond.v, cond.s, methods),
                                        cond.s, methods)
                  IN  IF after.goes = "break" THEN Ended(after, "on") ELSE after
        [] tree.node \in {"break", "continue"} -> Ended(s, tree.node)
        [] tree.node = "return" ->
             IF tree.given = <<>> THEN Ended(s, "return")
             ELSE LET given == Means("expression", tree.given[1], s, methods)
                  IN  IF given.s.goes # "on" THEN given.s
                      ELSE [given.s EXCEPT !.returns = given.v, !.goes = "return"]
        [] tree.node = "assert" ->
             IF value.s.goes = "on" /\ value.v = 0 THEN Ended(value.s, "AssertionError")
             ELSE value.s
        [] tree.node = "exit" -> IF value.s.goes = "on" THEN Ended(value.s, "exit") ELSE value.s

Means(what, tree, s, methods) ==
  CASE what = "expression" -> Evaluate(tree, s, methods)
    [] what = "statement"  -> Execute(tree, s, methods)
    [] what = "loop"       -> Repeat(tree, s, methods)

\* The meaning of a program: what it prints and how it ends.  types says for
\* every method which variables it has, and their types.
Meaning(methods, types, given) ==
  LET start == [vars |-> <<>>, types |-> <<>>, all |-> types, in |-> given, out |-> <<>>,
                goes |-> "on", returns |-> 0]
      end   == Called("main", <<>>, start, methods).s
  IN  [out |-> end.out, ends |-> IF end.goes = "on" THEN "halt" ELSE end.goes]
=============================================================================
