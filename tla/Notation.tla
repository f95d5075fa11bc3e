------------------------------ MODULE Notation ------------------------------
(***************************************************************************)
(* How a program is written: the tokens of a tree.  This is the grammar    *)
(* the documentation describes (docs/spec/statements), stated as printing  *)
(* instead of parsing, and so independent of the parser: parentheses stand *)
(* where the precedence of the operators asks for them, or, when full is   *)
(* TRUE, around every operand that is not a single token or an access.     *)
(***************************************************************************)
EXTENDS Integers, Sequences

LOCAL INSTANCE SequencesExt

Mark(type) == <<[type |-> type]>>
Word(name) == <<[type |-> "IDENTIFIER", value |-> name]>>

Between(separator, pieces) ==
  FlattenSeq([i \in 1..Len(pieces) |->
                IF i = 1 THEN pieces[i] ELSE Mark(separator) \o pieces[i]])

\* Names with dots are only compared; this one is written with its parts.
QualifiedText(name) ==
  IF name = "p.C" THEN Word("p") \o Mark(".") \o Word("C") ELSE Word(name)

RECURSIVE TypeText(_)
TypeText(type) ==
  LET args == [i \in 1..Len(type.args) |-> TypeText(type.args[i])]
  IN  (CASE type.name = "(*)" -> args[1] \o Mark("(") \o Mark("*") \o Mark(")") \o Mark("(")
                                   \o Between(",", Tail(args)) \o Mark(")")
         [] type.name \in {"int8", "int64", "bool", "void"} ->
              <<[type |-> "PRIMITIVE", value |-> type.name]>>
         [] OTHER -> QualifiedText(type.name)
                     \o (IF args = <<>> THEN <<>> ELSE Mark("<") \o Between(",", args) \o Mark(">")))
      \o [i \in 1..type.depth |-> [type |-> "[]"]]

Precedence(tree) ==
  CASE tree.node \in {"assign", "lambda"} -> 1
    [] tree.node = "ternary" -> 2
    [] tree.node = "binary" ->
         (CASE tree.op = "||" -> 3
            [] tree.op = "&&" -> 4
            [] tree.op \in {"==", "!="} -> 5
            [] tree.op \in {"<", "<=", ">", ">=", "instanceof"} -> 6
            [] tree.op \in {"+", "-"} -> 7
            [] OTHER -> 8)
    [] tree.node \in {"unary", "cast"} -> 9
    [] OTHER -> 10

ParametersText(params) ==
  Mark("(") \o Between(",", [i \in 1..Len(params) |-> TypeText(params[i].type) \o Word(params[i].name)])
    \o Mark(")")

RECURSIVE Text(_, _), Statement(_, _), Operand(_, _, _)

\* tree as an operand of an operator that takes operands from level on.
Operand(tree, level, full) ==
  IF Precedence(tree) < level \/ (full /\ Precedence(tree) < 10)
  THEN Mark("(") \o Text(tree, full) \o Mark(")")
  ELSE Text(tree, full)

Texts(trees, full) == Between(",", [i \in 1..Len(trees) |-> Operand(trees[i], 1, full)])

Statements(trees, full) ==
  FlattenSeq([i \in 1..Len(trees) |-> Statement(trees[i], full)])

Text(tree, full) ==
  LET level == Precedence(tree)
  IN CASE tree.node = "num" -> <<[type |-> "NUMBER", value |-> tree.value]>>
       [] tree.node = "id" -> IF tree.name = "super" THEN Mark("super") ELSE Word(tree.name)
       [] tree.node = "assign" ->
            Operand(tree.target, 10, full) \o Mark(tree.op) \o Operand(tree.value, 1, full)
       [] tree.node = "ternary" ->
            Operand(tree.cond, 3, full) \o Mark("?") \o Operand(tree.yes, 1, full)
              \o Mark(":") \o Operand(tree.no, 1, full)
       [] tree.node = "binary" ->
            Operand(tree.left, level, full) \o Mark(tree.op)
              \o (IF tree.op = "instanceof" THEN TypeText(tree.right)
                  ELSE Operand(tree.right, level + 1, full))
       [] tree.node = "unary" ->
            IF tree.prefix THEN Mark(tree.op) \o Operand(tree.operand, 9, full)
            ELSE Operand(tree.operand, 10, full) \o Mark(tree.op)
       [] tree.node = "cast" ->
            Mark("(") \o TypeText(tree.type) \o Mark(")") \o Operand(tree.operand, 9, full)
       [] tree.node = "call" ->
            Operand(tree.callee, 10, full)
              \o (IF tree.types = <<>> THEN <<>>
                  ELSE Mark("<") \o Between(",", [i \in 1..Len(tree.types) |-> TypeText(tree.types[i])])
                       \o Mark(">"))
              \o Mark("(") \o Texts(tree.args, full) \o Mark(")")
       [] tree.node = "member" -> Operand(tree.object, 10, full) \o Mark(tree.op) \o Word(tree.name)
       [] tree.node = "index" ->
            Operand(tree.array, 10, full) \o Mark("[") \o Operand(tree.index, 1, full) \o Mark("]")
       [] tree.node = "new" ->
            Mark("new") \o TypeText(tree.type) \o Mark("(") \o Texts(tree.args, full) \o Mark(")")
       [] tree.node = "newArray" ->
            Mark("new") \o TypeText(tree.type) \o Mark("[") \o Operand(tree.size, 1, full) \o Mark("]")
       [] tree.node = "array" -> Mark("[") \o Texts(tree.elements, full) \o Mark("]")
       [] tree.node = "sizeof" -> Mark("sizeof") \o Mark("(")
              \o (IF "node" \in DOMAIN tree.of THEN Text(tree.of, full) ELSE TypeText(tree.of)) \o Mark(")")
       [] tree.node = "default" -> Mark("default") \o Mark("(") \o TypeText(tree.type) \o Mark(")")
       [] tree.node = "lambda" ->
            (IF tree.captures = <<>> THEN Mark("[]")
             ELSE Mark("[") \o Between(",", [i \in 1..Len(tree.captures) |-> Word(tree.captures[i])])
                  \o Mark("]"))
              \o ParametersText(tree.params)
              \o (IF tree.type = <<>> THEN <<>> ELSE Mark(":") \o TypeText(tree.type[1]))
              \o Mark("=>")
              \o (IF tree.body.node = "block" THEN Statement(tree.body, full)
                  ELSE Operand(tree.body, 1, full))

\* An optional expression or statement.
Maybe(trees, full) == IF trees = <<>> THEN <<>> ELSE Text(trees[1], full)

VariableText(var, full) ==
  Word(var.name) \o (IF var.init = <<>> THEN <<>> ELSE Mark("=") \o Text(var.init[1], full))

Condition(tree, full) == Mark("(") \o Text(tree, full) \o Mark(")")

CaseText(case, full) ==
  (IF case.value = <<>> THEN Mark("default") ELSE Mark("case") \o Text(case.value[1], full))
    \o Mark(":") \o Statements(case.body, full)

CatchText(clause, full) ==
  Mark("catch") \o Mark("(") \o TypeText(clause.type) \o Word(clause.name) \o Mark(")")
    \o Statement(clause.body, full)

Statement(tree, full) ==
  CASE tree.node = "block" -> Mark("{") \o Statements(tree.body, full) \o Mark("}")
    [] tree.node = "expr" -> Text(tree.expr, full) \o Mark(";")
    [] tree.node = "none" -> Mark(";")
    [] tree.node = "var" -> TypeText(tree.type) \o VariableText(tree, full) \o Mark(";")
    [] tree.node = "decls" ->
         TypeText(tree.body[1].type)
           \o Between(",", [i \in 1..Len(tree.body) |-> VariableText(tree.body[i], full)]) \o Mark(";")
    [] tree.node = "if" ->
         Mark("if") \o Condition(tree.cond, full) \o Statement(tree.then, full)
           \o (IF tree.else = <<>> THEN <<>> ELSE Mark("else") \o Statement(tree.else[1], full))
    [] tree.node = "while" ->
         Mark("while") \o Condition(tree.cond, full) \o Statement(tree.body, full)
    [] tree.node = "do" ->
         Mark("do") \o Statement(tree.body, full) \o Mark("while") \o Condition(tree.cond, full)
           \o Mark(";")
    [] tree.node = "for" ->
         Mark("for") \o Mark("(") \o Statement(tree.first, full) \o Maybe(tree.cond, full) \o Mark(";")
           \o Maybe(tree.step, full) \o Mark(")") \o Statement(tree.body, full)
    [] tree.node = "switch" ->
         Mark("switch") \o Condition(tree.cond, full) \o Mark("{")
           \o FlattenSeq([i \in 1..Len(tree.cases) |-> CaseText(tree.cases[i], full)]) \o Mark("}")
    [] tree.node = "return" -> Mark("return") \o Maybe(tree.given, full) \o Mark(";")
    [] tree.node \in {"break", "continue"} -> Mark(tree.node) \o Mark(";")
    [] tree.node = "throw" -> Mark("throw") \o Text(tree.thrown, full) \o Mark(";")
    [] tree.node \in {"assert", "exit"} ->
         Mark(tree.node) \o Mark("(") \o Text(tree.value, full)
           \o (IF tree.message = <<>> THEN <<>> ELSE Mark(",") \o Text(tree.message[1], full))
           \o Mark(")") \o Mark(";")
    [] tree.node = "try" ->
         Mark("try") \o Statement(tree.body, full)
           \o FlattenSeq([i \in 1..Len(tree.catches) |-> CatchText(tree.catches[i], full)])
           \o (IF tree.finally = <<>> THEN <<>> ELSE Mark("finally") \o Statement(tree.finally[1], full))

Modifiers(member) ==
  Mark(member.access) \o [i \in 1..Cardinality(member.marks) |-> [type |-> SetToSeq(member.marks)[i]]]

\* The leading statements of a constructor that a list of initializers can
\* hold: the call of super and assignments to the fields of this.
IsInitializer(tree) ==
  /\ tree.node = "expr"
  /\ \/ tree.expr.node = "call" /\ tree.expr.callee = [node |-> "id", name |-> "super"]
     \/ /\ tree.expr.node = "assign"
        /\ tree.expr.target.node = "member"
        /\ tree.expr.target.object = [node |-> "id", name |-> "this"]

InitializerText(tree) ==
  IF tree.expr.node = "call" THEN Text(tree.expr, FALSE)
  ELSE Word(tree.expr.target.name) \o Mark("(") \o Text(tree.expr.value, FALSE) \o Mark(")")

ConstructorBody(body, full) ==
  LET lists == {n \in 0..Len(body.body) : \A i \in 1..n : IsInitializer(body.body[i])}
      n     == IF full THEN 0 ELSE CHOOSE k \in lists : \A other \in lists : other <= k
  IN  (IF n = 0 THEN <<>>
       ELSE Mark(":") \o Between(",", [i \in 1..n |-> InitializerText(body.body[i])]))
      \o Statement([body EXCEPT !.body = SubSeq(@, n + 1, Len(@))], full)

\* The name of a method, or of an operator it overloads.
NameText(name) ==
  LET ops == {op \in {"+", "-", "*", "/", "=", "==", "!=", "<", ">", "<=", ">="} :
                name = "operator" \o op}
  IN  IF ops = {} THEN Word(name) ELSE Mark("operator") \o Mark(CHOOSE op \in ops : TRUE)

Formals(names) ==
  IF names = <<>> THEN <<>>
  ELSE Mark("<") \o Between(",", [i \in 1..Len(names) |-> Word(names[i])]) \o Mark(">")

Path(names) ==
  Between(".", [i \in 1..Len(names) |-> IF names[i] = "*" THEN Mark("*") ELSE Word(names[i])])

\* A method of an interface.
SignatureText(method) ==
  TypeText(method.type) \o Word(method.name) \o ParametersText(method.params) \o Mark(";")

RECURSIVE Declaration(_, _)
Declaration(tree, full) ==
  CASE tree.node = "field" ->
         Modifiers(tree) \o TypeText(tree.type) \o VariableText(tree, full) \o Mark(";")
    [] tree.node = "method" ->
         Modifiers(tree) \o TypeText(tree.type) \o NameText(tree.name)
           \o (IF tree.templates = <<>> THEN <<>>
               ELSE Mark("<") \o Between(",", [i \in 1..Len(tree.templates) |-> TypeText(tree.templates[i])])
                    \o Mark(">"))
           \o ParametersText(tree.params)
           \o (IF tree.body = <<>> THEN Mark(";") ELSE Statement(tree.body[1], full))
    [] tree.node = "constructor" ->
         Mark(tree.access) \o Word(tree.class) \o ParametersText(tree.params)
           \o ConstructorBody(tree.body, full)
    [] tree.node = "destructor" ->
         Mark(tree.access) \o Mark("~") \o Word(tree.class) \o Mark("(") \o Mark(")")
           \o Statement(tree.body, full)
    [] tree.node = "class" ->
         Mark(tree.access) \o (IF tree.abstract THEN Mark("abstract") ELSE <<>>) \o Mark("class")
           \o Word(tree.name) \o Formals(tree.templates)
           \o (IF tree.base = <<>> THEN <<>> ELSE Mark("extends") \o TypeText(tree.base[1]))
           \o (IF tree.faces = <<>> THEN <<>>
               ELSE Mark("implements")
                    \o Between(",", [i \in 1..Len(tree.faces) |-> TypeText(tree.faces[i])]))
           \o Mark("{")
           \o FlattenSeq([i \in 1..Len(tree.members) |-> Declaration(tree.members[i], full)])
           \o Mark("}")
    [] tree.node = "interface" ->
         Mark(tree.access) \o Mark("interface") \o Word(tree.name) \o Formals(tree.templates)
           \o (IF tree.faces = <<>> THEN <<>>
               ELSE Mark("extends")
                    \o Between(",", [i \in 1..Len(tree.faces) |-> TypeText(tree.faces[i])]))
           \o Mark("{")
           \o FlattenSeq([i \in 1..Len(tree.members) |-> SignatureText(tree.members[i])]) \o Mark("}")
    [] tree.node = "enum" ->
         Mark(tree.access) \o Mark("enum") \o Word(tree.name) \o Mark("{")
           \o Between(",", [i \in 1..Len(tree.members) |-> Word(tree.members[i])]) \o Mark("}")
    [] tree.node = "package" -> Mark("package") \o Path(tree.path) \o Mark(";")
    [] tree.node = "import" -> Mark("import") \o Path(tree.package \o tree.symbol) \o Mark(";")
    [] tree.node = "alias" ->
         Mark("alias") \o Word(tree.name) \o Formals(tree.templates) \o Mark("=")
           \o TypeText(tree.type) \o Mark(";")
=============================================================================
