------------------------------- MODULE Syntax -------------------------------
(***************************************************************************)
(* The recursive descent parser, core/src/processes/parser.cpp.            *)
(*                                                                         *)
(* ts is the sequence of tokens, at the position of the next one           *)
(* (`current').  A token is a record with a type and, for names, numbers   *)
(* and primitive types, a value; a keyword or a mark is its own type.      *)
(* An operator Parse... answers the tree it built and the position after   *)
(* it.  A ParseError is the answer Failed, whose position is 0: no token   *)
(* is there, so whatever is parsed from it fails as well.                  *)
(***************************************************************************)
EXTENDS Integers, Sequences

TypeAt(ts, at) == IF at \in 1..Len(ts) THEN ts[at].type ELSE "END"

Failed == [tree |-> [node |-> "error"], at |-> 0]

Parsed(tree, at) == IF at = 0 THEN Failed ELSE [tree |-> tree, at |-> at]

\* consume: the position after a token that must be there.
After(ts, at, type) == IF TypeAt(ts, at) = type THEN at + 1 ELSE 0

\* match: the position after a token that may be there.
Skip(ts, at, type) == IF TypeAt(ts, at) = type THEN at + 1 ELSE at

Name(ts, at) == Parsed(ts[at].value, After(ts, at, "IDENTIFIER"))

\* The token that follows the bracket that closes one opened before at: one
\* past the end if there is none, 0 if a token of stops comes first.
RECURSIVE Beyond(_, _, _, _, _, _)
Beyond(ts, at, open, close, stops, depth) ==
  IF depth = 0 \/ at > Len(ts) THEN at
  ELSE IF TypeAt(ts, at) \in stops THEN 0
  ELSE Beyond(ts, at + 1, open, close, stops,
              CASE TypeAt(ts, at) = open  -> depth + 1
                [] TypeAt(ts, at) = close -> depth - 1
                [] OTHER                  -> depth)

BeyondParen(ts, at) == Beyond(ts, at, "(", ")", {}, 1)

\* The rules call one another through Parse, and those of declarations
\* through Declare, which are defined last.
RECURSIVE Parse(_, _, _), Declare(_, _, _, _)

-----------------------------------------------------------------------------
(* Types *)

\* A name, or names joined by dots into one.
RECURSIVE Qualified(_, _)
Qualified(ts, at) ==
  LET first == Name(ts, at)
      rest  == Qualified(ts, first.at + 1)
  IN  IF TypeAt(ts, first.at) \in {".", "::"}
      THEN Parsed(first.tree \o "." \o rest.tree, rest.at) ELSE first

RECURSIVE ParseTypes(_, _), ParseArrays(_, _), ParseSignature(_, _)

ParseTypes(ts, at) ==
  LET first == Parse("type", ts, at)
      rest  == ParseTypes(ts, first.at + 1)
  IN  IF TypeAt(ts, first.at) = ","
      THEN Parsed(<<first.tree>> \o rest.tree, rest.at)
      ELSE Parsed(<<first.tree>>, first.at)

\* How many pairs of brackets follow: the lexer joins `[]', not `[ ]'.
ParseArrays(ts, at) ==
  LET after == CASE TypeAt(ts, at) = "[]" -> at + 1
                 [] TypeAt(ts, at) = "[" /\ TypeAt(ts, at + 1) = "]" -> at + 2
                 [] OTHER -> 0
      more  == ParseArrays(ts, after)
  IN  IF after = 0 THEN [tree |-> 0, at |-> at]
      ELSE Parsed(more.tree + 1, more.at)

\* `(*)(types)' after a type makes it what a function pointer returns.
ParseSignature(ts, result) ==
  LET open   == After(ts, result.at + 3, "(")
      none   == TypeAt(ts, open) = ")"
      params == IF none THEN [tree |-> <<>>, at |-> open] ELSE ParseTypes(ts, open)
      arrays == ParseArrays(ts, After(ts, params.at, ")"))
  IN  IF /\ TypeAt(ts, result.at) = "("
         /\ TypeAt(ts, result.at + 1) = "*"
         /\ TypeAt(ts, result.at + 2) = ")"
      THEN ParseSignature(ts, Parsed([name |-> "(*)", args |-> <<result.tree>> \o params.tree,
                                      depth |-> arrays.tree],
                                     IF params.at = 0 \/ After(ts, params.at, ")") = 0
                                     THEN 0 ELSE arrays.at))
      ELSE result

ParseTypeInfo(ts, at) ==
  LET name   == IF TypeAt(ts, at) = "IDENTIFIER" THEN Qualified(ts, at)
                ELSE Parsed(ts[at].value, at + 1)
      args   == ParseTypes(ts, name.at + 1)
      plain  == [name |-> name.tree, args |-> <<>>, depth |-> 0]
      named  == IF TypeAt(ts, at) \in {"IDENTIFIER", "tuple"} /\ TypeAt(ts, name.at) = "<"
                THEN Parsed([plain EXCEPT !.args = args.tree], After(ts, args.at, ">"))
                ELSE Parsed(plain, name.at)
      arrays == ParseArrays(ts, named.at)
  IN  IF TypeAt(ts, at) \notin {"PRIMITIVE", "IDENTIFIER", "tuple"} \/ named.at = 0 THEN Failed
      ELSE ParseSignature(ts, Parsed([named.tree EXCEPT !.depth = arrays.tree], arrays.at))

-----------------------------------------------------------------------------
(* Expressions *)

Assignments == {"=", "+=", "-=", "*=", "/=", "%="}

\* From the loosest to the tightest; operators of one level associate to the
\* left.
Levels == << {"||"}, {"&&"}, {"==", "!="}, {"<", "<=", ">", ">=", "instanceof"},
             {"+", "-"}, {"*", "/", "%"} >>

IsPlace(tree) == tree.node \in {"id", "member", "index"}

RECURSIVE ParseAssignment(_, _), ParseLevel(_, _, _), ParseOperands(_, _, _),
          ParseExpressions(_, _), ParseParameters(_, _, _)

ParseExpression(ts, at) == ParseAssignment(ts, at)

ParseAssignment(ts, at) ==
  LET target == Parse("ternary", ts, at)
      value  == ParseAssignment(ts, target.at + 1)
  IN  IF TypeAt(ts, target.at) \notin Assignments THEN target
      ELSE Parsed([node |-> "assign", op |-> ts[target.at].type,
                   target |-> target.tree, value |-> value.tree],
                  IF IsPlace(target.tree) THEN value.at ELSE 0)

ParseTernary(ts, at) ==
  LET cond == ParseLevel(ts, at, 1)
      yes  == Parse("expression", ts, cond.at + 1)
      no   == Parse("expression", ts, After(ts, yes.at, ":"))
  IN  IF TypeAt(ts, cond.at) # "?" THEN cond
      ELSE Parsed([node |-> "ternary", cond |-> cond.tree, yes |-> yes.tree, no |-> no.tree],
                  no.at)

\* parse_logical_or, parse_logical_and, parse_equality, parse_comparison,
\* parse_term and parse_factor differ in their operators only.
ParseLevel(ts, at, level) ==
  IF level > Len(Levels) THEN Parse("unary", ts, at)
  ELSE ParseOperands(ts, ParseLevel(ts, at, level + 1), level)

\* Mutant: the right operand takes all operators of the level.
ParseOperandsRightmost(ts, left, level) ==
  LET op    == TypeAt(ts, left.at)
      right == IF op = "instanceof" THEN Parse("type", ts, left.at + 1)
               ELSE ParseLevel(ts, left.at + 1, level)
  IN  IF op \notin Levels[level] THEN left
      ELSE Parsed([node |-> "binary", op |-> op, left |-> left.tree, right |-> right.tree], right.at)

ParseOperands(ts, left, level) ==
  LET op    == TypeAt(ts, left.at)
      right == IF op = "instanceof" THEN Parse("type", ts, left.at + 1)
               ELSE ParseLevel(ts, left.at + 1, level + 1)
  IN  IF op \notin Levels[level] THEN left
      ELSE ParseOperands(ts, Parsed([node |-> "binary", op |-> op, left |-> left.tree,
                                     right |-> right.tree], right.at), level)

ParseUnary(ts, at) ==
  LET op      == TypeAt(ts, at)
      operand == Parse("unary", ts, at + 1)
  IN  IF op \notin {"!", "-", "++", "--"} THEN Parse("access", ts, at)
      ELSE Parsed([node |-> "unary", op |-> op, operand |-> operand.tree, prefix |-> TRUE],
                  IF op \in {"++", "--"} /\ ~IsPlace(operand.tree) THEN 0 ELSE operand.at)

ParseExpressions(ts, at) ==
  LET first == Parse("expression", ts, at)
      rest  == ParseExpressions(ts, first.at + 1)
  IN  IF TypeAt(ts, first.at) = ","
      THEN Parsed(<<first.tree>> \o rest.tree, rest.at)
      ELSE Parsed(<<first.tree>>, first.at)

\* Zero or more expressions and the mark that closes them.
ParseUntil(ts, at, close) ==
  LET list == ParseExpressions(ts, at)
  IN  IF TypeAt(ts, at) = close THEN Parsed(<<>>, at + 1)
      ELSE Parsed(list.tree, After(ts, list.at, close))

\* A `<' opens template arguments when some `>' closes it before the
\* statement ends and a parenthesis follows that.
OpensTemplateArguments(ts, at) ==
  LET beyond == Beyond(ts, at + 1, "<", ">", {";", "{", "||", "&&"}, 1)
  IN  TypeAt(ts, at) = "<" /\ beyond # 0 /\ TypeAt(ts, beyond) = "("

\* The loop of parse_call_or_access: calls, members and indices, each of
\* which applies to what stands before it.
RECURSIVE ParseAccesses(_, _, _)
ParseAccesses(ts, base, types) ==
  LET at     == base.at
      mark   == TypeAt(ts, at)
      args   == ParseUntil(ts, at + 1, ")")
      member == Name(ts, at + 1)
      index  == Parse("expression", ts, at + 1)
      given  == ParseTypes(ts, at + 1)
  IN  CASE OpensTemplateArguments(ts, at) ->
             ParseAccesses(ts, Parsed(base.tree, After(ts, given.at, ">")),
                           IF given.at = 0 THEN types ELSE types \o given.tree)
        [] mark = "(" ->
             ParseAccesses(ts, Parsed([node |-> "call", callee |-> base.tree, types |-> types,
                                       args |-> args.tree], args.at), <<>>)
        [] mark \in {".", "::"} ->
             ParseAccesses(ts, Parsed([node |-> "member", object |-> base.tree, op |-> mark,
                                       name |-> member.tree], member.at), types)
        [] mark = "[" ->
             ParseAccesses(ts, Parsed([node |-> "index", array |-> base.tree,
                                       index |-> index.tree], After(ts, index.at, "]")), types)
        [] OTHER -> base

ParseAccess(ts, at) ==
  LET base == ParseAccesses(ts, Parse("primary", ts, at), <<>>)
      op   == TypeAt(ts, base.at)
  IN  IF op \notin {"++", "--"} THEN base
      ELSE Parsed([node |-> "unary", op |-> op, operand |-> base.tree, prefix |-> FALSE],
                  IF IsPlace(base.tree) THEN base.at + 1 ELSE 0)

ParseNew(ts, at) ==
  LET type == Parse("type", ts, at)
      size == Parse("expression", ts, type.at + 1)
      args == ParseUntil(ts, After(ts, type.at, "("), ")")
  IN  IF TypeAt(ts, type.at) = "["
      THEN Parsed([node |-> "newArray", type |-> type.tree, size |-> size.tree],
                  After(ts, size.at, "]"))
      ELSE Parsed([node |-> "new", type |-> type.tree, args |-> args.tree],
                  IF type.at = 0 \/ (type.tree.name # "tuple" /\ type.tree.depth > 0)
                  THEN 0 ELSE args.at)

RECURSIVE OnlyNames(_, _)
OnlyNames(ts, at) ==
  IF TypeAt(ts, at) \in {"IDENTIFIER", ","} THEN OnlyNames(ts, at + 1) ELSE at

\* is_lambda_ahead: brackets of names, parentheses, and then an arrow, a
\* colon or a body.
IsLambdaAhead(ts, at) ==
  LET names == OnlyNames(ts, at + 1)
      open  == CASE TypeAt(ts, at) = "[]" -> at + 1
                 [] TypeAt(ts, at) = "[" /\ TypeAt(ts, names) = "]" -> names + 1
                 [] OTHER -> 0
  IN  TypeAt(ts, open) = "(" /\ TypeAt(ts, BeyondParen(ts, open + 1)) \in {"=>", ":", "{"}

RECURSIVE ParseNames(_, _)
ParseNames(ts, at) ==
  LET first == Name(ts, at)
      rest  == ParseNames(ts, first.at + 1)
  IN  IF TypeAt(ts, first.at) = ","
      THEN Parsed(<<first.tree>> \o rest.tree, rest.at)
      ELSE Parsed(<<first.tree>>, first.at)

ParseLambda(ts, at) ==
  LET names    == IF TypeAt(ts, at) = "[]" THEN [tree |-> <<>>, at |-> at]
                  ELSE ParseNames(ts, at + 1)
      captures == Parsed(names.tree, IF TypeAt(ts, at) = "[]" THEN at + 1
                                     ELSE After(ts, names.at, "]"))
      params   == ParseParameters(ts, After(ts, captures.at, "("), {})
      typed    == TypeAt(ts, params.at) = ":"
      type     == Parse("type", ts, params.at + 1)
      head     == IF typed THEN type.at ELSE params.at
      arrow    == IF TypeAt(ts, head) = "{" THEN head ELSE After(ts, head, "=>")
      body     == IF TypeAt(ts, arrow) = "{" THEN Parse("block", ts, arrow)
                  ELSE Parse("expression", ts, arrow)
  IN  Parsed([node |-> "lambda", captures |-> captures.tree, params |-> params.tree,
              type |-> IF typed THEN <<type.tree>> ELSE <<>>, body |-> body.tree], body.at)

\* The type of a cast in parentheses, or Failed: then, or if no operand
\* follows, what the parentheses hold is parsed again as an expression.
CastType(ts, at) ==
  LET type == Parse("type", ts, at)
  IN  IF \/ TypeAt(ts, at) \in {"PRIMITIVE", "tuple"}
         \/ TypeAt(ts, at) = "IDENTIFIER" /\ TypeAt(ts, at + 1) \in {")", "[]"}
      THEN Parsed(type.tree, After(ts, type.at, ")")) ELSE Failed

ParseParenthesis(ts, at) ==
  LET type    == CastType(ts, at)
      operand == Parse("unary", ts, type.at)
      inner   == Parse("expression", ts, at)
      close   == After(ts, inner.at, ")")
  IN  IF operand.at # 0
      THEN Parsed([node |-> "cast", type |-> type.tree, operand |-> operand.tree], operand.at)
      ELSE Parsed(inner.tree, IF TypeAt(ts, close) \in {"IDENTIFIER", "NUMBER"} THEN 0
                              ELSE close)

ParseSizeof(ts, at) ==
  LET type == Parse("type", ts, at)
      expr == Parse("expression", ts, at)
      whole == After(ts, type.at, ")")
  IN  IF \/ TypeAt(ts, at) \in {"PRIMITIVE", "tuple"}
         \/ /\ TypeAt(ts, at) = "IDENTIFIER" /\ TypeAt(ts, at + 1) \in {"[", "[]"}
            /\ whole # 0
      THEN Parsed([node |-> "sizeof", of |-> type.tree], whole)
      ELSE Parsed([node |-> "sizeof", of |-> expr.tree], After(ts, expr.at, ")"))

ParsePrimary(ts, at) ==
  LET first    == TypeAt(ts, at)
      close    == IF first = "{" THEN "}" ELSE "]"
      elements == ParseUntil(ts, at + 1, close)
      type     == Parse("type", ts, After(ts, at + 1, "("))
  IN  CASE first = "NUMBER"     -> Parsed([node |-> "num", value |-> ts[at].value], at + 1)
        [] first = "IDENTIFIER" -> Parsed([node |-> "id", name |-> ts[at].value], at + 1)
        [] first = "super"      -> Parsed([node |-> "id", name |-> "super"], at + 1)
        [] first = "new"        -> ParseNew(ts, at + 1)
        [] IsLambdaAhead(ts, at) -> Parse("lambda", ts, at)
        [] first \in {"{", "["} /\ ~IsLambdaAhead(ts, at) ->
             Parsed([node |-> "array", elements |-> elements.tree], elements.at)
        [] first = "sizeof"     -> ParseSizeof(ts, After(ts, at + 1, "("))
        [] first = "default"    ->
             Parsed([node |-> "default", type |-> type.tree], After(ts, type.at, ")"))
        [] first = "("          -> ParseParenthesis(ts, at + 1)
        [] OTHER                -> Failed

-----------------------------------------------------------------------------
(* Statements; at is the position after the keyword that starts one *)

\* Several variables declared at once are children of the block around them.
Flattened(tree) == IF tree.node = "decls" THEN tree.body ELSE <<tree>>

IsSolitaryDeclaration(tree) == tree.node \in {"var", "decls"}

RECURSIVE ParseStatements(_, _)
ParseStatements(ts, at) ==
  LET first == Parse("statement", ts, at)
      rest  == ParseStatements(ts, first.at)
  IN  IF TypeAt(ts, at) \in {"}", "END"} THEN [tree |-> <<>>, at |-> at]
      ELSE IF first.at = 0 THEN Failed
      ELSE Parsed(Flattened(first.tree) \o rest.tree, rest.at)

ParseBlock(ts, at) ==
  LET body == ParseStatements(ts, After(ts, at, "{"))
  IN  Parsed([node |-> "block", body |-> body.tree],
             IF After(ts, at, "{") = 0 THEN 0 ELSE After(ts, body.at, "}"))

\* The body of a branch or a loop, which is not a declaration.
ParseBranch(ts, at) ==
  LET statement == Parse("statement", ts, at)
  IN  Parsed(statement.tree,
             IF statement.at = 0 \/ IsSolitaryDeclaration(statement.tree) THEN 0
             ELSE statement.at)

ParseCondition(ts, at) ==
  LET cond == Parse("expression", ts, After(ts, at, "("))
  IN  Parsed(cond.tree, After(ts, cond.at, ")"))

ParseIf(ts, at) ==
  LET cond == Parse("condition", ts, at)
      then == Parse("branch", ts, cond.at)
      else == Parse("branch", ts, then.at + 1)
      whole == [node |-> "if", cond |-> cond.tree, then |-> then.tree, else |-> <<>>]
  IN  IF TypeAt(ts, then.at) = "else"
      THEN Parsed([whole EXCEPT !.else = <<else.tree>>], else.at)
      ELSE Parsed(whole, then.at)

ParseWhile(ts, at) ==
  LET cond == Parse("condition", ts, at)
      body == Parse("branch", ts, cond.at)
  IN  Parsed([node |-> "while", cond |-> cond.tree, body |-> body.tree], body.at)

ParseDoWhile(ts, at) ==
  LET body == Parse("branch", ts, at)
      cond == Parse("condition", ts, After(ts, body.at, "while"))
  IN  Parsed([node |-> "do", body |-> body.tree, cond |-> cond.tree],
             After(ts, cond.at, ";"))

ParseExpressionStatement(ts, at) ==
  LET expr == Parse("expression", ts, at)
  IN  Parsed([node |-> "expr", expr |-> expr.tree], After(ts, expr.at, ";"))

RECURSIVE ParseVariables(_, _, _)
ParseVariables(ts, type, at) ==
  LET name  == Name(ts, at)
      given == TypeAt(ts, name.at) = "="
      init  == IF given THEN Parse("expression", ts, name.at + 1)
               ELSE [tree |-> <<>>, at |-> name.at]
      var   == [node |-> "var", type |-> type, name |-> name.tree,
                init |-> IF given THEN <<init.tree>> ELSE <<>>]
      rest  == ParseVariables(ts, type, init.at + 1)
  IN  IF TypeAt(ts, name.at) = "(" THEN Failed
      ELSE IF TypeAt(ts, init.at) = "," THEN Parsed(<<var>> \o rest.tree, rest.at)
      ELSE Parsed(<<var>>, init.at)

ParseVariableDeclaration(ts, at) ==
  LET type == Parse("type", ts, at)
      vars == ParseVariables(ts, type.tree, Skip(ts, type.at, "&"))
  IN  Parsed(IF Len(vars.tree) = 1 THEN vars.tree[1]
             ELSE [node |-> "decls", body |-> vars.tree],
             After(ts, vars.at, ";"))

\* One optional clause of a for statement.
ParseClause(ts, at, close) ==
  LET expr == Parse("expression", ts, at)
  IN  IF TypeAt(ts, at) = close THEN [tree |-> <<>>, at |-> at + 1]
      ELSE Parsed(<<expr.tree>>, After(ts, expr.at, close))

ParseFor(ts, at) ==
  LET open  == After(ts, at, "(")
      first == CASE TypeAt(ts, open) = ";" -> [tree |-> [node |-> "none"], at |-> open + 1]
                 [] TypeAt(ts, open) = "const" -> Parse("declaration", ts, open + 1)
                 [] \/ TypeAt(ts, open) \in {"PRIMITIVE", "tuple"}
                    \/ TypeAt(ts, open) = "IDENTIFIER" /\ TypeAt(ts, open + 1) = "IDENTIFIER"
                       -> Parse("declaration", ts, open)
                 [] OTHER -> Parse("expression statement", ts, open)
      cond  == ParseClause(ts, first.at, ";")
      step  == ParseClause(ts, cond.at, ")")
      body  == Parse("branch", ts, step.at)
  IN  Parsed([node |-> "for", first |-> first.tree, cond |-> cond.tree, step |-> step.tree,
              body |-> body.tree], body.at)

\* The cases of a switch.  A statement belongs to the last label before it.
RECURSIVE ParseCases(_, _, _)
ParseCases(ts, cases, at) ==
  LET value     == Parse("expression", ts, at + 1)
      statement == Parse("statement", ts, at)
      last      == Len(cases)
  IN  CASE at = 0 -> Failed
        [] TypeAt(ts, at) \in {"}", "END"} -> [tree |-> cases, at |-> at]
        [] TypeAt(ts, at) = "case" ->
             ParseCases(ts, Append(cases, [value |-> <<value.tree>>, body |-> <<>>]),
                        IF value.tree.node = "id" THEN 0 ELSE After(ts, value.at, ":"))
        [] TypeAt(ts, at) = "default" ->
             ParseCases(ts, Append(cases, [value |-> <<>>, body |-> <<>>]),
                        After(ts, at + 1, ":"))
        [] OTHER ->
             IF last = 0 THEN Failed
             ELSE ParseCases(ts, [cases EXCEPT ![last].body = Append(@, statement.tree)],
                             statement.at)

ParseSwitch(ts, at) ==
  LET cond  == Parse("condition", ts, at)
      open  == After(ts, cond.at, "{")
      cases == ParseCases(ts, <<>>, open)
  IN  Parsed([node |-> "switch", cond |-> cond.tree, cases |-> cases.tree],
             After(ts, cases.at, "}"))

ParseReturn(ts, at) ==
  LET value == ParseClause(ts, at, ";")
  IN  Parsed([node |-> "return", given |-> value.tree], value.at)

RECURSIVE ParseCatches(_, _)
ParseCatches(ts, at) ==
  LET type == Parse("type", ts, After(ts, at + 1, "("))
      name == Name(ts, type.at)
      body == Parse("block", ts, After(ts, name.at, ")"))
      rest == ParseCatches(ts, body.at)
  IN  IF at = 0 THEN Failed
      ELSE IF TypeAt(ts, at) # "catch" THEN [tree |-> <<>>, at |-> at]
      ELSE Parsed(<<[type |-> type.tree, name |-> name.tree, body |-> body.tree]>> \o rest.tree,
                  rest.at)

ParseTry(ts, at) ==
  LET body    == Parse("block", ts, at)
      catches == ParseCatches(ts, body.at)
      ends    == TypeAt(ts, catches.at) = "finally"
      finally == Parse("block", ts, catches.at + 1)
  IN  Parsed([node |-> "try", body |-> body.tree, catches |-> catches.tree,
              finally |-> IF ends THEN <<finally.tree>> ELSE <<>>],
             CASE ends -> finally.at
               [] ~ends /\ catches.tree = <<>> -> 0
               [] OTHER -> catches.at)

\* assert and exit take one parenthesis for themselves if there is one.
ParseGuarded(ts, at, node) ==
  LET paren   == TypeAt(ts, at) = "("
      value   == Parse("expression", ts, IF paren THEN at + 1 ELSE at)
      told    == node = "assert" /\ TypeAt(ts, value.at) = ","
      message == IF told THEN Parse("expression", ts, value.at + 1) ELSE value
  IN  Parsed([node |-> node, value |-> value.tree,
              message |-> IF told THEN <<message.tree>> ELSE <<>>],
             After(ts, IF paren THEN After(ts, message.at, ")") ELSE message.at, ";"))

\* The look-ahead of parse_statement for a declaration: a dotted name, its
\* template arguments, brackets, `&', and then another name.
RECURSIVE BeyondName(_, _), BeyondBrackets(_, _)
BeyondName(ts, at) ==
  IF TypeAt(ts, at) # "IDENTIFIER" THEN at
  ELSE IF TypeAt(ts, at + 1) \in {".", "::"} THEN BeyondName(ts, at + 2) ELSE at + 1

BeyondBrackets(ts, at) ==
  CASE TypeAt(ts, at) = "[]" -> BeyondBrackets(ts, at + 1)
    [] TypeAt(ts, at) = "[" /\ TypeAt(ts, at + 1) = "]" -> BeyondBrackets(ts, at + 2)
    [] OTHER -> at

IsDeclarationAhead(ts, at) ==
  LET name  == BeyondName(ts, at)
      args  == IF TypeAt(ts, name) = "<" THEN Beyond(ts, name + 1, "<", ">", {}, 1) ELSE name
      mark  == Skip(ts, BeyondBrackets(ts, args), "&")
      type  == Parse("type", ts, at)
  IN  /\ \/ TypeAt(ts, at) \in {"PRIMITIVE", "tuple"}
         \/ TypeAt(ts, at) = "IDENTIFIER" /\ TypeAt(ts, mark) = "IDENTIFIER"
      /\ TypeAt(ts, Skip(ts, type.at, "&")) = "IDENTIFIER"

\* `name ( ... ) {' is refused as a constructor.
IsConstructorAhead(ts, at) ==
  /\ TypeAt(ts, at) = "IDENTIFIER" /\ TypeAt(ts, at + 1) = "("
  /\ TypeAt(ts, BeyondParen(ts, at + 2)) = "{"

OnlyInClasses == {"import", "package", "class", "enum", "interface", "public", "private",
                  "protected", "internal", "operator"}

ParseStatement(ts, at) ==
  LET first == TypeAt(ts, at)
  IN  CASE first \in OnlyInClasses \/ IsConstructorAhead(ts, at) -> Failed
        [] first = "{"        -> Parse("block", ts, at)
        [] first = "if"       -> ParseIf(ts, at + 1)
        [] first = "while"    -> ParseWhile(ts, at + 1)
        [] first = "do"       -> ParseDoWhile(ts, at + 1)
        [] first = "for"      -> ParseFor(ts, at + 1)
        [] first = "switch"   -> ParseSwitch(ts, at + 1)
        [] first = "try"      -> ParseTry(ts, at + 1)
        [] first = "throw"    ->
             LET thrown == Parse("expression statement", ts, at + 1)
             IN  Parsed([node |-> "throw", thrown |-> thrown.tree.expr], thrown.at)
        [] first = "return"   -> ParseReturn(ts, at + 1)
        [] first \in {"break", "continue"} ->
             Parsed([node |-> first], After(ts, at + 1, ";"))
        [] first \in {"assert", "exit"} -> ParseGuarded(ts, at + 1, first)
        [] first = "const"    -> Parse("declaration", ts, at + 1)
        [] OTHER ->
             IF IsDeclarationAhead(ts, at) THEN Parse("declaration", ts, at)
             ELSE Parse("expression statement", ts, at)

\* Parameters and the parenthesis after them.  may holds "&" where a
\* parameter may be a reference, and "," where a comma may come last.
ParseParameters(ts, at, may) ==
  LET type  == Parse("type", ts, at)
      name  == Name(ts, IF "&" \in may THEN Skip(ts, type.at, "&") ELSE type.at)
      param == [type |-> type.tree, name |-> name.tree]
      rest  == ParseParameters(ts, name.at + 1, may)
  IN  IF TypeAt(ts, at) = ")" /\ ("," \in may \/ TypeAt(ts, at - 1) # ",")
      THEN [tree |-> <<>>, at |-> at + 1]
      ELSE IF TypeAt(ts, name.at) = "," THEN Parsed(<<param>> \o rest.tree, rest.at)
      ELSE Parsed(<<param>>, After(ts, name.at, ")"))

-----------------------------------------------------------------------------
(* Declarations *)

Access == {"public", "private", "protected", "internal"}
MemberModifiers == {"static", "inline", "native", "const", "virtual", "override", "weak",
                    "abstract"}

\* The modifiers in front of a declaration; of two access modifiers the last
\* one counts.
RECURSIVE ParseModifiers(_, _, _, _)
ParseModifiers(ts, access, marks, at) ==
  CASE TypeAt(ts, at) \in Access ->
         ParseModifiers(ts, TypeAt(ts, at), marks, at + 1)
    [] TypeAt(ts, at) \in MemberModifiers ->
         ParseModifiers(ts, access, marks \cup {TypeAt(ts, at)}, at + 1)
    [] OTHER -> [access |-> access, marks |-> marks, at |-> at]

Overloadable == {"+", "-", "*", "/", "=", "==", "!=", "<", ">", "<=", ">="}

\* The name of a member, or of an operator a class overloads.
MemberName(ts, at, inside) ==
  IF TypeAt(ts, at) # "operator" THEN Name(ts, at)
  ELSE Parsed("operator" \o TypeAt(ts, at + 1),
              IF inside /\ TypeAt(ts, at + 1) \in Overloadable THEN at + 2 ELSE 0)

\* A field, or a method with a body unless it is native or abstract; inside
\* tells whether it is a member of a class.
ParseFieldOrMethod(ts, mods, inside) ==
  LET type   == Parse("type", ts, mods.at)
      name   == MemberName(ts, Skip(ts, type.at, "&"), inside)
      typed  == TypeAt(ts, name.at) = "<"
      formal == ParseTypes(ts, name.at + 1)
      head   == IF typed THEN After(ts, formal.at, ">") ELSE name.at
      params == ParseParameters(ts, head + 1, {"&", ","})
      body   == Parse("block", ts, params.at)
      bare   == mods.marks \cap {"native", "abstract"} # {}
      init   == Parse("expression", ts, head + 1)
      given  == TypeAt(ts, head) = "="
  IN  IF TypeAt(ts, head) = "("
      THEN Parsed([node |-> "method", access |-> mods.access, marks |-> mods.marks,
                   type |-> type.tree, name |-> name.tree,
                   templates |-> IF typed THEN formal.tree ELSE <<>>,
                   params |-> params.tree, body |-> IF bare THEN <<>> ELSE <<body.tree>>],
                  IF bare THEN After(ts, params.at, ";") ELSE body.at)
      ELSE Parsed([node |-> "field", access |-> mods.access,
                   marks |-> mods.marks \cup (IF "const" \in mods.marks THEN {"static"} ELSE {}),
                   type |-> type.tree, name |-> name.tree,
                   init |-> IF given THEN <<init.tree>> ELSE <<>>],
                  IF ~inside /\ mods.access # "internal" THEN 0
                  ELSE After(ts, IF given THEN init.at ELSE head, ";"))

\* The initializer list of a constructor: each entry is an expression
\* statement, and they come before the statements of the body.
RECURSIVE ParseInitializers(_, _)
ParseInitializers(ts, at) ==
  LET super == TypeAt(ts, at) = "super"
      args  == ParseUntil(ts, After(ts, at + 1, "("), ")")
      value == Parse("expression", ts, After(ts, at + 1, "("))
      field == ts[at].value
      entry == IF super
               THEN Parsed([node |-> "call", callee |-> [node |-> "id", name |-> "super"],
                            types |-> <<>>, args |-> args.tree], args.at)
               ELSE Parsed([node |-> "assign", op |-> "=", value |-> value.tree,
                            target |-> [node |-> "member", op |-> ".", name |-> field,
                                        object |-> [node |-> "id", name |-> "this"]]],
                           IF TypeAt(ts, at) = "IDENTIFIER" THEN After(ts, value.at, ")") ELSE 0)
      first == <<[node |-> "expr", expr |-> entry.tree]>>
      rest  == ParseInitializers(ts, entry.at + 1)
  IN  IF TypeAt(ts, entry.at) = "," THEN Parsed(first \o rest.tree, rest.at)
      ELSE Parsed(first, entry.at)

ParseConstructor(ts, class, mods) ==
  LET params == ParseParameters(ts, mods.at + 2, {"&", ","})
      listed == TypeAt(ts, params.at) = ":"
      init   == IF listed THEN ParseInitializers(ts, params.at + 1)
                ELSE [tree |-> <<>>, at |-> params.at]
      body   == Parse("block", ts, init.at)
  IN  Parsed([node |-> "constructor", class |-> class, access |-> mods.access, params |-> params.tree,
              body |-> [body.tree EXCEPT !.body = init.tree \o @]],
             IF ts[mods.at].value # class \/ init.at = 0 THEN 0 ELSE body.at)

ParseDestructor(ts, class, mods) ==
  LET name == Name(ts, mods.at + 1)
      body == Parse("block", ts, After(ts, After(ts, name.at, "("), ")"))
  IN  Parsed([node |-> "destructor", class |-> class, access |-> mods.access, body |-> body.tree],
             IF mods.marks # {} \/ name.at = 0 THEN 0
             ELSE IF name.tree # class THEN 0 ELSE body.at)

\* The names of an enum; a comma may come last.
RECURSIVE ParseEnumerators(_, _)
ParseEnumerators(ts, at) ==
  LET first == Name(ts, at)
      rest  == ParseEnumerators(ts, first.at + 1)
  IN  IF TypeAt(ts, at) = "}" THEN [tree |-> <<>>, at |-> at + 1]
      ELSE IF TypeAt(ts, first.at) = "," THEN Parsed(<<first.tree>> \o rest.tree, rest.at)
      ELSE Parsed(<<first.tree>>, After(ts, first.at, "}"))

ParseEnum(ts, mods, at) ==
  LET name    == Name(ts, at)
      members == ParseEnumerators(ts, After(ts, name.at, "{"))
  IN  Parsed([node |-> "enum", access |-> mods.access, name |-> name.tree,
              members |-> members.tree], members.at)

\* The template parameters of a class or an interface.
ParseFormals(ts, at) ==
  LET names == ParseNames(ts, at + 1)
  IN  IF TypeAt(ts, at) = "<" THEN Parsed(names.tree, After(ts, names.at, ">"))
      ELSE [tree |-> <<>>, at |-> at]

\* The methods of an interface have neither modifiers nor bodies.
RECURSIVE ParseSignatures(_, _)
ParseSignatures(ts, at) ==
  LET type   == Parse("type", ts, at)
      name   == Name(ts, type.at)
      params == ParseParameters(ts, After(ts, name.at, "("), {","})
      first  == [node |-> "method", access |-> "public", marks |-> {"abstract"}, type |-> type.tree,
                 name |-> name.tree, templates |-> <<>>, params |-> params.tree, body |-> <<>>]
      rest   == ParseSignatures(ts, After(ts, params.at, ";"))
  IN  IF TypeAt(ts, at) = "}" THEN [tree |-> <<>>, at |-> at + 1]
      ELSE IF name.at = 0 \/ params.at = 0 THEN Failed
      ELSE Parsed(<<first>> \o rest.tree, rest.at)

\* An interface is an abstract class: the first of those it extends is its
\* base, and all of them are its interfaces.
ParseInterface(ts, mods, at) ==
  LET name    == Name(ts, at)
      formals == ParseFormals(ts, name.at)
      extends == TypeAt(ts, formals.at) \in {"extends", ":"}
      bases   == IF extends THEN ParseTypes(ts, formals.at + 1)
                 ELSE [tree |-> <<>>, at |-> formals.at]
      methods == ParseSignatures(ts, After(ts, bases.at, "{"))
  IN  Parsed([node |-> "interface", access |-> mods.access, name |-> name.tree,
              templates |-> formals.tree, base |-> SubSeq(bases.tree, 1, IF extends THEN 1 ELSE 0),
              faces |-> bases.tree, members |-> methods.tree],
             IF bases.at = 0 THEN 0 ELSE methods.at)

RECURSIVE ParseMembers(_, _, _, _)

\* The members up to the closing brace.
ParseMembers(ts, class, members, at) ==
  LET mods   == ParseModifiers(ts, "private", {}, at)
      first  == TypeAt(ts, mods.at)
      member ==
        CASE first = "class" -> Declare("class", ts, mods, mods.at + 1)
          [] first = "interface" -> Declare("interface", ts, mods, mods.at + 1)
          [] first = "enum" -> ParseEnum(ts, mods, mods.at + 1)
          [] first = "~" ->
               IF \E i \in 1..Len(members) : members[i].node = "destructor" THEN Failed
               ELSE ParseDestructor(ts, class, mods)
          [] first = "IDENTIFIER" /\ TypeAt(ts, mods.at + 1) = "("
             /\ TypeAt(ts, mods.at + 2) # "*" -> ParseConstructor(ts, class, mods)
          [] OTHER -> Declare("member", ts, mods, mods.at)
  IN  IF at = 0 THEN Failed
      ELSE IF TypeAt(ts, at) = "}" THEN [tree |-> members, at |-> at + 1]
      ELSE ParseMembers(ts, class, Append(members, member.tree), 
                        IF member.at = 0 THEN 0
                        ELSE IF member.tree.node = "method" /\ member.tree.name = class THEN 0
                        ELSE member.at)

ParseClass(ts, mods, at) ==
  LET name    == Name(ts, at)
      formals == ParseFormals(ts, name.at)
      head    == formals.at
      extends == TypeAt(ts, head) \in {"extends", ":"}
      base    == Parse("type", ts, head + 1)
      next    == IF extends THEN base.at ELSE head
      offers  == TypeAt(ts, next) = "implements"
      faces   == ParseTypes(ts, next + 1)
      members == Declare("members", ts, name.tree,
                         After(ts, IF offers THEN faces.at ELSE next, "{"))
  IN  Parsed([node |-> "class", access |-> mods.access,
              abstract |-> "abstract" \in mods.marks, name |-> name.tree,
              templates |-> formals.tree,
              base |-> IF extends THEN <<base.tree>> ELSE <<>>,
              faces |-> IF offers THEN faces.tree ELSE <<>>,
              members |-> members.tree], members.at)

\* The names of a path and the star it may end with.
RECURSIVE ParsePath(_, _, _)
ParsePath(ts, at, marks) ==
  LET first == Name(ts, at)
      rest  == ParsePath(ts, first.at + 1, marks)
  IN  IF TypeAt(ts, at) = "*" /\ "::" \in marks THEN [tree |-> <<"*">>, at |-> at + 1]
      ELSE IF TypeAt(ts, first.at) \in marks THEN Parsed(<<first.tree>> \o rest.tree, rest.at)
      ELSE Parsed(<<first.tree>>, first.at)

ParsePackage(ts, at) ==
  LET path == ParsePath(ts, at, {"."})
  IN  Parsed([node |-> "package", path |-> path.tree], After(ts, path.at, ";"))

\* The last name of an import is the symbol, unless it is the only one.
ParseImport(ts, at) ==
  LET path == ParsePath(ts, at, {".", "::"})
      n    == Len(path.tree)
  IN  IF path.at = 0 \/ path.tree = <<"*">> THEN Failed
      ELSE Parsed([node |-> "import", package |-> SubSeq(path.tree, 1, IF n = 1 THEN 1 ELSE n - 1),
                   symbol |-> SubSeq(path.tree, IF n = 1 THEN 2 ELSE n, n)],
                  After(ts, path.at, ";"))

ParseAlias(ts, at) ==
  LET name    == Name(ts, at)
      formals == ParseFormals(ts, name.at)
      type    == Parse("type", ts, After(ts, formals.at, "="))
  IN  Parsed([node |-> "alias", name |-> name.tree, templates |-> formals.tree,
              type |-> type.tree],
             IF formals.at = 0 THEN 0 ELSE After(ts, type.at, ";"))

\* seen is what was declared so far: "nothing" (a package statement may come
\* first), "package" or "imports" (imports may follow), or "types".
ParseTopLevel(ts, seen, at) ==
  LET mods  == ParseModifiers(ts, "internal", {}, at)
      first == TypeAt(ts, at)
      kind  == TypeAt(ts, mods.at)
  IN  CASE first = "package" -> IF seen = "nothing" THEN ParsePackage(ts, at + 1) ELSE Failed
        [] first = "import"  -> IF seen # "types" THEN ParseImport(ts, at + 1) ELSE Failed
        [] first = "alias"   -> ParseAlias(ts, at + 1)
        [] OTHER ->
             CASE "weak" \in mods.marks -> Failed
               [] kind = "class"     -> Declare("class", ts, mods, mods.at + 1)
               [] kind = "interface" -> Declare("interface", ts, mods, mods.at + 1)
               [] kind = "enum"      -> ParseEnum(ts, mods, mods.at + 1)
               [] kind \in {"return", "}"} -> Failed
               [] OTHER -> Declare("global", ts, mods, mods.at)

\* Parser::execute over one file: its declarations up to the end.  Those in
\* front of an error stay in the tree, but the error is reported and nothing
\* is compiled.
RECURSIVE ParseDeclarations(_, _, _)
ParseDeclarations(ts, seen, at) ==
  LET first == Declare("top level", ts, seen, at)
      now   == CASE first.tree.node = "package" -> "package"
                 [] first.tree.node \in {"import", "alias"} ->
                      IF seen = "types" THEN "types" ELSE "imports"
                 [] OTHER -> "types"
      rest  == ParseDeclarations(ts, now, first.at)
  IN  IF at > Len(ts) THEN [tree |-> <<>>, at |-> at]
      ELSE IF first.at = 0 THEN Failed
      ELSE Parsed(<<first.tree>> \o rest.tree, rest.at)

ParseFile(ts, at) == Declare("file", ts, "nothing", at)

-----------------------------------------------------------------------------
(* What a rule makes of the tokens from a position on *)

Parse(rule, ts, at) ==
  CASE rule = "type"        -> ParseTypeInfo(ts, at)
    [] rule = "expression"  -> ParseExpression(ts, at)
    [] rule = "ternary"     -> ParseTernary(ts, at)
    [] rule = "unary"       -> ParseUnary(ts, at)
    [] rule = "access"      -> ParseAccess(ts, at)
    [] rule = "primary"     -> ParsePrimary(ts, at)
    [] rule = "lambda"      -> ParseLambda(ts, at)
    [] rule = "statement"   -> ParseStatement(ts, at)
    [] rule = "block"       -> ParseBlock(ts, at)
    [] rule = "branch"      -> ParseBranch(ts, at)
    [] rule = "condition"   -> ParseCondition(ts, at)
    [] rule = "declaration" -> ParseVariableDeclaration(ts, at)
    [] rule = "expression statement" -> ParseExpressionStatement(ts, at)
    [] rule = "file"        -> ParseFile(ts, at)

\* given is the class, the modifiers, or what came before.
Declare(rule, ts, given, at) ==
  CASE rule = "file"      -> ParseDeclarations(ts, given, at)
    [] rule = "top level" -> ParseTopLevel(ts, given, at)
    [] rule = "class"     -> ParseClass(ts, given, at)
    [] rule = "members"   -> ParseMembers(ts, given, <<>>, at)
    [] rule = "interface" -> ParseInterface(ts, given, at)
    [] rule = "member"    -> ParseFieldOrMethod(ts, given, TRUE)
    [] rule = "global"    -> ParseFieldOrMethod(ts, given, FALSE)
=============================================================================
