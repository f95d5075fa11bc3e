----------------------------- MODULE MCPipeline -----------------------------
(* Texts and programs for Pipeline. *)
EXTENDS Pipeline

N(value) == [node |-> "num", value |-> value]
V(name) == [node |-> "id", name |-> name]
B(op, left, right) == [node |-> "binary", op |-> op, left |-> left, right |-> right]
Pre(op, operand) == [node |-> "unary", op |-> op, operand |-> operand, prefix |-> TRUE]
Post(op, operand) == [node |-> "unary", op |-> op, operand |-> operand, prefix |-> FALSE]
Set(op, target, value) == [node |-> "assign", op |-> op, target |-> target, value |-> value]
Either(cond, yes, no) == [node |-> "ternary", cond |-> cond, yes |-> yes, no |-> no]
Apply(name, args) == [node |-> "call", callee |-> V(name), types |-> <<>>, args |-> args]
Member(object, op, name) == [node |-> "member", object |-> object, op |-> op, name |-> name]
At(array, index) == [node |-> "index", array |-> array, index |-> index]
T(name) == [name |-> name, args |-> <<>>, depth |-> 0]
Int8 == T("int8")
Int64 == T("int64")
Void == T("void")
CastTo(type, operand) == [node |-> "cast", type |-> type, operand |-> operand]

-----------------------------------------------------------------------------
(* Expressions of depth two: one operator of each level, and every form of  *)
(* access.  `<' and `>' are not both in one text: the parser takes          *)
(* `a < b == c > (d)' for template arguments (README, Known deviations).    *)

Numbers0 == {N(1), V("a")}
Truths0  == {V("p")}
Places   == {V("x"), Member(V("o"), ".", "m"), At(V("v"), N(0))}

\* The expressions whose operands are of num and truth, all at once.
NumberNodes(num, truth) ==
  {B(op, l, r) : op \in {"+", "*"}, l \in num, r \in num} \cup {Pre("-", e) : e \in num}
  \cup {Set(op, t, e) : op \in {"=", "+="}, t \in Places, e \in num}
  \cup {Apply("f", <<e>>) : e \in num} \cup {Apply("f", <<e, e>>) : e \in num}
  \cup {CastTo(Int8, e) : e \in num}
  \cup {At(V("v"), e) : e \in num}
TruthNodes(num, truth) ==
  {B(op, l, r) : op \in {"||", "&&"}, l \in truth, r \in truth}
  \cup {B("<", l, r) : l \in num, r \in num} \cup {B("==", l, r) : l \in num, r \in num}
  \cup {Pre("!", e) : e \in truth}

Choices(num, truth, num0, truth0) ==
  {Either(c, l, r) : c \in truth, l \in num0, r \in num0}
  \cup {Either(c, l, r) : c \in truth0, l \in num, r \in num}

\* Forms that nest nothing.
Simple ==
  {Pre("++", V("x")), Post("--", V("x")), Member(V("o"), ".", "m"), Member(V("C"), "::", "m"),
   [node |-> "newArray", type |-> Int8, size |-> N(2)],
   [node |-> "new", type |-> [T("C") EXCEPT !.args = <<Int8>>], args |-> <<V("a")>>],
   [node |-> "array", elements |-> <<N(1), V("a")>>],
   [node |-> "sizeof", of |-> Int8], [node |-> "sizeof", of |-> V("a")],
   [node |-> "default", type |-> T("C")],
   [node |-> "call", callee |-> V("f"), types |-> <<Int8, T("C")>>, args |-> <<V("a")>>],
   [node |-> "call", callee |-> Member(V("o"), ".", "m"), types |-> <<>>, args |-> <<>>]}

Lambda(captures, params, type, body) ==
  [node |-> "lambda", captures |-> captures, params |-> params, type |-> type, body |-> body]

Lambdas ==
  {Lambda(captures, params, type, body) :
     captures \in {<<>>, <<"a">>, <<"a", "b">>},
     params \in {<<>>, <<[type |-> Int8, name |-> "n"]>>},
     type \in {<<>>, <<Int8>>},
     body \in {B("+", V("a"), N(1)), [node |-> "block", body |-> <<>>]}}

Numbers1 == Numbers0 \cup Simple \cup NumberNodes(Numbers0, Truths0)
              \cup Choices(Numbers0, Truths0, Numbers0, Truths0)
Truths1  == Truths0 \cup TruthNodes(Numbers0, Truths0)
              \cup {B("instanceof", V("o"), T("C"))}
Numbers2 == Numbers1 \cup NumberNodes(Numbers1, Truths1)
              \cup Choices(Numbers1, Truths1, Numbers0, Truths0)
Truths2  == Truths1 \cup TruthNodes(Numbers1, Truths1)

Greater == {B("==", B(">", V("a"), e), V("p")) : e \in Numbers0}
             \cup {B(">=", e, B("-", e, N(1))) : e \in Numbers1}

Expressions == Numbers2 \cup Truths2 \cup Greater \cup Lambdas
                 \cup {Apply("f", <<l, N(1)>>) : l \in Lambdas}

-----------------------------------------------------------------------------
(* Statements *)

Do(expr) == [node |-> "expr", expr |-> expr]
Braces(body) == [node |-> "block", body |-> body]
Var(type, name, init) == [node |-> "var", type |-> type, name |-> name, init |-> init]
IfElse(cond, then, else) == [node |-> "if", cond |-> cond, then |-> then, else |-> else]
WhileLoop(cond, body) == [node |-> "while", cond |-> cond, body |-> body]
DoLoop(body, cond) == [node |-> "do", body |-> body, cond |-> cond]
ForLoop(first, cond, step, body) ==
  [node |-> "for", first |-> first, cond |-> cond, step |-> step, body |-> body]
SwitchOn(cond, cases) == [node |-> "switch", cond |-> cond, cases |-> cases]
Case(value, body) == [value |-> <<N(value)>>, body |-> body]
Default(body) == [value |-> <<>>, body |-> body]
Break == [node |-> "break"]
Continue == [node |-> "continue"]
None == [node |-> "none"]
ReturnOf(value) == [node |-> "return", given |-> value]
Assertion(value, message) == [node |-> "assert", value |-> value, message |-> message]
ExitWith(value) == [node |-> "exit", value |-> value, message |-> <<>>]

Leaves ==
  {Do(Set("=", V("x"), N(1))), Do(Apply("f", <<>>)), Break, Continue, ReturnOf(<<>>),
   ReturnOf(<<V("a")>>), Braces(<<>>),
   Assertion(V("p"), <<>>), Assertion(B("==", V("a"), N(1)), <<V("s")>>), ExitWith(N(1)),
   [node |-> "throw", thrown |-> [node |-> "new", type |-> T("E"), args |-> <<>>]]}

Declarations ==
  {Var(Int8, "n", <<N(1)>>), Var(T("C"), "c", <<>>),
   Var([T("C") EXCEPT !.args = <<Int8, T("D")>>], "c", <<V("d")>>),
   Var([T("C") EXCEPT !.depth = 2], "c", <<>>), Var([T("p.C") EXCEPT !.args = <<T("p.C")>>], "c", <<>>),
   Var([name |-> "(*)", args |-> <<Int8, Int8, T("C")>>, depth |-> 0], "f", <<V("g")>>)}

Firsts == {None, Do(Set("=", V("x"), N(0))), Var(Int8, "n", <<N(0)>>), Var(T("C"), "c", <<V("d")>>),
           [node |-> "decls", body |-> <<Var(Int8, "n", <<N(0)>>), Var(Int8, "k", <<>>)>>]}

Compound(leaves) ==
  {Braces(<<l>>) : l \in leaves \cup Declarations}
  \cup {IfElse(V("p"), l, <<>>) : l \in leaves}
  \cup {IfElse(V("p"), Braces(<<l>>), <<r>>) : l \in leaves, r \in leaves}
  \cup {WhileLoop(V("p"), l) : l \in leaves} \cup {DoLoop(l, V("p")) : l \in leaves}
  \cup {ForLoop(f, c, s, l) : f \in Firsts, c \in {<<>>, <<B("<", V("n"), N(2))>>},
                              s \in {<<>>, <<Post("++", V("n"))>>}, l \in leaves}
  \cup {SwitchOn(V("a"), <<Case(1, <<l>>), Case(2, <<>>), Default(<<l, Break>>)>>) : l \in leaves}

Tries(leaves) ==
  {[node |-> "try", body |-> Braces(<<l>>), catches |-> catches, finally |-> finally] :
     l \in leaves,
     catches \in {<<>>, <<[type |-> T("E"), name |-> "e", body |-> Braces(<<Break>>)]>>},
     finally \in {<<Braces(<<Continue>>)>>}}

Several == [node |-> "decls", body |-> <<Var(Int8, "n", <<>>), Var(Int8, "k", <<N(1)>>)>>]

Shallow == Compound(Leaves) \cup Tries(Leaves)
Chosen == {IfElse(V("p"), Braces(<<Break>>), <<Continue>>), WhileLoop(V("p"), IfElse(V("q"), Break, <<>>)),
           SwitchOn(V("a"), <<Default(<<Break>>)>>), ForLoop(None, <<>>, <<>>, Continue),
           DoLoop(Braces(<<Var(Int8, "n", <<>>)>>), V("p"))}
StatementTrees == Leaves \cup Declarations \cup {Several} \cup Shallow
                    \cup Compound(Chosen) \cup Tries(Chosen)

-----------------------------------------------------------------------------
(* Files *)

Method(type, name, params, body) ==
  [node |-> "method", access |-> "public", marks |-> {"static"}, type |-> type, name |-> name,
   templates |-> <<>>, params |-> params, body |-> <<Braces(body)>>]

Native(type, name, params) ==
  [Method(type, name, params, <<>>) EXCEPT !.marks = {"static", "native"}, !.body = <<>>]

Class(name, members) ==
  [node |-> "class", access |-> "public", abstract |-> FALSE, name |-> name, templates |-> <<>>,
   base |-> <<>>, faces |-> <<>>, members |-> members]

Field == [node |-> "field", access |-> "private", marks |-> {}, type |-> Int8, name |-> "x",
          init |-> <<N(1)>>]
This(name) == Member(V("this"), ".", name)
Constructor(body) ==
  [node |-> "constructor", class |-> "C", access |-> "public",
   params |-> <<[type |-> Int8, name |-> "n"]>>, body |-> Braces(body)]
Destructor == [node |-> "destructor", class |-> "C", access |-> "public",
               body |-> Braces(<<Do(Apply("f", <<>>))>>)]

Bodies0 == {<<>>, <<Do(Apply("super", <<N(1)>>))>>, <<Do(Set("=", This("x"), V("n")))>>,
            <<Do(Apply("super", <<>>)), Do(Set("=", This("x"), B("+", V("n"), N(1)))), ReturnOf(<<>>)>>}

Enum == [node |-> "enum", access |-> "internal", name |-> "E", members |-> <<"A", "B">>]
Interface ==
  [node |-> "interface", access |-> "public", name |-> "I", templates |-> <<"T">>,
   base |-> <<T("J")>>, faces |-> <<T("J"), T("K")>>,
   members |-> <<[Native(Int8, "f", <<[type |-> T("T"), name |-> "t"]>>)
                   EXCEPT !.marks = {"abstract"}]>>]
Alias == [node |-> "alias", name |-> "A", templates |-> <<"T">>,
          type |-> [T("C") EXCEPT !.args = <<T("T")>>]]
Import(package, symbol) == [node |-> "import", package |-> package, symbol |-> symbol]

\* What may stand before the first class.
Heads == {<<>>, <<[node |-> "package", path |-> <<"a", "b">>]>>,
          <<[node |-> "package", path |-> <<"a">>], Alias, Import(<<"a">>, <<>>),
            Import(<<"a", "b">>, <<"*">>), Import(<<"a">>, <<"C">>)>>,
          <<Enum, Alias, Interface>>}

MemberLists ==
  {<<>>, <<Field>>, <<[Field EXCEPT !.marks = {"static"}, !.init = <<>>], Destructor>>,
   <<[Field EXCEPT !.marks = {"static", "const"}], Class("Inner", <<Field>>)>>,
   <<[Method(Int8, "f", <<[type |-> T("C"), name |-> "c"]>>, <<ReturnOf(<<N(1)>>)>>)
       EXCEPT !.marks = {"virtual"}, !.templates = <<T("T")>>], Field>>,
   <<[Native(Void, "f", <<>>) EXCEPT !.marks = {"abstract"}], Destructor>>,
   <<[Method(T("C"), "operator<", <<[type |-> T("C"), name |-> "c"]>>, <<>>) EXCEPT !.marks = {}],
     Enum, Interface>>}
  \cup {<<Constructor(b), Field>> : b \in Bodies0}

Files ==
  {<<[Class("C", ms) EXCEPT !.base = b, !.faces = f, !.templates = t, !.abstract = a],
     [Field EXCEPT !.access = "internal"]>> :
     ms \in MemberLists, b \in {<<>>, <<[T("D") EXCEPT !.args = <<Int8>>]>>},
     f \in {<<>>, <<T("I"), T("J")>>}, t \in {<<>>, <<"T", "U">>}, a \in BOOLEAN}
  \cup {head \o <<Class("C", ms), Alias>> : head \in Heads, ms \in MemberLists}

-----------------------------------------------------------------------------
(* Programs: main may call half, print and read.  Loops that could run for  *)
(* ever read numbers, and wait when there are no more.                      *)

PrintOf(e) == Do(Apply("print", <<e>>))
Read == Apply("read", <<>>)
x == V("x")

Half == Method(Int8, "half", <<[type |-> Int64, name |-> "n"]>>,
               <<IfElse(B("<", V("n"), N(0)), ReturnOf(<<Pre("-", V("n"))>>), <<>>),
                 ReturnOf(<<B("/", V("n"), N(2))>>)>>)

\* What is done in a loop with x, the number read.
Steps ==
  {<<PrintOf(x)>>,
   <<IfElse(B("==", x, N(1)), Continue, <<Braces(<<PrintOf(N(7))>>)>>), PrintOf(x)>>,
   <<IfElse(B(">", x, N(1)), Braces(<<IfElse(B("==", x, N(2)), Break, <<>>)>>), <<>>), PrintOf(x)>>,
   <<SwitchOn(x, <<Case(1, <<PrintOf(N(10)), Break>>), Case(2, <<PrintOf(N(20))>>),
                   Default(<<PrintOf(N(30))>>)>>)>>,
   <<SwitchOn(x, <<Case(2, <<PrintOf(N(20)), Break>>),
                   Case(1, <<SwitchOn(N(3), <<Case(3, <<Break>>)>>), PrintOf(N(10))>>)>>), PrintOf(x)>>,
   <<PrintOf(Either(B("||", B("==", x, N(1)), B("==", Read, N(1))), N(5), N(6)))>>,
   <<PrintOf(Either(B("&&", B("!=", x, N(1)), B("<", B("/", N(4), B("-", x, N(1))), N(4))),
               Set("=", x, N(9)), B("*", x, N(3)))), PrintOf(x)>>,
   <<Assertion(B("!=", x, N(2)), <<>>), PrintOf(B("%", Pre("-", N(7)), x))>>,
   <<PrintOf(Apply("half", <<B("-", x, N(4))>>)), PrintOf(Apply("half", <<B("*", N(100), x)>>))>>,
   <<IfElse(B("==", x, N(2)), ReturnOf(<<>>), <<>>), Do(Set("+=", x, N(120))), PrintOf(x),
     PrintOf(B("+", Post("--", x), Pre("++", x)))>>,
   <<IfElse(B("==", x, N(0)), ExitWith(B("/", N(1), x)), <<ExitWith(x)>>)>>}

X == Var(Int8, "x", <<Read>>)
K == Var(Int64, "k", <<N(0)>>)

\* The loops around the steps: each kind, one in another, and one whose
\* number of turns is fixed.
LoopsOf(step) ==
  {<<Var(Int8, "x", <<N(0)>>), WhileLoop(B("!=", Set("=", x, Read), N(0)), Braces(step))>>,
   <<Braces(<<K, Var(Int8, "x", <<N(0)>>),
       DoLoop(Braces(<<Do(Set("=", x, Read))>> \o step), B("<", V("k"), N(2)))>>)>>,
   <<Var(Int8, "x", <<N(1)>>),
     ForLoop(K, <<B("<", V("k"), N(3))>>, <<Pre("++", V("k"))>>, Braces(<<Do(Set("=", x, Read))>> \o step)),
     PrintOf(V("k"))>>,
   <<ForLoop(X, <<>>, <<Set("=", x, Read)>>,
       Braces(<<ForLoop(K, <<B("<", V("k"), N(2))>>, <<Post("++", V("k"))>>, Braces(step)),
                PrintOf(V("k")), IfElse(B("==", x, N(0)), Break, <<>>)>>))>>}

\* continue in a switch leaves an operand behind, so no step holds both.
Mains == UNION {LoopsOf(step) : step \in Steps}

Program(body) ==
  <<Class("Main", <<Native(Int64, "read", <<>>),
                    Native(Void, "print", <<[type |-> Int64, name |-> "n"]>>),
                    Method(Void, "main", <<>>, body), Half>>)>>

Given == {<<>>, <<1, 2, 0>>, <<2, 1, 3, 0>>}

MCJobs ==
  {[kind |-> "expression", tree |-> <<e>>, runs |-> FALSE, given |-> <<>>] : e \in Expressions}
  \cup {[kind |-> "statement", tree |-> <<s>>, runs |-> FALSE, given |-> <<>>] : s \in StatementTrees}
  \cup {[kind |-> "file", tree |-> f, runs |-> FALSE, given |-> <<>>] : f \in Files}
  \cup {[kind |-> "file", tree |-> Program(b), runs |-> TRUE, given |-> g] : b \in Mains, g \in Given}
=============================================================================
