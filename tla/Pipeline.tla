------------------------------ MODULE Pipeline ------------------------------
(***************************************************************************)
(* From the text of a program to its end: run of core/src/compilation.cpp  *)
(* and RuntimeContext::execute over one file.  The parser (Syntax) reads   *)
(* what the documented notation (Notation) writes, the assembler           *)
(* (CodeGeneration) turns the tree into instructions, the virtual machine  *)
(* (Interpreter) runs them; Meaning says what the program should do.       *)
(*                                                                         *)
(* A job is a text to be parsed as an expression, a statement or a file;   *)
(* the file of a runnable job has one class, whose static method main is   *)
(* the entry point, and is run with the given numbers to be read.          *)
(***************************************************************************)
EXTENDS Syntax, Notation, CodeGeneration, Interpreter, Meaning, FiniteSets

LOCAL INSTANCE SequencesExt

CONSTANT Jobs       \* [kind, tree, runs, given]

ASSUME JobsAssumption ==
  \A job \in Jobs : /\ job.kind \in {"expression", "statement", "file"}
                    /\ job.runs => job.kind = "file"

VARIABLES job,       \* what is compiled
          text,      \* its tokens
          parsed,    \* what the parser made of them
          promised,  \* what a program that runs should print, and its end
          height     \* operands there were when an instruction was reached first
vars == <<job, text, parsed, promised, height, vm>>

\* The tokens of a job, with the fewest parentheses or with all of them.
Written(j, full) ==
  CASE j.kind = "expression" -> Text(j.tree[1], full)
    [] j.kind = "statement"  -> Statement(j.tree[1], full)
    [] j.kind = "file"       -> FlattenSeq([i \in 1..Len(j.tree) |-> Declaration(j.tree[i], full)])

\* A tree, or the trees of a file.
Trees(kind, read) == IF kind = "file" THEN read ELSE Parsed(<<read.tree>>, read.at)

MethodsOf(file) == SelectSeq(file[1].members, LAMBDA m : m.node = "method" /\ m.body # <<>>)

NativesOf(file) == {m.name : m \in {file[1].members[i] : i \in
                      {j \in 1..Len(file[1].members) : "native" \in file[1].members[j].marks}}}

VariablesOf(file) ==
  LET methods == MethodsOf(file)
  IN  [name \in {methods[i].name : i \in 1..Len(methods)} |->
         Scope(methods[CHOOSE i \in 1..Len(methods) : methods[i].name = name], {}).type]

\* run (core/src/compilation.cpp), from what the parser read on.  An error of
\* the parser ends it, and there is no code.
Compiled(j, ts, read) ==
  [job |-> j, text |-> ts, parsed |-> read,
   code |-> IF j.runs /\ read.at # 0
            THEN Assembled(MethodsOf(read.tree), NativesOf(read.tree)) ELSE <<>>,
   promised |-> IF j.runs THEN Meaning(MethodsOf(j.tree), VariablesOf(j.tree), j.given)
                ELSE [out |-> <<>>, ends |-> "compiled"]]

Compilation(j, ts) == Compiled(j, ts, Trees(j.kind, Parse(j.kind, ts, 1)))

Compilations == {Compilation(j, Written(j, full)) : j \in Jobs, full \in BOOLEAN}

\* RuntimeContext::execute begins when the compilation is over.
Init ==
  /\ \E c \in Compilations :
       /\ job = c.job /\ text = c.text /\ parsed = c.parsed /\ promised = c.promised
       /\ code = c.code /\ input = c.job.given
       /\ status = IF c.code = <<>> THEN "compiled" ELSE "running"
       /\ height = [i \in 1..Len(c.code) |-> -1]
  /\ ip = 1 /\ stack = <<>> /\ frames = <<[ret |-> 0, fp |-> 0, argc |-> 0]>>
  /\ printed = <<>>

\* Operands of the method that runs, its variables included.
Operands == Len(stack) - Frame.fp

Run ==
  /\ Step
  /\ height' = IF height[ip] = -1 THEN [height EXCEPT ![ip] = Operands] ELSE height
  /\ UNCHANGED <<job, text, parsed, promised>>

Next == Run

\* The machine goes on as long as it can.
Spec == Init /\ [][Next]_vars /\ WF_vars(Next)

-----------------------------------------------------------------------------
(* Properties *)

\* The parser builds, from a text with the fewest parentheses and from one
\* with all of them, the tree that was written, and reads the text to its end.
ParsesBack == parsed = [tree |-> job.tree, at |-> Len(text) + 1]

\* Whatever instructions the tree became, the program prints what its
\* structured evaluation prints, in that order, and stops for its reason, or
\* waits for a number to read where it does.  An instruction finds the same
\* number of operands in the frame of its method each time it is reached, along
\* whatever jumps: loops, breaks and switches neither pile up words nor take
\* away those of others.
SameHeight == status = "running" => height[ip] \in {-1, Operands}
SameBehaviour ==
  /\ SameHeight
  /\ IsPrefix(printed, promised.out)
  /\ status # "running" => printed = promised.out /\ status = promised.ends
  /\ Waiting => printed = promised.out /\ promised.ends = "waiting"

\* Every program whose structured evaluation ends comes to an end, or to wait.
Finishes == <>(status # "running" \/ Waiting)
=============================================================================
