---- MODULE MCLanguageServer ----
(***************************************************************************)
(* Instance of LanguageServer: one file of a project and a loose file, two *)
(* classes and an enum, and five texts: an empty one, one that is          *)
(* complete, one that uses what the other declares, one that breaks off    *)
(* after its first class, and one with a character the lexer does not      *)
(* know.                                                                   *)
(***************************************************************************)
EXTENDS LanguageServer

CONSTANTS a, b, P, Q, E

Text(reads, parses, declares, uses) ==
  [reads |-> reads, parses |-> parses, declares |-> declares, uses |-> uses]

Empty == Text(TRUE, TRUE, {}, {})
Whole == Text(TRUE, TRUE, {P, Q, E}, {})
User == Text(TRUE, TRUE, {}, {P, E})
Broken == Text(TRUE, FALSE, {P}, {})
Strange == Text(FALSE, TRUE, {P}, {P})

MCFiles == {a, b}
MCProject == {a}
MCNames == {P, Q, E}
MCClasses == {P, Q}
MCTexts == {Empty, Whole, User, Broken, Strange}
MCDisks == {[f \in MCFiles |-> IF f = a THEN Whole ELSE User]}
====
