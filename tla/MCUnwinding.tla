---------------------------- MODULE MCUnwinding ----------------------------
(* Small instances of Unwinding. *)
EXTENDS Unwinding, TLC

(* Programs that keep to what works, and programs that lose references. *)
MCPrograms ==
  {[habits |-> {}, blocks |-> 5, tries |-> 2],
   [habits |-> {"operator", "destructor", "initializer", "operand", "catch"},
    blocks |-> 4, tries |-> 2]}

OperatorPrograms == {[habits |-> {"operator"}, blocks |-> 5, tries |-> 1]}

(* Objects and statements are only compared. *)
Symmetry == Permutations(Obj) \cup Permutations(Try)
=============================================================================
